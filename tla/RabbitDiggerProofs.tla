-------------------------- MODULE RabbitDiggerProofs --------------------------
(***************************************************************************)
(* Proofs about RabbitDigger, for any number of handles, servers, builds   *)
(* and configs: every guard of the RwLock is accounted for, stop and join  *)
(* work on the instance that is the state, the state never shows a half    *)
(* started instance, and only who never looked at an instance replaces it  *)
(* while it runs.  Then about NetGraph, for any configs and updates: what  *)
(* runs is what the config says.                                           *)
(***************************************************************************)
EXTENDS RabbitDigger, NetGraph, SequenceTheorems, TLAPS

-----------------------------------------------------------------------------
(* The inductive invariant, in parts.                                      *)

Request == [who : Clients, mode : {"r", "w"}]
ReadPoints == {"stop_server", "stop_wait", "join_servers"}

\* A task is in the queue at most once, only while it awaits the lock, and for
\* the kind of guard it awaits there; the guards out are those of the tasks
\* that work under one, and a write guard is alone.
GuardsAt(p) ==
    {g \in Request : \/ g.mode = "r" /\ p[g.who] \in ReadPoints
                     \/ g.mode = "w" /\ p[g.who] = "start_servers"}
LockOK(l, p) ==
    /\ l \in [queue : Seq(Request), held : SUBSET Request]
    /\ l.held = GuardsAt(p)
    /\ \A i \in 1..Len(l.queue) :
         /\ p[l.queue[i].who] \in LockPoints
         /\ l.queue[i].mode = IF p[l.queue[i].who] \in WritePoints THEN "w" ELSE "r"
    /\ \A i, j \in 1..Len(l.queue) : l.queue[i].who = l.queue[j].who => i = j
    /\ \A g, h \in l.held : g.mode = "w" => g = h
LockAccounted == LockOK(lock, pc)

\* Under a read guard, the instance that was found is still the state.
GuardedView ==
    \A c \in Clients : pc[c] \in ReadPoints => seen[c] = state /\ state # WaitConfig

\* A start that has built has an instance, and has started the servers it has
\* come past; a stop waits for a server that there is.
Progress(c) ==
    /\ pc[c] \in ReadPoints \cup {"stop_read"} \cup JoinPoints /\ op[c] = "start"
         => mine[c] \in Instances
    /\ pc[c] \in {"start_write", "start_servers"} => mine[c] \in Instances
    /\ pc[c] = "start_servers" =>
         \A s \in Servers : s < at[c] => cell[mine[c]][s].started
    /\ pc[c] = "stop_wait" => at[c] <= N
StartProgress == \A c \in Clients : Progress(c)

\* TypeOK without the lock, whose type is part of LockAccounted.
Typed ==
    /\ state \in {WaitConfig} \cup Instances
    /\ cell \in [Instances -> [Servers -> Cell]]
    /\ builds \in 0..MaxBuilds
    /\ pc \in [Clients -> Points]
    /\ op \in [Clients -> {"none", "start", "stop", "join", "restart", "final"}]
    /\ mine \in [Clients -> 0..MaxBuilds]
    /\ seen \in [Clients -> 0..MaxBuilds]
    /\ at \in [Clients -> 1..(N + 1)]
    /\ sub \in [Clients -> [Servers -> {"join", "take", "done"}]]
    /\ configs \in 0..MaxConfigs

IInv == Typed /\ LockAccounted /\ GuardedView /\ StartProgress /\ RunningIsComplete

\* A start from its build to its write of the state.
Starting(c) ==
    /\ op[c] = "start"
    /\ pc[c] \in ReadPoints \cup JoinPoints \cup {"stop_read", "start_write", "start_servers"}

\* Instances are numbered as they are built, and until it is the state nobody
\* but the start that has built an instance knows of it.
FreshInstances ==
    /\ state <= builds
    /\ \A c \in Clients :
         /\ mine[c] <= builds /\ seen[c] <= builds
         /\ pc[c] \in {"start_write", "start_servers"} => op[c] = "start"
         /\ op[c] = "none" => mine[c] = 0
         /\ Starting(c) => /\ state # mine[c]
                           /\ \A d \in Clients : /\ seen[d] # mine[c]
                                                 /\ d # c => mine[d] # mine[c]

\* A task lives only in a server that is Running.
AliveIsRunning ==
    \A i \in Instances, s \in Servers : Alive(cell[i][s]) => cell[i][s].st = "Running"

\* What a task knows of the instance it looked at: a join or a stop that has come
\* past a server has seen it end, and a stop or a start that goes on to the state
\* has seen the end of what it found there.  A stream that has stopped for good
\* or for its next config has not left its instance in the state.
Looked(c) ==
    /\ pc[c] = "join_servers" =>
         \A s \in Servers : sub[c][s] # "join" => ~Alive(cell[seen[c]][s])
    /\ pc[c] = "join_write" =>
         seen[c] \in Instances /\ \A s \in Servers : ~Alive(cell[seen[c]][s])
    /\ pc[c] \in {"stop_server", "stop_wait"} =>
         \A s \in Servers : s < at[c] => ~Alive(cell[seen[c]][s])
    /\ pc[c] \in {"join_read", "start_write", "start_servers"} /\ op[c] # "join" =>
         (state = seen[c] /\ state # WaitConfig => \A s \in Servers : ~Alive(cell[state][s]))
    /\ c \in Streams => /\ pc[c] \notin {"idle", "read"}
                        /\ pc[c] \in {"build", "drain", "exited"} /\ mine[c] # 0
                             => state # mine[c]

LookInv == AliveIsRunning /\ FreshInstances /\ \A c \in Clients : Looked(c)

\* The last instance of a start_stream that has returned is not the state.
NotLeftRunning ==
    \A c \in Streams : pc[c] = "exited" /\ mine[c] # 0 => state # mine[c]

-----------------------------------------------------------------------------
(* What the operators of ServerCell and TokioRwLock do.                    *)

\* Two fields of a cell change: the others keep their values.
LEMMA CellPublished ==
    ASSUME NEW x \in Cell
    PROVE  LET y == Published(Spawned(x)) IN
           y \in Cell /\ y.st = "Running" /\ y.started /\ y.task = "running"
<1> DEFINE a == Spawned(x)
           b == [a EXCEPT !.st = "Running"]
<1>1. a \in Cell /\ a.task = "running"
  BY DEF Spawned, Cell, TaskStates
<1>2. Published(a) = [b EXCEPT !.started = TRUE]
  BY DEF Published
<1> HIDE DEF a
<1>3. b \in Cell /\ b.task = a.task /\ b.st = "Running"
  BY <1>1 DEF Cell
<1> HIDE DEF b
<1>4. LET y == [b EXCEPT !.started = TRUE] IN
      y \in Cell /\ y.st = b.st /\ y.started /\ y.task = b.task
  BY <1>3 DEF Cell
<1> QED BY <1>1, <1>2, <1>3, <1>4 DEF a

LEMMA CellReturning ==
    ASSUME NEW x \in Cell
    PROVE  LET y == Returning(x) IN
           y \in Cell /\ y.st = x.st /\ y.started = x.started /\ y.task = "closing"
<1> DEFINE a == [x EXCEPT !.task = "closing"]
<1>1. a \in Cell /\ a.task = "closing" /\ a.st = x.st /\ a.started = x.started
  BY DEF Cell, TaskStates
<1>2. Returning(x) = [a EXCEPT !.closed = TRUE]
  BY DEF Returning
<1> HIDE DEF a
<1>3. LET y == [a EXCEPT !.closed = TRUE] IN
      y \in Cell /\ y.st = a.st /\ y.started = a.started /\ y.task = a.task
  BY <1>1 DEF Cell
<1> QED BY <1>1, <1>2, <1>3

LEMMA CellStopRequested ==
    ASSUME NEW x \in Cell
    PROVE  LET y == StopRequested(x) IN
           y \in Cell /\ y.st = x.st /\ y.started = x.started /\ y.task = x.task
<1> DEFINE a == [x EXCEPT !.abort = TRUE]
<1>1. a \in Cell /\ a.task = x.task /\ a.st = x.st /\ a.started = x.started
  BY DEF Cell
<1>2. StopRequested(x) = [a EXCEPT !.closed = TRUE]
  BY DEF StopRequested
<1> HIDE DEF a
<1>3. LET y == [a EXCEPT !.closed = TRUE] IN
      y \in Cell /\ y.st = a.st /\ y.started = a.started /\ y.task = a.task
  BY <1>1 DEF Cell
<1> QED BY <1>1, <1>2, <1>3

LEMMA CellOthers ==
    ASSUME NEW x \in Cell
    PROVE  /\ Collected(x) \in Cell /\ Collected(x).started = x.started
           /\ Collected(x).task = x.task /\ Collected(x).st = "Finished"
           /\ Taken(x) \in Cell /\ Taken(x).started = x.started
           /\ Taken(x).task = x.task /\ Taken(x).st = "Idle"
           /\ Ended(x) \in Cell /\ Ended(x).started = x.started
           /\ Ended(x).task = "ended" /\ Ended(x).st = x.st
  BY DEF Collected, Taken, Ended, Cell, TaskStates

\* One server of one instance changes.
LEMMA CellUpdate ==
    ASSUME NEW f \in [Instances -> [Servers -> Cell]], NEW i \in Instances, NEW s \in Servers,
           NEW v \in Cell
    PROVE  LET g == [f EXCEPT ![i][s] = v] IN
           /\ g \in [Instances -> [Servers -> Cell]]
           /\ g[i][s] = v
           /\ \A j \in Instances, t \in Servers : j # i \/ t # s => g[j][t] = f[j][t]
  OBVIOUS

\* No step of anybody takes back that a server was started, brings an ended
\* task back to life but a start, or makes a living server other than Running.
CellStep(old, new) ==
    /\ new \in Cell
    /\ old.started => new.started
    /\ Alive(new) => Alive(old) /\ (old.st = "Running" => new.st = "Running")

\* What a step that is not a StartServer does to the servers.
CellsStep == \A i \in Instances, s \in Servers : CellStep(cell[i][s], cell'[i][s])

\* An element of the queue without p is an element of the queue that is not
\* p's, and the order of the others is kept.
LEMMA WithoutFacts ==
    ASSUME NEW q \in Seq(Request), NEW p,
           \A i, j \in 1..Len(q) : q[i].who = q[j].who => i = j
    PROVE  LET r == Without(q, p) IN
           /\ r \in Seq(Request)
           /\ \A k \in 1..Len(r) : r[k].who # p /\ \E i \in 1..Len(q) : r[k] = q[i]
           /\ \A k, l \in 1..Len(r) : r[k].who = r[l].who => k = l
<1>1. CASE \E i \in 1..Len(q) : q[i].who = p
  <2> DEFINE i == CHOOSE j \in 1..Len(q) : q[j].who = p
             r == SubSeq(q, 1, i - 1) \o SubSeq(q, i + 1, Len(q))
  <2>1. i \in 1..Len(q) /\ q[i].who = p
    BY <1>1
  <2>2. Without(q, p) = r
    BY <1>1 DEF Without
  <2> HIDE DEF i
  <2>3. /\ SubSeq(q, 1, i - 1) \in Seq(Request) /\ Len(SubSeq(q, 1, i - 1)) = i - 1
        /\ \A k \in 1..(i - 1) : SubSeq(q, 1, i - 1)[k] = q[k]
    BY <2>1
  <2>4. /\ SubSeq(q, i + 1, Len(q)) \in Seq(Request)
        /\ Len(SubSeq(q, i + 1, Len(q))) = Len(q) - i
        /\ \A k \in 1..(Len(q) - i) : SubSeq(q, i + 1, Len(q))[k] = q[i + k]
    BY <2>1
  <2>5. /\ r \in Seq(Request) /\ Len(r) = Len(q) - 1
        /\ \A k \in 1..Len(r) : r[k] = IF k < i THEN q[k] ELSE q[k + 1]
    <3> DEFINE a == SubSeq(q, 1, i - 1)
               b == SubSeq(q, i + 1, Len(q))
    <3>1. /\ a \o b \in Seq(Request) /\ Len(a \o b) = Len(a) + Len(b)
          /\ \A k \in 1..(Len(a) + Len(b)) :
               (a \o b)[k] = IF k <= Len(a) THEN a[k] ELSE b[k - Len(a)]
      BY <2>3, <2>4, ConcatProperties
    <3>2. Len(a) = i - 1 /\ Len(b) = Len(q) - i /\ i \in Int /\ Len(q) \in Nat
      BY <2>1, <2>3, <2>4
    <3>0. /\ r = a \o b
          /\ \A k \in 1..(i - 1) : a[k] = q[k]
          /\ \A k \in 1..(Len(q) - i) : b[k] = q[i + k]
      BY <2>3, <2>4
    <3> HIDE DEF a, b, r
    <3>3. Len(r) = Len(q) - 1
      BY <3>0, <3>1, <3>2
    <3>4. ASSUME NEW k \in 1..Len(r) PROVE r[k] = IF k < i THEN q[k] ELSE q[k + 1]
      <4>1. CASE k < i
        BY <2>1, <3>0, <3>1, <3>2, <3>3, <4>1
      <4>2. CASE ~(k < i)
        <5>1. k - Len(a) \in 1..(Len(q) - i) /\ ~(k <= Len(a)) /\ i + (k - Len(a)) = k + 1
          BY <2>1, <3>2, <3>3, <4>2
        <5> QED BY <3>0, <3>1, <3>2, <3>3, <4>2, <5>1
      <4> QED BY <4>1, <4>2
    <3> QED BY <3>0, <3>1, <3>3, <3>4
  <2> HIDE DEF r
  <2>6. \A k \in 1..Len(r) : \E j \in 1..Len(q) : r[k] = q[j] /\ j # i
    BY <2>1, <2>5
  <2>7. \A k, l \in 1..Len(r) : r[k].who = r[l].who => k = l
    BY <2>1, <2>5
  <2>8. \A k \in 1..Len(r) : r[k].who # p
    BY <2>1, <2>6
  <2> QED BY <2>2, <2>5, <2>6, <2>7, <2>8
<1>2. CASE ~ \E i \in 1..Len(q) : q[i].who = p
  BY <1>2 DEF Without
<1> QED BY <1>1, <1>2

-----------------------------------------------------------------------------
(* The servers.                                                            *)

LEMMA CellStepRefl == ASSUME NEW x \in Cell PROVE CellStep(x, x)
  BY DEF CellStep

\* One server takes a step, the others none.
LEMMA CellsUpdate ==
    ASSUME Typed, NEW i \in Instances, NEW s \in Servers, NEW v \in Cell,
           cell' = [cell EXCEPT ![i][s] = v], CellStep(cell[i][s], v)
    PROVE  cell' \in [Instances -> [Servers -> Cell]] /\ CellsStep
<1>1. cell \in [Instances -> [Servers -> Cell]]
  BY DEF Typed
<1>2. /\ cell' \in [Instances -> [Servers -> Cell]] /\ cell'[i][s] = v
      /\ \A j \in Instances, t \in Servers : j # i \/ t # s => cell'[j][t] = cell[j][t]
  BY <1>1, CellUpdate
<1>3. \A j \in Instances, t \in Servers : cell[j][t] \in Cell
  BY <1>1
<1> QED BY <1>2, <1>3, CellStepRefl DEF CellsStep

LEMMA CellsSame ==
    ASSUME Typed, cell' = cell
    PROVE  cell' \in [Instances -> [Servers -> Cell]] /\ CellsStep
<1>1. \A j \in Instances, t \in Servers : cell[j][t] \in Cell
  BY DEF Typed
<1> QED BY <1>1, CellStepRefl DEF CellsStep, Typed

\* The instance and the server that a stop or a join is at are there.
LEMMA AtHand ==
    ASSUME Typed, GuardedView, StartProgress, NEW c \in Clients
    PROVE  /\ pc[c] \in ReadPoints => seen[c] \in Instances
           /\ pc[c] = "stop_wait" => at[c] \in Servers
           /\ at[c] <= N => at[c] \in Servers
<1>1. at[c] \in 1..(N + 1) /\ N \in Nat
  BY RabbitDiggerAssumption DEF Typed
<1>2. pc[c] \in ReadPoints => seen[c] \in Instances
  BY DEF Typed, GuardedView
<1> QED BY <1>1, <1>2 DEF StartProgress, Progress, Servers

\* Every step but the start of a server: what was started stays so, nothing
\* comes back to life.
LEMMA CellsKept ==
    ASSUME Typed, GuardedView, StartProgress, [Next]_vars, ~ \E c \in Clients : StartServer(c)
    PROVE  cell' \in [Instances -> [Servers -> Cell]] /\ CellsStep
<1>0. \A i \in Instances, s \in Servers : cell[i][s] \in Cell
  BY DEF Typed
<1>1. ASSUME NEW c \in Clients, NEW s \in Servers, JoinServer(c, s)
      PROVE  cell' \in [Instances -> [Servers -> Cell]] /\ CellsStep
  <2>1. seen[c] \in Instances
    BY <1>1, AtHand DEF JoinServer, ReadPoints
  <2>2. CASE CanCollect(cell[seen[c]][s]) /\ cell' = [cell EXCEPT ![seen[c]][s] = Collected(@)]
    <3> DEFINE x == cell[seen[c]][s]
    <3>1. x \in Cell /\ x.task = "ended"
      BY <1>0, <2>1, <2>2 DEF CanCollect
    <3>2. Collected(x) \in Cell /\ CellStep(x, Collected(x))
      BY <3>1, CellOthers DEF CellStep, Alive
    <3>3. cell' = [cell EXCEPT ![seen[c]][s] = Collected(x)]
      BY <2>2
    <3> HIDE DEF x
    <3> QED BY <2>1, <3>2, <3>3, CellsUpdate DEF x
  <2> QED BY <1>1, <2>2, CellsSame DEF JoinServer
<1>2. ASSUME NEW c \in Clients, NEW s \in Servers, TakeResult(c, s)
      PROVE  cell' \in [Instances -> [Servers -> Cell]] /\ CellsStep
  <2>1. seen[c] \in Instances
    BY <1>2, AtHand DEF TakeResult, ReadPoints
  <2>2. CASE cell[seen[c]][s].st = "Finished" /\ cell' = [cell EXCEPT ![seen[c]][s] = Taken(@)]
    <3> DEFINE x == cell[seen[c]][s]
    <3>1. x \in Cell /\ x.st = "Finished"
      BY <1>0, <2>1, <2>2
    <3>2. Taken(x) \in Cell /\ CellStep(x, Taken(x))
      BY <3>1, CellOthers DEF CellStep, Alive
    <3>3. cell' = [cell EXCEPT ![seen[c]][s] = Taken(x)]
      BY <2>2
    <3> HIDE DEF x
    <3> QED BY <2>1, <3>2, <3>3, CellsUpdate DEF x
  <2> QED BY <1>2, <2>2, CellsSame DEF TakeResult
<1>3. ASSUME NEW c \in Clients, StopServer(c)
      PROVE  cell' \in [Instances -> [Servers -> Cell]] /\ CellsStep
  <2>1. seen[c] \in Instances /\ at[c] \in Servers
    BY <1>3, AtHand DEF StopServer, ReadPoints
  <2>2. CASE cell' = [cell EXCEPT ![seen[c]][at[c]] = StopRequested(@)]
    <3> DEFINE x == cell[seen[c]][at[c]]
    <3>1. x \in Cell
      BY <1>0, <2>1
    <3>2. StopRequested(x) \in Cell /\ CellStep(x, StopRequested(x))
      BY <3>1, CellStopRequested DEF CellStep, Alive
    <3>3. cell' = [cell EXCEPT ![seen[c]][at[c]] = StopRequested(x)]
      BY <2>2
    <3> HIDE DEF x
    <3> QED BY <2>1, <3>2, <3>3, CellsUpdate DEF x
  <2> QED BY <1>3, <2>2, CellsSame DEF StopServer
<1>4. ASSUME NEW c \in Clients, StopWait(c)
      PROVE  cell' \in [Instances -> [Servers -> Cell]] /\ CellsStep
  <2>1. seen[c] \in Instances /\ at[c] \in Servers
    BY <1>4, AtHand DEF StopWait, ReadPoints
  <2>2. CASE /\ CanCollect(cell[seen[c]][at[c]])
             /\ cell' = [cell EXCEPT ![seen[c]][at[c]] = Collected(@)]
    <3> DEFINE x == cell[seen[c]][at[c]]
    <3>1. x \in Cell /\ x.task = "ended"
      BY <1>0, <2>1, <2>2 DEF CanCollect
    <3>2. Collected(x) \in Cell /\ CellStep(x, Collected(x))
      BY <3>1, CellOthers DEF CellStep, Alive
    <3>3. cell' = [cell EXCEPT ![seen[c]][at[c]] = Collected(x)]
      BY <2>2
    <3> HIDE DEF x
    <3> QED BY <2>1, <3>2, <3>3, CellsUpdate DEF x
  <2> QED BY <1>4, <2>2, CellsSame DEF StopWait
<1>5. ASSUME NEW i \in Instances, NEW s \in Servers, TaskReturn(i, s) \/ TaskEnd(i, s)
      PROVE  cell' \in [Instances -> [Servers -> Cell]] /\ CellsStep
  <2> DEFINE x == cell[i][s]
  <2>1. x \in Cell
    BY <1>0
  <2>2. \/ Alive(x) /\ cell' = [cell EXCEPT ![i][s] = Returning(x)]
        \/ cell' = [cell EXCEPT ![i][s] = Ended(x)]
    BY <1>5 DEF TaskReturn, TaskEnd, TaskStep, Alive
  <2>3. /\ Returning(x) \in Cell /\ (Alive(x) => CellStep(x, Returning(x)))
        /\ Ended(x) \in Cell /\ CellStep(x, Ended(x))
    BY <2>1, CellReturning, CellOthers DEF CellStep, Alive
  <2> HIDE DEF x
  <2> QED BY <2>2, <2>3, CellsUpdate DEF x
<1>6. CASE cell' = cell
  BY <1>6, CellsSame
<1>7. \/ cell' = cell
      \/ \E c \in Clients : StopServer(c) \/ StopWait(c)
                             \/ \E s \in Servers : JoinServer(c, s) \/ TakeResult(c, s)
      \/ \E i \in Instances, s \in Servers : TaskReturn(i, s) \/ TaskEnd(i, s)
  BY DEF Next, vars, Step, Call, AskLock, JoinRead, JoinNothing, JoinedAll, JoinWrite, StopRead,
         StoppedAll, Build, BuildFails, StartWrite, StartDone, Select, Drained, ReadDone,
         CallStart, CallStop, CallJoin, CallRead, FirstConfig, NextConfig
<1> QED BY <1>1, <1>2, <1>3, <1>4, <1>5, <1>6, <1>7

\* The start of a server: it is started and alive, the others are left alone.
LEMMA StartServerCells ==
    ASSUME Typed, StartProgress, NEW c \in Clients, StartServer(c)
    PROVE  /\ cell' \in [Instances -> [Servers -> Cell]]
           /\ mine[c] \in Instances /\ at[c] \in Servers
           /\ cell'[mine[c]][at[c]].started /\ cell'[mine[c]][at[c]].st = "Running"
           /\ \A i \in Instances, s \in Servers :
                i # mine[c] \/ s # at[c] => cell'[i][s] = cell[i][s]
<1>1. mine[c] \in Instances
  BY DEF StartServer, StartProgress, Progress
<1>2. at[c] \in Servers
  BY RabbitDiggerAssumption DEF StartServer, Typed, Servers
<1> DEFINE x == cell[mine[c]][at[c]]
<1>3. x \in Cell /\ cell' = [cell EXCEPT ![mine[c]][at[c]] = Published(Spawned(x))]
  BY <1>1, <1>2 DEF Typed, StartServer
<1>4. /\ Published(Spawned(x)) \in Cell
      /\ Published(Spawned(x)).started /\ Published(Spawned(x)).st = "Running"
  BY <1>3, CellPublished
<1> HIDE DEF x
<1> QED BY <1>1, <1>2, <1>3, <1>4, CellUpdate DEF Typed

-----------------------------------------------------------------------------
(* Types.                                                                  *)

LEMMA TypedStep ==
    ASSUME Typed, GuardedView, StartProgress, [Next]_vars
    PROVE  Typed'
<1>1. cell' \in [Instances -> [Servers -> Cell]]
  BY CellsKept, StartServerCells
<1>2. N \in Nat /\ MaxBuilds \in Nat /\ MaxConfigs \in Nat
  BY RabbitDiggerAssumption
<1>3. ASSUME NEW c \in Clients, Step(c) PROVE Typed'
  <2>1. CASE AskLock(c)
    BY <1>1, <2>1 DEF Typed, AskLock, locals
  <2>2. CASE JoinRead(c)
    <3>1. sub' \in [Clients -> [Servers -> {"join", "take", "done"}]]
      BY <2>2 DEF Typed, JoinRead
    <3>2. seen' \in [Clients -> 0..MaxBuilds]
      BY <1>2, <2>2 DEF Typed, JoinRead, Instances, WaitConfig
    <3> QED BY <1>1, <2>2, <3>1, <3>2 DEF Typed, JoinRead, Goto, Points, JoinPoints
  <2>3. CASE JoinNothing(c) \/ JoinWrite(c)
    BY <1>1, <2>3 DEF Typed, JoinNothing, JoinWrite, AfterJoin, Await, Goto, Points, JoinPoints, locals
  <2>4. CASE JoinedAll(c) \/ StoppedAll(c)
    BY <1>1, <2>4 DEF Typed, JoinedAll, StoppedAll, Await, Goto, Points, JoinPoints, locals
  <2>5. ASSUME NEW s \in Servers, JoinServer(c, s) \/ TakeResult(c, s) PROVE Typed'
    <3>1. sub' \in [Clients -> [Servers -> {"join", "take", "done"}]]
      <4>1. sub' = [sub EXCEPT ![c][s] = "take"] \/ sub' = [sub EXCEPT ![c][s] = "done"]
        BY <2>5 DEF JoinServer, TakeResult
      <4>2. /\ [sub[c] EXCEPT ![s] = "take"] \in [Servers -> {"join", "take", "done"}]
            /\ [sub[c] EXCEPT ![s] = "done"] \in [Servers -> {"join", "take", "done"}]
        BY DEF Typed
      <4> QED BY <4>1, <4>2 DEF Typed
    <3> QED BY <1>1, <2>5, <3>1 DEF Typed, JoinServer, TakeResult
  <2>6. CASE StopRead(c)
    <3>1. seen' \in [Clients -> 0..MaxBuilds] /\ at' \in [Clients -> 1..(N + 1)]
      <4>1. state \in 0..MaxBuilds /\ 1 \in 1..(N + 1)
        BY <1>2 DEF Typed, Instances, WaitConfig
      <4>2. /\ seen' = seen \/ seen' = [seen EXCEPT ![c] = state]
            /\ at' = at \/ at' = [at EXCEPT ![c] = 1]
        BY <2>6 DEF StopRead
      <4> QED BY <4>1, <4>2 DEF Typed
    <3>2. pc' \in [Clients -> Points]
      BY <2>6 DEF Typed, StopRead, Await, Goto, Points, JoinPoints
    <3> QED BY <1>1, <2>6, <3>1, <3>2 DEF Typed, StopRead
  <2>7. CASE StopServer(c)
    BY <1>1, <2>7 DEF Typed, StopServer, Goto, Points, locals
  <2>8. CASE StopWait(c)
    <3>1. at[c] + 1 \in 1..(N + 1)
      BY <1>2, <2>8 DEF Typed, StopWait, StartProgress, Progress
    <3> QED BY <1>1, <2>8, <3>1 DEF Typed, StopWait, Goto, Points
  <2>9. CASE Build(c)
    <3>1. builds + 1 \in 0..MaxBuilds
      BY <1>2, <2>9 DEF Typed, Build
    <3> QED BY <1>1, <2>9, <3>1 DEF Typed, Build, Calls, Await, Goto, Points
  <2>10. CASE BuildFails(c) \/ ReadDone(c)
    BY <1>1, <2>10 DEF Typed, BuildFails, ReadDone, Goto, Points, locals
  <2>11. CASE StartWrite(c)
    <3>1. 1 \in 1..(N + 1)
      BY <1>2
    <3> QED BY <1>1, <2>11, <3>1 DEF Typed, StartWrite, Goto, Points
  <2>12. CASE StartServer(c)
    <3>1. at[c] + 1 \in 1..(N + 1)
      BY <1>2, <2>12 DEF Typed, StartServer
    <3> QED BY <1>1, <2>12, <3>1 DEF Typed, StartServer
  <2>13. CASE StartDone(c)
    <3>1. mine[c] \in Instances
      BY <2>13 DEF StartDone, StartProgress, Progress
    <3> QED BY <1>1, <2>13, <3>1 DEF Typed, StartDone, Goto, Points, locals
  <2>14. CASE Select(c)
    BY <1>1, <2>14 DEF Typed, Select, Calls, Await, Goto, Points, JoinPoints
  <2> QED BY <1>3, <2>1, <2>2, <2>3, <2>4, <2>5, <2>6, <2>7, <2>8, <2>9, <2>10, <2>11, <2>12, <2>13,
             <2>14 DEF Step
<1>4. ASSUME NEW c \in Clients, Call(c) PROVE Typed'
  <2>1. CASE CallStart(c) \/ CallStop(c) \/ CallJoin(c) \/ CallRead(c)
    BY <1>1, <2>1 DEF Typed, CallStart, CallStop, CallJoin, CallRead, Calls, Await, Goto, Points,
                      JoinPoints, locals
  <2>2. CASE FirstConfig(c) \/ Drained(c)
    BY <1>1, <1>2, <2>2 DEF Typed, FirstConfig, Drained, Goto, Points, locals
  <2>3. CASE NextConfig(c)
    BY <1>1, <1>2, <2>3 DEF Typed, NextConfig, Calls, Await, Goto, Points
  <2> QED BY <1>4, <2>1, <2>2, <2>3 DEF Call
<1>5. ASSUME NEW i \in Instances, NEW s \in Servers, TaskReturn(i, s) \/ TaskEnd(i, s)
      PROVE  Typed'
  BY <1>1, <1>5 DEF Typed, TaskReturn, TaskEnd, TaskStep, locals
<1>6. CASE UNCHANGED vars
  BY <1>6 DEF Typed, vars
<1> QED BY <1>3, <1>4, <1>5, <1>6 DEF Next

-----------------------------------------------------------------------------
(* The lock.                                                               *)

NoGuard == Points \ (ReadPoints \cup {"start_servers"})

LEMMA GuardsAreGuards == Guards = GuardsAt(pc)
<1>1. ASSUME NEW g \in Guards PROVE g \in GuardsAt(pc)
  BY DEF Guards, GuardsAt, Request, ReadPoints
<1>2. ASSUME NEW g \in GuardsAt(pc) PROVE g \in Guards
  <2>1. g = [who |-> g.who, mode |-> g.mode] /\ g.who \in Clients
    BY DEF GuardsAt, Request
  <2> QED BY <2>1 DEF Guards, GuardsAt, Request, ReadPoints
<1> QED BY <1>1, <1>2

\* The guards after one task has moved.
LEMMA GuardsMoved ==
    ASSUME NEW p \in [Clients -> Points], NEW c \in Clients, NEW b \in Points
    PROVE  LET q == [p EXCEPT ![c] = b] IN
           \A g \in Request : g.who # c => (g \in GuardsAt(q) <=> g \in GuardsAt(p))
  BY DEF GuardsAt, Request

LEMMA NoGuardThere ==
    ASSUME NEW p \in [Clients -> Points], NEW c \in Clients, p[c] \in NoGuard
    PROVE  \A g \in GuardsAt(p) : g.who # c
  BY DEF GuardsAt, NoGuard

LEMMA LockPointsNoGuard == LockPoints \subseteq NoGuard /\ LockPoints \subseteq Points
  BY DEF LockPoints, WritePoints, NoGuard, ReadPoints, Points, JoinPoints

\* A task that neither waits nor works under a guard, before or after.
LEMMA LockMove ==
    ASSUME NEW l, NEW p \in [Clients -> Points], LockOK(l, p), NEW c \in Clients, NEW b \in NoGuard,
           p[c] \in NoGuard \ LockPoints
    PROVE  LockOK(l, [p EXCEPT ![c] = b])
<1> DEFINE q == [p EXCEPT ![c] = b]
<1>1. b \in Points /\ q \in [Clients -> Points] /\ q[c] = b
  BY DEF NoGuard
<1>2. GuardsAt(q) = GuardsAt(p)
  <2>1. GuardsAt(q) \subseteq Request /\ GuardsAt(p) \subseteq Request
    BY DEF GuardsAt
  <2>2. \A g \in GuardsAt(q) : g.who # c
    BY <1>1, NoGuardThere
  <2>3. \A g \in GuardsAt(p) : g.who # c
    BY NoGuardThere
  <2> QED BY <1>1, <2>1, <2>2, <2>3, GuardsMoved
<1>3. l.queue \in Seq(Request) /\ \A i \in 1..Len(l.queue) : l.queue[i] \in Request
  BY DEF LockOK
<1>4. \A i \in 1..Len(l.queue) : l.queue[i].who # c /\ l.queue[i].who \in Clients
  BY <1>3 DEF LockOK, Request
<1>5. \A i \in 1..Len(l.queue) : q[l.queue[i].who] = p[l.queue[i].who]
  BY <1>4
<1> HIDE DEF q
<1> QED BY <1>2, <1>5 DEF LockOK, q

\* Within a guard of the same kind.
LEMMA LockStay ==
    ASSUME NEW l, NEW p \in [Clients -> Points], LockOK(l, p), NEW c \in Clients,
           NEW b \in ReadPoints, p[c] \in ReadPoints
    PROVE  LockOK(l, [p EXCEPT ![c] = b])
<1> DEFINE q == [p EXCEPT ![c] = b]
<1>1. GuardsAt(q) = GuardsAt(p)
  BY DEF GuardsAt, Request, ReadPoints
<1>2. \A i \in 1..Len(l.queue) : l.queue[i].who # c /\ l.queue[i].who \in Clients
  <2>1. p[c] \notin LockPoints
    BY DEF ReadPoints, LockPoints, WritePoints
  <2>2. \A i \in 1..Len(l.queue) : l.queue[i] \in Request
    BY DEF LockOK
  <2> QED BY <2>1, <2>2 DEF LockOK, Request
<1>3. \A i \in 1..Len(l.queue) : q[l.queue[i].who] = p[l.queue[i].who]
  BY <1>2
<1> HIDE DEF q
<1> QED BY <1>1, <1>3 DEF LockOK, q

\* A task joins the queue.
LEMMA LockWait ==
    ASSUME NEW l, NEW p \in [Clients -> Points], LockOK(l, p), NEW c \in Clients,
           p[c] \in LockPoints, ~IsWaiting(l, c)
    PROVE  LockOK(Wait(l, c, IF p[c] \in WritePoints THEN "w" ELSE "r"), p)
<1> DEFINE m == IF p[c] \in WritePoints THEN "w" ELSE "r"
           e == [who |-> c, mode |-> m]
           k == Wait(l, c, m)
<1>1. e \in Request /\ l.queue \in Seq(Request) /\ e.who = c /\ e.mode = m
  BY DEF LockOK, Request
<1>2. k.queue = Append(l.queue, e) /\ k.held = l.held /\ k = [queue |-> k.queue, held |-> k.held]
  BY DEF Wait
<1> HIDE DEF e, m
<1>3. /\ k.queue \in Seq(Request) /\ Len(k.queue) = Len(l.queue) + 1
      /\ \A i \in 1..Len(k.queue) :
           \/ i = Len(l.queue) + 1 /\ k.queue[i] = e
           \/ i \in 1..Len(l.queue) /\ k.queue[i] = l.queue[i]
  BY <1>1, <1>2
<1>4. \A i \in 1..Len(l.queue) : l.queue[i].who # c
  BY DEF IsWaiting
<1> HIDE DEF k
<1>5. k \in [queue : Seq(Request), held : SUBSET Request] /\ k.held = GuardsAt(p)
  BY <1>2, <1>3 DEF LockOK
<1>6. \A i \in 1..Len(k.queue) :
        /\ p[k.queue[i].who] \in LockPoints
        /\ k.queue[i].mode = IF p[k.queue[i].who] \in WritePoints THEN "w" ELSE "r"
  BY <1>1, <1>3 DEF LockOK, m
<1>7. \A i, j \in 1..Len(k.queue) : k.queue[i].who = k.queue[j].who => i = j
  BY <1>1, <1>3, <1>4 DEF LockOK
<1> QED BY <1>2, <1>5, <1>6, <1>7 DEF LockOK, k, m

\* The first in line.
LEMMA FirstInLine ==
    ASSUME NEW l, NEW p \in [Clients -> Points], LockOK(l, p), NEW c \in Clients, CanAcquire(l, c)
    PROVE  /\ Head(l.queue) = [who |-> c, mode |-> IF p[c] \in WritePoints THEN "w" ELSE "r"]
           /\ p[c] \in LockPoints
           /\ p[c] \in WritePoints => l.held = {}
           /\ \A h \in l.held : h.mode = "r"
           /\ Tail(l.queue) \in Seq(Request)
           /\ \A i \in 1..Len(Tail(l.queue)) :
                /\ Tail(l.queue)[i].who # c /\ Tail(l.queue)[i].who \in Clients
                /\ \E j \in 1..Len(l.queue) : Tail(l.queue)[i] = l.queue[j]
           /\ \A i, j \in 1..Len(Tail(l.queue)) :
                Tail(l.queue)[i].who = Tail(l.queue)[j].who => i = j
<1> DEFINE q == l.queue
<1>1. q \in Seq(Request) /\ q # <<>>
  BY DEF LockOK, CanAcquire
<1>2. /\ Len(q) \in Nat \ {0} /\ Head(q) = q[1] /\ q[1] \in Request
      /\ Tail(q) \in Seq(Request) /\ Len(Tail(q)) = Len(q) - 1
      /\ \A i \in 1..Len(Tail(q)) : Tail(q)[i] = q[i + 1]
  BY <1>1
<1>3. /\ \A i \in 1..Len(q) :
           /\ p[q[i].who] \in LockPoints
           /\ q[i].mode = IF p[q[i].who] \in WritePoints THEN "w" ELSE "r"
      /\ \A i, j \in 1..Len(q) : q[i].who = q[j].who => i = j
  BY DEF LockOK
<1>4. /\ Head(q).who = c
      /\ IF Head(q).mode = "w" THEN l.held = {} ELSE \A h \in l.held : h.mode = "r"
  BY DEF CanAcquire
<1> HIDE DEF q
<1>5. 1 \in 1..Len(q) /\ \A i \in 1..Len(Tail(q)) : i + 1 \in 1..Len(q) /\ i + 1 # 1
  BY <1>2
<1>6. /\ q[1].who = c /\ p[c] \in LockPoints
      /\ q[1].mode = IF p[c] \in WritePoints THEN "w" ELSE "r"
  BY <1>2, <1>3, <1>4, <1>5
<1>7. q[1] = [who |-> c, mode |-> IF p[c] \in WritePoints THEN "w" ELSE "r"]
  BY <1>2, <1>6 DEF Request
<1>8. \A i \in 1..Len(Tail(q)) :
        /\ Tail(q)[i].who # c /\ Tail(q)[i].who \in Clients
        /\ \E j \in 1..Len(q) : Tail(q)[i] = q[j]
  <2> SUFFICES ASSUME NEW i \in 1..Len(Tail(q))
               PROVE  /\ Tail(q)[i].who # c /\ Tail(q)[i].who \in Clients
                      /\ \E j \in 1..Len(q) : Tail(q)[i] = q[j]
    OBVIOUS
  <2>1. i + 1 \in 1..Len(q) /\ i + 1 # 1 /\ Tail(q)[i] = q[i + 1]
    BY <1>2, <1>5
  <2>2. q[i + 1] \in Request /\ q[i + 1].who # c
    BY <1>1, <1>3, <1>5, <1>6, <2>1
  <2> QED BY <2>1, <2>2 DEF Request
<1>9. \A i, j \in 1..Len(Tail(q)) : Tail(q)[i].who = Tail(q)[j].who => i = j
  <2> SUFFICES ASSUME NEW i \in 1..Len(Tail(q)), NEW j \in 1..Len(Tail(q)),
                      Tail(q)[i].who = Tail(q)[j].who
               PROVE  i = j
    OBVIOUS
  <2>1. i + 1 = j + 1
    BY <1>2, <1>3, <1>5
  <2> QED BY <2>1
<1> QED BY <1>2, <1>4, <1>6, <1>7, <1>8, <1>9 DEF q

\* A lock whose queue is a part of l's, without the task that has moved.
PartOf(r, q, c) ==
    /\ r \in Seq(Request)
    /\ \A i \in 1..Len(r) : r[i].who # c /\ \E j \in 1..Len(q) : r[i] = q[j]
    /\ \A i, j \in 1..Len(r) : r[i].who = r[j].who => i = j

LEMMA LockFrom ==
    ASSUME NEW l, NEW p \in [Clients -> Points], LockOK(l, p), NEW c \in Clients, NEW b \in Points,
           NEW r, PartOf(r, l.queue, c),
           NEW hs, hs = GuardsAt([p EXCEPT ![c] = b]),
           \A g, h \in hs : g.mode = "w" => g = h
    PROVE  LockOK([queue |-> r, held |-> hs], [p EXCEPT ![c] = b])
<1> DEFINE q == [p EXCEPT ![c] = b]
           k == [queue |-> r, held |-> hs]
<1>1. r \in Seq(Request) /\ \A i \in 1..Len(r) : r[i] \in Request /\ r[i].who # c
  BY DEF PartOf
<1>2. \A i \in 1..Len(r) : q[r[i].who] = p[r[i].who]
  BY <1>1 DEF Request
<1>3. \A i \in 1..Len(r) :
        /\ p[r[i].who] \in LockPoints
        /\ r[i].mode = IF p[r[i].who] \in WritePoints THEN "w" ELSE "r"
  BY DEF LockOK, PartOf
<1>4. k \in [queue : Seq(Request), held : SUBSET Request] /\ k.queue = r /\ k.held = hs
  BY <1>1 DEF GuardsAt
<1>5. \A i, j \in 1..Len(r) : r[i].who = r[j].who => i = j
  BY DEF PartOf
<1> HIDE DEF q, k
<1> QED BY <1>2, <1>3, <1>4, <1>5 DEF LockOK, q, k

\* The guards when a task gives its guard back, whether it had one or not.
LEMMA GuardsReleased ==
    ASSUME NEW p \in [Clients -> Points], NEW c \in Clients, NEW b \in NoGuard
    PROVE  GuardsAt([p EXCEPT ![c] = b]) = {h \in GuardsAt(p) : h.who # c}
<1> DEFINE q == [p EXCEPT ![c] = b]
<1>1. b \in Points /\ q \in [Clients -> Points] /\ q[c] \in NoGuard
  BY DEF NoGuard
<1>2. \A g \in GuardsAt(q) : g.who # c
  BY <1>1, NoGuardThere
<1>3. GuardsAt(q) \subseteq Request /\ GuardsAt(p) \subseteq Request
  BY DEF GuardsAt
<1>4. \A g \in Request : g.who # c => (g \in GuardsAt(q) <=> g \in GuardsAt(p))
  BY <1>1, GuardsMoved
<1> HIDE DEF q
<1> QED BY <1>2, <1>3, <1>4 DEF q

\* The first in line gets its guard.
LEMMA LockAcquire ==
    ASSUME NEW l, NEW p \in [Clients -> Points], LockOK(l, p), NEW c \in Clients, CanAcquire(l, c),
           NEW b,
           IF p[c] \in WritePoints THEN b = "start_servers" ELSE b \in ReadPoints
    PROVE  LockOK(Acquired(l), [p EXCEPT ![c] = b])
<1> DEFINE q == [p EXCEPT ![c] = b]
           e == [who |-> c, mode |-> IF p[c] \in WritePoints THEN "w" ELSE "r"]
<1>1. b \in Points /\ q \in [Clients -> Points] /\ q[c] = b
  BY DEF ReadPoints, Points, JoinPoints
<1>2. /\ Head(l.queue) = e /\ e \in Request /\ e.who = c
      /\ p[c] \in LockPoints
      /\ p[c] \in WritePoints => l.held = {}
      /\ \A h \in l.held : h.mode = "r"
  BY FirstInLine DEF Request
<1>3. l.held = GuardsAt(p) /\ l.held \subseteq Request /\ \A h \in l.held : h.who # c
  BY <1>2, LockPointsNoGuard, NoGuardThere DEF LockOK
<1>4. Acquired(l) = [queue |-> Tail(l.queue), held |-> l.held \cup {e}]
  BY <1>2 DEF Acquired
<1>5. \A g \in Request : g.who = c => (g \in GuardsAt(q) <=> g = e)
  <2> SUFFICES ASSUME NEW g \in Request, g.who = c PROVE g \in GuardsAt(q) <=> g = e
    OBVIOUS
  <2>1. g = [who |-> c, mode |-> g.mode] /\ g.mode \in {"r", "w"}
    BY DEF Request
  <2>2. CASE p[c] \in WritePoints
    BY <1>1, <2>1, <2>2 DEF GuardsAt, ReadPoints
  <2>3. CASE p[c] \notin WritePoints
    BY <1>1, <2>1, <2>3 DEF GuardsAt, ReadPoints
  <2> QED BY <2>2, <2>3
<1>6. \A g \in Request : g.who # c => (g \in GuardsAt(q) <=> g \in GuardsAt(p))
  BY <1>1, GuardsMoved
<1>7. GuardsAt(q) \subseteq Request
  BY DEF GuardsAt
<1>8. \A g, h \in l.held \cup {e} : g.mode = "w" => g = h
  <2>1. CASE p[c] \in WritePoints
    BY <1>2, <2>1
  <2>2. CASE p[c] \notin WritePoints
    BY <1>2, <2>2
  <2> QED BY <2>1, <2>2
<1> HIDE DEF q, e
<1>9. l.held \cup {e} = GuardsAt(q)
  BY <1>2, <1>3, <1>5, <1>6, <1>7
<1>10. PartOf(Tail(l.queue), l.queue, c)
  BY FirstInLine DEF PartOf
<1>11. LockOK([queue |-> Tail(l.queue), held |-> l.held \cup {e}], q)
  BY <1>1, <1>8, <1>9, <1>10, LockFrom DEF q
<1> QED BY <1>4, <1>11 DEF q

\* The first in line gets its guard and gives it back in the same step.
LEMMA LockPass ==
    ASSUME NEW l, NEW p \in [Clients -> Points], LockOK(l, p), NEW c \in Clients, CanAcquire(l, c),
           NEW b \in NoGuard
    PROVE  LockOK(Released(Acquired(l), c), [p EXCEPT ![c] = b])
<1> DEFINE hs == {h \in l.held : h.who # c}
<1>1. b \in Points /\ Head(l.queue).who = c
  BY DEF NoGuard, CanAcquire
<1>2. Released(Acquired(l), c) = [queue |-> Tail(l.queue), held |-> hs]
  BY <1>1 DEF Acquired, Released
<1>3. l.held = GuardsAt(p) /\ \A g, h \in l.held : g.mode = "w" => g = h
  BY DEF LockOK
<1>4. hs = GuardsAt([p EXCEPT ![c] = b]) /\ \A g, h \in hs : g.mode = "w" => g = h
  <2>1. GuardsAt([p EXCEPT ![c] = b]) = {h \in GuardsAt(p) : h.who # c}
    BY GuardsReleased
  <2> QED BY <1>3, <2>1
<1>5. PartOf(Tail(l.queue), l.queue, c)
  BY FirstInLine DEF PartOf
<1> HIDE DEF hs
<1>6. LockOK([queue |-> Tail(l.queue), held |-> hs], [p EXCEPT ![c] = b])
  BY <1>1, <1>4, <1>5, LockFrom
<1> QED BY <1>2, <1>6

\* The future of a task is dropped, in the queue or under a guard.
LEMMA LockForget ==
    ASSUME NEW l, NEW p \in [Clients -> Points], LockOK(l, p), NEW c \in Clients, NEW b \in NoGuard
    PROVE  LockOK(Forgotten(l, c), [p EXCEPT ![c] = b])
<1> DEFINE hs == {h \in l.held : h.who # c}
<1>1. b \in Points
  BY DEF NoGuard
<1>2. Forgotten(l, c) = [queue |-> Without(l.queue, c), held |-> hs]
  BY DEF Forgotten
<1>3. /\ l.queue \in Seq(Request) /\ l.held = GuardsAt(p)
      /\ \A i, j \in 1..Len(l.queue) : l.queue[i].who = l.queue[j].who => i = j
      /\ \A g, h \in l.held : g.mode = "w" => g = h
  BY DEF LockOK
<1>4. hs = GuardsAt([p EXCEPT ![c] = b]) /\ \A g, h \in hs : g.mode = "w" => g = h
  <2>1. GuardsAt([p EXCEPT ![c] = b]) = {h \in GuardsAt(p) : h.who # c}
    BY GuardsReleased
  <2> QED BY <1>3, <2>1
<1>5. PartOf(Without(l.queue, c), l.queue, c)
  <2> DEFINE q == l.queue
  <2>1. q \in Seq(Request) /\ \A i, j \in 1..Len(q) : q[i].who = q[j].who => i = j
    BY <1>3
  <2> HIDE DEF q
  <2>2. PartOf(Without(q, c), q, c)
    BY <2>1, WithoutFacts DEF PartOf
  <2> QED BY <2>2 DEF q
<1> HIDE DEF hs
<1>6. LockOK([queue |-> Without(l.queue, c), held |-> hs], [p EXCEPT ![c] = b])
  BY <1>1, <1>4, <1>5, LockFrom
<1> QED BY <1>2, <1>6

\* A task gives its guard back.
LEMMA LockRelease ==
    ASSUME NEW l, NEW p \in [Clients -> Points], LockOK(l, p), NEW c \in Clients, NEW b \in NoGuard,
           p[c] \notin LockPoints
    PROVE  LockOK(Released(l, c), [p EXCEPT ![c] = b])
<1>1. \A i \in 1..Len(l.queue) : l.queue[i].who # c
  BY DEF LockOK
<1>2. Without(l.queue, c) = l.queue
  BY <1>1 DEF Without
<1>3. Released(l, c) = Forgotten(l, c)
  BY <1>2 DEF Released, Forgotten
<1>4. LockOK(Forgotten(l, c), [p EXCEPT ![c] = b])
  BY LockForget
<1> QED BY <1>3, <1>4

\* The awaits of a task are where it has no guard; a join or a stop has come
\* to the end of its work, or a start, where it has one.
LEMMA PointFacts ==
    /\ {"idle", "build", "stop_read", "start_write", "select", "config", "read", "drain", "exited",
        "join_read", "join_write"} \subseteq NoGuard
    /\ {"idle", "build", "select", "config", "drain", "exited"} \cap LockPoints = {}
    /\ (ReadPoints \cup {"start_servers"}) \cap LockPoints = {}
  BY DEF NoGuard, LockPoints, WritePoints, ReadPoints, Points, JoinPoints

LEMMA LockStep ==
    ASSUME Typed, LockAccounted, [Next]_vars
    PROVE  LockAccounted'
<1>1. pc \in [Clients -> Points] /\ LockOK(lock, pc)
  BY DEF Typed, LockAccounted
<1>2. SUFFICES LockOK(lock', pc')
  BY DEF LockAccounted
<1>3. ASSUME NEW c \in Clients, Step(c) PROVE LockOK(lock', pc')
  <2>1. CASE AskLock(c)
    BY <1>1, <2>1, LockWait DEF AskLock
  <2>2. CASE JoinRead(c)
    <3>1. /\ lock' = Acquired(lock) /\ CanAcquire(lock, c) /\ pc[c] \notin WritePoints
          /\ pc' = [pc EXCEPT ![c] = "join_servers"] /\ "join_servers" \in ReadPoints
      BY <2>2 DEF JoinRead, Goto, WritePoints, ReadPoints
    <3> QED BY <1>1, <3>1, LockAcquire
  <2>3. CASE JoinNothing(c) \/ JoinWrite(c)
    <3>1. PICK b \in NoGuard : pc' = [pc EXCEPT ![c] = b]
      BY <2>3, PointFacts DEF JoinNothing, JoinWrite, AfterJoin, Await, Goto
    <3>2. lock' = Released(Acquired(lock), c) /\ CanAcquire(lock, c)
      BY <2>3 DEF JoinNothing, JoinWrite, AfterJoin, Await
    <3> QED BY <1>1, <3>1, <3>2, LockPass
  <2>4. CASE JoinedAll(c) \/ StoppedAll(c)
    <3>1. PICK b \in NoGuard : pc' = [pc EXCEPT ![c] = b]
      BY <2>4, PointFacts DEF JoinedAll, StoppedAll, Await, Goto
    <3>2. lock' = Released(lock, c) /\ pc[c] \notin LockPoints
      BY <2>4, PointFacts DEF JoinedAll, StoppedAll, Await, ReadPoints
    <3> QED BY <1>1, <3>1, <3>2, LockRelease
  <2>5. ASSUME NEW s \in Servers, JoinServer(c, s) \/ TakeResult(c, s) PROVE LockOK(lock', pc')
    BY <1>1, <2>5 DEF JoinServer, TakeResult
  <2>6. CASE StopRead(c)
    <3>0. CanAcquire(lock, c) /\ pc[c] \notin WritePoints
      BY <2>6 DEF StopRead, WritePoints
    <3>1. CASE state = WaitConfig
      <4>1. lock' = Released(Acquired(lock), c) /\ pc' = [pc EXCEPT ![c] = "join_read"]
        BY <2>6, <3>1 DEF StopRead, Await, Goto
      <4>2. "join_read" \in NoGuard
        BY PointFacts
      <4> QED BY <1>1, <3>0, <4>1, <4>2, LockPass
    <3>2. CASE state # WaitConfig
      <4>1. /\ lock' = Acquired(lock) /\ pc' = [pc EXCEPT ![c] = "stop_server"]
            /\ "stop_server" \in ReadPoints
        BY <2>6, <3>2 DEF StopRead, Goto, ReadPoints
      <4> QED BY <1>1, <3>0, <4>1, LockAcquire
    <3> QED BY <3>1, <3>2
  <2>7. CASE StopServer(c) \/ StopWait(c)
    <3>1. PICK b \in ReadPoints : pc' = [pc EXCEPT ![c] = b]
      BY <2>7 DEF StopServer, StopWait, Goto, ReadPoints
    <3>2. lock' = lock /\ pc[c] \in ReadPoints
      BY <2>7 DEF StopServer, StopWait, ReadPoints
    <3> QED BY <1>1, <3>1, <3>2, LockStay
  <2>8. CASE Build(c) \/ BuildFails(c) \/ Select(c)
    <3>1. PICK b \in NoGuard : pc' = [pc EXCEPT ![c] = b]
      BY <2>8, PointFacts DEF Build, BuildFails, Select, Await, Goto
    <3>2. lock' = lock /\ pc[c] \in NoGuard \ LockPoints
      BY <2>8, PointFacts DEF Build, BuildFails, Select, Await
    <3> QED BY <1>1, <3>1, <3>2, LockMove
  <2>9. CASE StartWrite(c)
    <3>1. /\ lock' = Acquired(lock) /\ CanAcquire(lock, c) /\ pc[c] \in WritePoints
          /\ pc' = [pc EXCEPT ![c] = "start_servers"]
      BY <2>9 DEF StartWrite, Goto, WritePoints
    <3> QED BY <1>1, <3>1, LockAcquire
  <2>10. CASE StartServer(c)
    BY <1>1, <2>10 DEF StartServer
  <2>11. CASE StartDone(c)
    <3>1. PICK b \in NoGuard : pc' = [pc EXCEPT ![c] = b]
      BY <2>11, PointFacts DEF StartDone, Goto
    <3>2. lock' = Released(lock, c) /\ pc[c] \notin LockPoints
      BY <2>11, PointFacts DEF StartDone
    <3> QED BY <1>1, <3>1, <3>2, LockRelease
  <2>12. CASE ReadDone(c)
    <3>1. /\ lock' = Released(Acquired(lock), c) /\ CanAcquire(lock, c)
          /\ pc' = [pc EXCEPT ![c] = "idle"] /\ "idle" \in NoGuard
      BY <2>12, PointFacts DEF ReadDone, Goto
    <3> QED BY <1>1, <3>1, LockPass
  <2> QED BY <1>3, <2>1, <2>2, <2>3, <2>4, <2>5, <2>6, <2>7, <2>8, <2>9, <2>10, <2>11, <2>12 DEF Step
<1>4. ASSUME NEW c \in Clients, Call(c) PROVE LockOK(lock', pc')
  <2>1. CASE CallStart(c) \/ CallStop(c) \/ CallJoin(c) \/ CallRead(c) \/ FirstConfig(c) \/ Drained(c)
    <3>1. PICK b \in NoGuard : pc' = [pc EXCEPT ![c] = b]
      BY <2>1, PointFacts DEF CallStart, CallStop, CallJoin, CallRead, FirstConfig, Drained, Await, Goto
    <3>2. lock' = lock /\ pc[c] \in NoGuard \ LockPoints
      BY <2>1, PointFacts DEF CallStart, CallStop, CallJoin, CallRead, FirstConfig, Drained, Await
    <3> QED BY <1>1, <3>1, <3>2, LockMove
  <2>2. CASE NextConfig(c)
    <3>1. /\ lock' = Forgotten(lock, c) /\ pc' = [pc EXCEPT ![c] = "stop_read"]
          /\ "stop_read" \in NoGuard
      BY <2>2, PointFacts DEF NextConfig, Await, Goto
    <3> QED BY <1>1, <3>1, LockForget
  <2> QED BY <1>4, <2>1, <2>2 DEF Call
<1>5. ASSUME NEW i \in Instances, NEW s \in Servers, TaskReturn(i, s) \/ TaskEnd(i, s)
      PROVE  LockOK(lock', pc')
  BY <1>1, <1>5 DEF TaskReturn, TaskEnd, TaskStep
<1>6. CASE UNCHANGED vars
  BY <1>1, <1>6 DEF vars
<1> QED BY <1>3, <1>4, <1>5, <1>6 DEF Next

-----------------------------------------------------------------------------
(* What the lock keeps apart.                                              *)

\* A start under the write guard is alone, and so is whoever gets the write
\* lock; nobody gets the lock beside a start.
LEMMA Exclusion ==
    ASSUME Typed, LockAccounted, NEW c \in Clients
    PROVE  /\ pc[c] = "start_servers" =>
                \A d \in Clients : /\ pc[d] \notin ReadPoints
                                   /\ pc[d] = "start_servers" => d = c
           /\ CanAcquire(lock, c) /\ pc[c] \in WritePoints =>
                \A d \in Clients : pc[d] \notin ReadPoints \cup {"start_servers"}
           /\ CanAcquire(lock, c) => \A d \in Clients : pc[d] # "start_servers"
<1> DEFINE R(d) == [who |-> d, mode |-> "r"]
           W(d) == [who |-> d, mode |-> "w"]
<1>1. \A d \in Clients : /\ pc[d] \in ReadPoints => R(d) \in lock.held
                         /\ pc[d] = "start_servers" => W(d) \in lock.held
  BY DEF LockAccounted, LockOK, GuardsAt, Request
<1>2. \A g, h \in lock.held : g.mode = "w" => g = h
  BY DEF LockAccounted, LockOK
<1>3. CanAcquire(lock, c) => /\ pc[c] \in WritePoints => lock.held = {}
                             /\ \A h \in lock.held : h.mode = "r"
  <2>1. pc \in [Clients -> Points] /\ LockOK(lock, pc)
    BY DEF Typed, LockAccounted
  <2> QED BY <2>1, FirstInLine
<1>4. \A d \in Clients : W(d).mode = "w" /\ R(d).mode = "r" /\ W(d).who = d
  OBVIOUS
<1> HIDE DEF R, W
<1>5. ASSUME pc[c] = "start_servers", NEW d \in Clients
      PROVE  pc[d] \notin ReadPoints /\ (pc[d] = "start_servers" => d = c)
  <2>1. W(c) \in lock.held
    BY <1>1, <1>5
  <2>2. ASSUME pc[d] \in ReadPoints PROVE FALSE
    BY <1>1, <1>2, <1>4, <2>1, <2>2
  <2>3. ASSUME pc[d] = "start_servers" PROVE d = c
    <3>1. W(d) = W(c)
      BY <1>1, <1>2, <1>4, <2>1, <2>3
    <3> QED BY <1>4, <3>1
  <2> QED BY <2>2, <2>3
<1>6. ASSUME CanAcquire(lock, c), pc[c] \in WritePoints, NEW d \in Clients
      PROVE  pc[d] \notin ReadPoints \cup {"start_servers"}
  BY <1>1, <1>3, <1>6
<1>7. ASSUME CanAcquire(lock, c), NEW d \in Clients PROVE pc[d] # "start_servers"
  BY <1>1, <1>3, <1>4, <1>7
<1> QED BY <1>5, <1>6, <1>7

LEMMA ViewStep ==
    ASSUME Typed, LockAccounted, GuardedView, [Next]_vars
    PROVE  GuardedView'
<1> USE DEF Typed, GuardedView
<1>1. ASSUME NEW c \in Clients, JoinRead(c) PROVE GuardedView'
  BY <1>1 DEF JoinRead, Goto, ReadPoints
<1>2. ASSUME NEW c \in Clients, StopRead(c) PROVE GuardedView'
  <2>1. CASE state = WaitConfig
    BY <1>2, <2>1 DEF StopRead, Await, Goto, ReadPoints
  <2>2. CASE state # WaitConfig
    BY <1>2, <2>2 DEF StopRead, Goto, ReadPoints
  <2> QED BY <2>1, <2>2
<1>3. ASSUME NEW c \in Clients, JoinWrite(c) PROVE GuardedView'
  <2>1. \A d \in Clients : pc[d] \notin ReadPoints
    BY <1>3, Exclusion DEF JoinWrite, WritePoints
  <2>2. pc'[c] \notin ReadPoints /\ \A d \in Clients : d # c => pc'[d] = pc[d]
    BY <1>3 DEF JoinWrite, AfterJoin, Await, Goto, ReadPoints
  <2> QED BY <2>1, <2>2
<1>4. ASSUME NEW c \in Clients, StartDone(c) PROVE GuardedView'
  <2>1. \A d \in Clients : pc[d] \notin ReadPoints
    BY <1>4, Exclusion DEF StartDone
  <2>2. pc'[c] \notin ReadPoints /\ \A d \in Clients : d # c => pc'[d] = pc[d]
    BY <1>4 DEF StartDone, Goto, ReadPoints
  <2> QED BY <2>1, <2>2
<1>5. ASSUME state' = state, seen' = seen, \A d \in Clients : pc'[d] \in ReadPoints => pc[d] \in ReadPoints
      PROVE  GuardedView'
  BY <1>5
<1>6. ASSUME NEW c \in Clients, Step(c) \/ Call(c), ~JoinRead(c), ~StopRead(c), ~JoinWrite(c), ~StartDone(c)
      PROVE  /\ state' = state /\ seen' = seen
             /\ \A d \in Clients : pc'[d] \in ReadPoints => pc[d] \in ReadPoints
  <2>1. CASE AskLock(c) \/ \E s \in Servers : JoinServer(c, s) \/ TakeResult(c, s)
    BY <2>1 DEF AskLock, JoinServer, TakeResult, locals
  <2>2. CASE JoinNothing(c) \/ JoinedAll(c) \/ StoppedAll(c)
    BY <2>2 DEF JoinNothing, JoinedAll, StoppedAll, AfterJoin, Await, Goto, ReadPoints, locals
  <2>3. CASE StopServer(c) \/ StopWait(c)
    BY <2>3 DEF StopServer, StopWait, Goto, ReadPoints, locals
  <2>4. CASE Build(c) \/ BuildFails(c) \/ StartWrite(c) \/ StartServer(c)
    BY <2>4 DEF Build, BuildFails, StartWrite, StartServer, Await, Goto, ReadPoints, locals
  <2>5. CASE Select(c) \/ ReadDone(c)
    BY <2>5 DEF Select, ReadDone, Await, Goto, ReadPoints, locals
  <2>6. CASE Call(c)
    BY <2>6 DEF Call, CallStart, CallStop, CallJoin, CallRead, FirstConfig, NextConfig, Drained, Await,
                Goto, ReadPoints, locals
  <2> QED BY <1>6, <2>1, <2>2, <2>3, <2>4, <2>5, <2>6 DEF Step
<1>7. ASSUME NEW i \in Instances, NEW s \in Servers, TaskReturn(i, s) \/ TaskEnd(i, s)
      PROVE  state' = state /\ seen' = seen /\ pc' = pc
  BY <1>7 DEF TaskReturn, TaskEnd, TaskStep, locals
<1>8. CASE UNCHANGED vars
  BY <1>8 DEF vars
<1> QED BY <1>1, <1>2, <1>3, <1>4, <1>5, <1>6, <1>7, <1>8 DEF Next

-----------------------------------------------------------------------------
(* The progress of a start.                                                *)

\* Once started, always: no step takes it back.
LEMMA StartedKept ==
    ASSUME Typed, GuardedView, StartProgress, [Next]_vars,
           NEW i \in Instances, NEW s \in Servers, cell[i][s].started
    PROVE  cell'[i][s].started
<1>1. CASE \E c \in Clients : StartServer(c)
  BY <1>1, StartServerCells
<1>2. CASE ~ \E c \in Clients : StartServer(c)
  BY <1>2, CellsKept DEF CellsStep, CellStep
<1> QED BY <1>1, <1>2

LEMMA ProgressStep ==
    ASSUME Typed, GuardedView, StartProgress, [Next]_vars
    PROVE  StartProgress'
<1>1. \A i \in Instances, s \in Servers : cell[i][s].started => cell'[i][s].started
  BY StartedKept
<1>2. \A c \in Clients : Progress(c)
  BY DEF StartProgress
<1>3. ASSUME NEW d \in Clients, pc'[d] = pc[d], op'[d] = op[d], mine'[d] = mine[d], at'[d] = at[d]
      PROVE  Progress(d)'
  BY <1>1, <1>2, <1>3 DEF Progress
<1>4. SUFFICES \A d \in Clients : Progress(d)'
  BY DEF StartProgress
<1>5. ASSUME NEW c \in Clients, Step(c) \/ Call(c)
      PROVE  \A d \in Clients \ {c} :
               pc'[d] = pc[d] /\ op'[d] = op[d] /\ mine'[d] = mine[d] /\ at'[d] = at[d]
  BY <1>5 DEF Step, Call, Typed, AskLock, JoinRead, JoinNothing, JoinedAll, JoinWrite, JoinServer,
     TakeResult, StopRead, StopServer, StopWait, StoppedAll, Build, BuildFails, StartWrite,
     StartServer, StartDone, Select, Drained, ReadDone, CallStart, CallStop, CallJoin, CallRead,
     FirstConfig, NextConfig, AfterJoin, Await, Goto, Calls, locals
<1>6. ASSUME NEW c \in Clients, Step(c) PROVE Progress(c)'
  <2>0. Progress(c) /\ N \in Nat /\ MaxBuilds \in Nat /\ builds \in 0..MaxBuilds
    BY <1>2, RabbitDiggerAssumption DEF Typed
  <2>1. CASE AskLock(c) \/ \E s \in Servers : JoinServer(c, s) \/ TakeResult(c, s)
    BY <1>3, <2>1 DEF AskLock, JoinServer, TakeResult, locals
  <2>2. CASE JoinRead(c) \/ StopRead(c)
    BY <2>0, <2>2 DEF Typed, Progress, JoinRead, StopRead, Await, Goto, ReadPoints, JoinPoints
  <2>3. CASE JoinNothing(c) \/ JoinWrite(c)
    BY <2>0, <2>3 DEF Typed, Progress, JoinNothing, JoinWrite, AfterJoin, Await, Goto, ReadPoints,
                      JoinPoints, locals
  <2>4. CASE JoinedAll(c) \/ StoppedAll(c) \/ StopServer(c)
    BY <2>0, <2>4 DEF Typed, Progress, JoinedAll, StoppedAll, StopServer, Await, Goto, ReadPoints,
                      JoinPoints, locals
  <2>5. CASE StopWait(c)
    BY <2>0, <2>5 DEF Typed, Progress, StopWait, Goto, ReadPoints, JoinPoints
  <2>6. CASE Build(c)
    <3>1. builds + 1 \in Instances
      BY <2>0, <2>6 DEF Build, Instances
    <3>2. pc'[c] = "stop_read" /\ mine'[c] = builds + 1
      BY <2>6 DEF Typed, Build, Await, Goto
    <3> QED BY <3>1, <3>2 DEF Progress
  <2>7. CASE BuildFails(c) \/ StartDone(c) \/ ReadDone(c)
    BY <2>7 DEF Typed, Progress, BuildFails, StartDone, ReadDone, Goto, ReadPoints, JoinPoints
  <2>8. CASE StartWrite(c)
    <3>1. pc'[c] = "start_servers" /\ mine'[c] = mine[c] /\ at'[c] = 1 /\ mine[c] \in Instances
      BY <2>0, <2>8 DEF Typed, Progress, StartWrite, Goto
    <3> QED BY <2>0, <3>1 DEF Progress, Servers, ReadPoints, JoinPoints
  <2>9. CASE StartServer(c)
    <3>1. /\ pc[c] = "start_servers" /\ pc'[c] = "start_servers" /\ mine'[c] = mine[c]
          /\ at'[c] = at[c] + 1
      BY <2>9 DEF Typed, StartServer
    <3>2. mine[c] \in Instances /\ at[c] \in Servers /\ cell'[mine[c]][at[c]].started
      BY <2>9, StartServerCells
    <3>3. \A s \in Servers : s < at[c] => cell'[mine[c]][s].started
      BY <1>1, <2>0, <3>1, <3>2 DEF Progress
    <3>4. \A s \in Servers : s < at[c] + 1 => s < at[c] \/ s = at[c]
      BY <2>0, <3>2 DEF Servers
    <3> QED BY <3>1, <3>2, <3>3, <3>4 DEF Progress, ReadPoints, JoinPoints
  <2>10. CASE Select(c)
    BY <2>10 DEF Typed, Progress, Select, Await, Goto, Calls, ReadPoints, JoinPoints
  <2> QED BY <1>6, <2>1, <2>2, <2>3, <2>4, <2>5, <2>6, <2>7, <2>8, <2>9, <2>10 DEF Step
<1>7. ASSUME NEW c \in Clients, Call(c) PROVE Progress(c)'
  BY <1>2, <1>7 DEF Typed, Progress, Call, CallStart, CallStop, CallJoin, CallRead, FirstConfig,
                    NextConfig, Drained, Await, Goto, Calls, ReadPoints, JoinPoints, locals
<1>8. ASSUME NEW i \in Instances, NEW s \in Servers, TaskReturn(i, s) \/ TaskEnd(i, s)
      PROVE  \A d \in Clients : Progress(d)'
  BY <1>3, <1>8 DEF TaskReturn, TaskEnd, TaskStep, locals
<1>9. CASE UNCHANGED vars
  BY <1>3, <1>9 DEF vars
<1> QED BY <1>3, <1>5, <1>6, <1>7, <1>8, <1>9 DEF Next

-----------------------------------------------------------------------------
(* The state.                                                              *)

LEMMA CompleteStep ==
    ASSUME Typed, GuardedView, StartProgress, RunningIsComplete, [Next]_vars
    PROVE  RunningIsComplete'
<1>1. ASSUME NEW c \in Clients, StartDone(c) PROVE RunningIsComplete'
  <2>1. /\ mine[c] \in Instances /\ at[c] = N + 1 /\ N \in Nat
        /\ state' = mine[c] /\ cell' = cell
        /\ \A s \in Servers : s < at[c] => cell[mine[c]][s].started
    BY <1>1, RabbitDiggerAssumption DEF StartDone, StartProgress, Progress
  <2>2. \A s \in Servers : s < N + 1
    BY <2>1 DEF Servers
  <2> QED BY <2>1, <2>2 DEF RunningIsComplete
<1>2. CASE state' = WaitConfig
  BY <1>2 DEF RunningIsComplete
<1>3. CASE state' = state /\ state # WaitConfig
  <2>1. state \in Instances
    BY <1>3 DEF Typed
  <2> QED BY <1>3, <2>1, StartedKept DEF RunningIsComplete
<1>4. state' = state \/ state' = WaitConfig \/ \E c \in Clients : StartDone(c)
  BY DEF Next, vars, Step, Call, AskLock, JoinRead, JoinNothing, JoinedAll, JoinWrite, JoinServer,
     TakeResult, StopRead, StopServer, StopWait, StoppedAll, Build, BuildFails, StartWrite,
     StartServer, Select, Drained, ReadDone, CallStart, CallStop, CallJoin, CallRead,
     FirstConfig, NextConfig, TaskReturn, TaskEnd, TaskStep
<1> QED BY <1>1, <1>2, <1>3, <1>4

-----------------------------------------------------------------------------
(* The invariant holds.                                                    *)

LEMMA InitHolds == Init => IInv
<1> SUFFICES ASSUME Init PROVE IInv
  OBVIOUS
<1>0. N \in Nat /\ MaxBuilds \in Nat /\ MaxConfigs \in Nat
  BY RabbitDiggerAssumption
<1>1. NewCell \in Cell
  BY DEF NewCell, Cell, TaskStates
<1>2. Typed
  <2>1. cell \in [Instances -> [Servers -> Cell]]
    BY <1>1 DEF Init
  <2>2. pc \in [Clients -> Points]
    BY DEF Init, Points
  <2> QED BY <1>0, <2>1, <2>2 DEF Init, Typed
<1>3. \A c \in Clients : pc[c] \in {"config", "idle"}
  BY DEF Init
<1>4. LockAccounted
  <2>1. GuardsAt(pc) = {}
    BY <1>3 DEF GuardsAt, Request, ReadPoints
  <2>2. lock = [queue |-> <<>>, held |-> {}]
    BY DEF Init, FreeLock
  <2> QED BY <2>1, <2>2 DEF LockAccounted, LockOK
<1>5. GuardedView /\ StartProgress /\ RunningIsComplete
  BY <1>3 DEF Init, GuardedView, StartProgress, Progress, RunningIsComplete, ReadPoints, JoinPoints
<1> QED BY <1>2, <1>4, <1>5 DEF IInv

LEMMA Invariance == Spec => []IInv
<1>1. Init => IInv
  BY InitHolds
<1>2. IInv /\ [Next]_vars => IInv'
  BY TypedStep, LockStep, ViewStep, ProgressStep, CompleteStep DEF IInv
<1> QED BY <1>1, <1>2, PTL DEF Spec

\* Every variable has its type, and the guards that are out of the RwLock
\* around the state are at every moment exactly those of the tasks that work
\* under one: none is leaked when start_stream drops a join half-way.
THEOREM TypeCorrect == Spec => []TypeOK
<1>1. IInv => TypeOK
  <2> SUFFICES ASSUME IInv PROVE TypeOK
    OBVIOUS
  <2>1. lock.held = Guards /\ \A i \in 1..Len(lock.queue) : lock.queue[i] \in Request
    BY GuardsAreGuards DEF IInv, LockAccounted, LockOK
  <2> QED BY <2>1 DEF IInv, Typed, TypeOK, Request
<1> QED BY <1>1, Invariance, PTL

\* The state never shows an instance some server of which was not started:
\* start publishes the instance after it has started every server of it.
THEOREM PublishedComplete == Spec => []RunningIsComplete
<1>1. IInv => RunningIsComplete
  BY DEF IInv
<1> QED BY <1>1, Invariance, PTL

\* While a stop or a join works under its read guard the instance it found is
\* the state: nobody replaces or drops it under them.
THEOREM InstanceStays == Spec => []GuardedView
<1>1. IInv => GuardedView
  BY DEF IInv
<1> QED BY <1>1, Invariance, PTL

-----------------------------------------------------------------------------
(* Who takes an instance out of the state.                                 *)

LEMMA AliveStep ==
    ASSUME IInv, AliveIsRunning, [Next]_vars
    PROVE  AliveIsRunning'
<1>1. CASE \E c \in Clients : StartServer(c)
  BY <1>1, StartServerCells DEF IInv, AliveIsRunning
<1>2. CASE ~ \E c \in Clients : StartServer(c)
  BY <1>2, CellsKept DEF IInv, AliveIsRunning, CellsStep, CellStep
<1> QED BY <1>1, <1>2

\* A task's step leaves the others where they are.
LEMMA OthersKept ==
    ASSUME Typed, NEW c \in Clients, Step(c) \/ Call(c), NEW d \in Clients, d # c
    PROVE  /\ pc'[d] = pc[d] /\ op'[d] = op[d] /\ mine'[d] = mine[d]
           /\ seen'[d] = seen[d] /\ at'[d] = at[d] /\ sub'[d] = sub[d]
  BY DEF Step, Call, Typed, AskLock, JoinRead, JoinNothing, JoinedAll, JoinWrite, JoinServer,
     TakeResult, StopRead, StopServer, StopWait, StoppedAll, Build, BuildFails, StartWrite,
     StartServer, StartDone, Select, Drained, ReadDone, CallStart, CallStop, CallJoin, CallRead,
     FirstConfig, NextConfig, AfterJoin, Await, Goto, Calls, locals

\* Only a build makes an instance, and only the end of a start shows one.
LEMMA NoNewInstance ==
    ASSUME Typed, FreshInstances, NEW c \in Clients, Step(c) \/ Call(c), ~Build(c), ~StartDone(c)
    PROVE  /\ mine' = mine /\ builds' = builds
           /\ state' = state \/ state' = WaitConfig
           /\ seen' = seen \/ seen' = [seen EXCEPT ![c] = state]
           /\ Starting(c)' => Starting(c)
           /\ pc'[c] \in {"start_write", "start_servers"} => op'[c] = "start"
           /\ op'[c] = "none" => op[c] = "none"
<1>0. pc[c] \in {"start_write", "start_servers"} => op[c] = "start"
  BY DEF FreshInstances
<1>1. CASE AskLock(c) \/ \E s \in Servers : JoinServer(c, s) \/ TakeResult(c, s)
  BY <1>0, <1>1 DEF Starting, AskLock, JoinServer, TakeResult, locals
<1>2. CASE JoinRead(c) \/ StopRead(c)
  BY <1>0, <1>2 DEF Typed, Starting, JoinRead, StopRead, Await, Goto, ReadPoints, JoinPoints
<1>3. CASE JoinNothing(c) \/ JoinWrite(c)
  BY <1>0, <1>3 DEF Typed, Starting, JoinNothing, JoinWrite, AfterJoin, Await, Goto, ReadPoints,
                    JoinPoints, locals
<1>4. CASE JoinedAll(c) \/ StoppedAll(c)
  BY <1>0, <1>4 DEF Typed, Starting, JoinedAll, StoppedAll, Await, Goto, ReadPoints, JoinPoints, locals
<1>5. CASE StopServer(c) \/ StopWait(c)
  BY <1>0, <1>5 DEF Typed, Starting, StopServer, StopWait, Goto, ReadPoints, JoinPoints, locals
<1>6. CASE BuildFails(c) \/ Select(c) \/ ReadDone(c)
  BY <1>0, <1>6 DEF Typed, Starting, BuildFails, Select, ReadDone, Await, Calls, Goto, ReadPoints,
                    JoinPoints, locals
<1>7. CASE StartWrite(c) \/ StartServer(c)
  BY <1>0, <1>7 DEF Typed, Starting, StartWrite, StartServer, Goto, ReadPoints, JoinPoints
<1>8. CASE Call(c)
  BY <1>0, <1>8 DEF Typed, Starting, Call, CallStart, CallStop, CallJoin, CallRead, FirstConfig,
     NextConfig, Drained, Await, Calls, Goto, ReadPoints, JoinPoints, locals
<1> QED BY <1>1, <1>2, <1>3, <1>4, <1>5, <1>6, <1>7, <1>8 DEF Step

LEMMA FreshStep ==
    ASSUME IInv, FreshInstances, [Next]_vars
    PROVE  FreshInstances'
<1>0. /\ Typed /\ StartProgress /\ N \in Nat /\ MaxBuilds \in Nat
      /\ \A d \in Clients : mine[d] \in Nat /\ seen[d] \in Nat
      /\ builds \in Nat /\ state \in Nat /\ state <= builds /\ WaitConfig = 0
  BY RabbitDiggerAssumption DEF IInv, Typed, FreshInstances, Instances, WaitConfig
<1>1. \A d \in Clients : Starting(d) => mine[d] \in Instances /\ mine[d] # 0
  BY <1>0 DEF Starting, StartProgress, Progress, Instances, ReadPoints, JoinPoints
<1>2. ASSUME NEW c \in Clients, Build(c) PROVE FreshInstances'
  <2>1. /\ builds' = builds + 1 /\ mine'[c] = builds + 1 /\ op'[c] = "start" /\ pc'[c] = "stop_read"
        /\ state' = state /\ seen' = seen
    BY <1>0, <1>2 DEF Typed, Build, Calls, Await, Goto
  <2>2. \A d \in Clients : d # c => /\ mine'[d] = mine[d] /\ op'[d] = op[d] /\ pc'[d] = pc[d]
                                    /\ Starting(d)' = Starting(d)
    BY <1>0, <1>2, OthersKept DEF Step, Starting
  <2>3. \A d \in Clients : mine[d] <= builds /\ seen[d] <= builds
    BY DEF FreshInstances
  <2>4. ASSUME NEW e \in Clients
        PROVE  /\ mine'[e] <= builds' /\ seen'[e] <= builds'
               /\ pc'[e] \in {"start_write", "start_servers"} => op'[e] = "start"
               /\ op'[e] = "none" => mine'[e] = 0
    BY <1>0, <2>1, <2>2, <2>3 DEF FreshInstances
  <2>5. ASSUME NEW e \in Clients, Starting(e)', NEW d \in Clients
        PROVE  state' # mine'[e] /\ seen'[d] # mine'[e] /\ (d # e => mine'[d] # mine'[e])
    <3>1. CASE e = c
      BY <1>0, <2>1, <2>2, <2>3, <3>1
    <3>2. CASE e # c
      BY <1>0, <2>1, <2>2, <2>3, <2>5, <3>2 DEF FreshInstances
    <3> QED BY <3>1, <3>2
  <2> QED BY <1>0, <2>1, <2>4, <2>5 DEF FreshInstances
<1>3. ASSUME NEW c \in Clients, StartDone(c) PROVE FreshInstances'
  <2>1. /\ state' = mine[c] /\ mine' = mine /\ seen' = seen /\ builds' = builds /\ op' = op
        /\ pc'[c] \in {"select", "idle"} /\ Starting(c)
    BY <1>0, <1>3 DEF Typed, StartDone, Goto, locals, Starting, FreshInstances
  <2>2. \A d \in Clients : d # c => pc'[d] = pc[d] /\ Starting(d)' = Starting(d)
    BY <1>0, <1>3, OthersKept DEF Step, Starting
  <2>3. ~Starting(c)'
    BY <2>1 DEF Starting, ReadPoints, JoinPoints
  <2> QED BY <2>1, <2>2, <2>3 DEF FreshInstances
<1>4. ASSUME NEW c \in Clients, Step(c) \/ Call(c), ~Build(c), ~StartDone(c) PROVE FreshInstances'
  <2>1. /\ mine' = mine /\ builds' = builds
        /\ state' = state \/ state' = WaitConfig
        /\ seen' = seen \/ seen' = [seen EXCEPT ![c] = state]
        /\ Starting(c)' => Starting(c)
        /\ pc'[c] \in {"start_write", "start_servers"} => op'[c] = "start"
        /\ op'[c] = "none" => op[c] = "none"
    BY <1>0, <1>4, NoNewInstance
  <2>2. \A d \in Clients : d # c => pc'[d] = pc[d] /\ op'[d] = op[d] /\ Starting(d)' = Starting(d)
    BY <1>0, <1>4, OthersKept DEF Starting
  <2>3. \A d \in Clients : seen'[d] \in {seen[d], state}
    BY <1>0, <2>1 DEF Typed
  <2>4. ASSUME NEW e \in Clients
        PROVE  /\ mine'[e] <= builds' /\ seen'[e] <= builds'
               /\ pc'[e] \in {"start_write", "start_servers"} => op'[e] = "start"
               /\ op'[e] = "none" => mine'[e] = 0
    BY <1>0, <2>1, <2>2, <2>3 DEF FreshInstances
  <2>5. ASSUME NEW e \in Clients, Starting(e)', NEW d \in Clients
        PROVE  state' # mine'[e] /\ seen'[d] # mine'[e] /\ (d # e => mine'[d] # mine'[e])
    <3>1. Starting(e)
      BY <2>1, <2>2, <2>5
    <3> QED BY <1>0, <1>1, <2>1, <2>3, <3>1 DEF FreshInstances
  <2> QED BY <1>0, <2>1, <2>4, <2>5 DEF FreshInstances
<1>5. ASSUME NEW i \in Instances, NEW s \in Servers, TaskReturn(i, s) \/ TaskEnd(i, s)
      PROVE  FreshInstances'
  BY <1>5 DEF TaskReturn, TaskEnd, TaskStep, locals, FreshInstances, Starting
<1>6. CASE UNCHANGED vars
  BY <1>6 DEF vars, FreshInstances, Starting
<1> QED BY <1>2, <1>3, <1>4, <1>5, <1>6 DEF Next

\* What has ended stays so but for the instance of a start under way.
LEMMA DeadStays ==
    ASSUME IInv, FreshInstances, [Next]_vars, NEW d \in Clients, seen[d] \in Instances,
           NEW s \in Servers, ~Alive(cell[seen[d]][s])
    PROVE  ~Alive(cell'[seen[d]][s])
<1>1. ASSUME NEW c \in Clients, StartServer(c) PROVE ~Alive(cell'[seen[d]][s])
  <2>1. mine[c] # seen[d]
    BY <1>1 DEF StartServer, FreshInstances, Starting
  <2> QED BY <1>1, <2>1, StartServerCells DEF IInv
<1>2. CASE ~ \E c \in Clients : StartServer(c)
  BY <1>2, CellsKept DEF IInv, CellsStep, CellStep
<1> QED BY <1>1, <1>2

\* The others' steps: an instance comes to the state that nobody has seen, or
\* none.
LEMMA LookedOthers ==
    ASSUME IInv, LookInv, [Next]_vars, NEW d \in Clients,
           pc'[d] = pc[d], op'[d] = op[d], mine'[d] = mine[d], seen'[d] = seen[d],
           at'[d] = at[d], sub'[d] = sub[d],
           \/ state' = state \/ state' = WaitConfig
           \/ \E c \in Clients : c # d /\ Starting(c) /\ state' = mine[c]
    PROVE  Looked(d)'
<1>1. Looked(d) /\ FreshInstances /\ Typed /\ GuardedView
  BY DEF LookInv, IInv
<1>2. ASSUME seen[d] \in Instances, NEW s \in Servers, ~Alive(cell[seen[d]][s])
      PROVE  ~Alive(cell'[seen[d]][s])
  BY <1>1, <1>2, DeadStays
<1>3. state' = state \/ state' = WaitConfig \/ (state' # seen[d] /\ state' # mine[d])
  BY <1>1 DEF FreshInstances
<1>4. pc[d] \in ReadPoints => seen[d] \in Instances
  BY <1>1 DEF GuardedView, Typed
<1>5. state # WaitConfig => state \in Instances
  BY <1>1 DEF Typed
<1>6. /\ pc[d] = "join_servers" =>
           \A s \in Servers : sub[d][s] # "join" => ~Alive(cell'[seen[d]][s])
      /\ pc[d] = "join_write" =>
           seen[d] \in Instances /\ \A s \in Servers : ~Alive(cell'[seen[d]][s])
      /\ pc[d] \in {"stop_server", "stop_wait"} =>
           \A s \in Servers : s < at[d] => ~Alive(cell'[seen[d]][s])
  BY <1>1, <1>2, <1>4 DEF Looked, ReadPoints
<1>7. pc[d] \in {"join_read", "start_write", "start_servers"} /\ op[d] # "join" =>
        (state' = seen[d] /\ state' # WaitConfig => \A s \in Servers : ~Alive(cell'[state'][s]))
  BY <1>1, <1>2, <1>3, <1>5 DEF Looked
<1>8. d \in Streams => /\ pc[d] \notin {"idle", "read"}
                       /\ pc[d] \in {"build", "drain", "exited"} /\ mine[d] # 0 => state' # mine[d]
  BY <1>1, <1>3 DEF Looked, WaitConfig
<1> QED BY <1>6, <1>7, <1>8 DEF Looked

\* A join or a stop that comes past a server has seen it end.
LEMMA PastIsDead ==
    ASSUME IInv, AliveIsRunning, NEW c \in Clients, NEW s \in Servers, seen[c] \in Instances,
           \/ CanCollect(cell[seen[c]][s])
           \/ cell[seen[c]][s].st # "Running"
    PROVE  ~Alive(cell[seen[c]][s])
  BY DEF CanCollect, AliveIsRunning, Alive

LEMMA LookedOwn ==
    ASSUME IInv, LookInv, NEW c \in Clients, Step(c) \/ Call(c)
    PROVE  Looked(c)'
<1>0. /\ Typed /\ GuardedView /\ StartProgress /\ FreshInstances /\ AliveIsRunning /\ Looked(c)
      /\ N \in Nat /\ [Next]_vars /\ at[c] \in 1..(N + 1) /\ WaitConfig = 0
  BY RabbitDiggerAssumption DEF IInv, LookInv, Next, Typed, WaitConfig
<1>1. ASSUME seen[c] \in Instances, NEW s \in Servers, ~Alive(cell[seen[c]][s])
      PROVE  ~Alive(cell'[seen[c]][s])
  BY <1>0, <1>1, DeadStays
<1>2. pc[c] \in ReadPoints => seen[c] \in Instances
  BY <1>0, AtHand
<1>3. state # WaitConfig => state \in Instances
  BY <1>0 DEF Typed
<1>4. CASE AskLock(c)
  BY <1>0, <1>4 DEF Looked, AskLock, locals
<1>5. CASE JoinRead(c)
  <2>1. /\ pc'[c] = "join_servers" /\ \A s \in Servers : sub'[c][s] = "join"
    BY <1>0, <1>5 DEF Typed, JoinRead, Goto
  <2> QED BY <2>1 DEF Looked
<1>6. CASE JoinNothing(c) \/ JoinWrite(c)
  <2>1. /\ pc'[c] \in {"start_write", "build", "drain", "config", "idle"}
        /\ state' = WaitConfig
        /\ c \in Streams => pc'[c] # "idle"
    BY <1>0, <1>6 DEF Typed, JoinNothing, JoinWrite, AfterJoin, Await, Goto
  <2> QED BY <1>0, <2>1 DEF Looked
<1>7. CASE JoinedAll(c)
  <2>1. /\ pc[c] = "join_servers" /\ pc'[c] = "join_write" /\ seen' = seen /\ cell' = cell
        /\ \A s \in Servers : sub[c][s] = "done"
    BY <1>0, <1>7 DEF Typed, JoinedAll, Await, Goto, locals
  <2> QED BY <1>0, <1>2, <2>1 DEF Looked, ReadPoints
<1>8. ASSUME NEW s \in Servers, JoinServer(c, s) \/ TakeResult(c, s) PROVE Looked(c)'
  <2>1. pc[c] = "join_servers" /\ pc' = pc /\ seen' = seen /\ seen[c] \in Instances
    BY <1>2, <1>8 DEF JoinServer, TakeResult, ReadPoints
  <2>2. ~Alive(cell[seen[c]][s])
    <3>1. CASE JoinServer(c, s)
      BY <1>0, <2>1, <3>1, PastIsDead DEF JoinServer
    <3>2. CASE TakeResult(c, s)
      BY <1>0, <2>1, <3>2 DEF TakeResult, Looked
    <3> QED BY <1>8, <3>1, <3>2
  <2>3. \A r \in Servers : r # s => sub'[c][r] = sub[c][r]
    <3>1. sub' = [sub EXCEPT ![c][s] = "take"] \/ sub' = [sub EXCEPT ![c][s] = "done"]
      BY <1>8 DEF JoinServer, TakeResult
    <3>2. sub \in [Clients -> [Servers -> {"join", "take", "done"}]]
      BY <1>0 DEF Typed
    <3> QED BY <3>1, <3>2
  <2>4. \A r \in Servers : sub'[c][r] # "join" => ~Alive(cell'[seen[c]][r])
    BY <1>0, <1>1, <2>1, <2>2, <2>3 DEF Looked
  <2> QED BY <2>1, <2>4 DEF Looked
<1>9. CASE StopRead(c)
  <2>1. CASE state = WaitConfig
    <3>1. pc'[c] = "join_read" /\ state' = WaitConfig
      BY <1>0, <1>9, <2>1 DEF Typed, StopRead, Await, Goto
    <3> QED BY <3>1 DEF Looked
  <2>2. CASE state # WaitConfig
    <3>1. pc'[c] = "stop_server" /\ at'[c] = 1
      BY <1>0, <1>9, <2>2 DEF Typed, StopRead, Goto
    <3>2. \A s \in Servers : ~(s < 1)
      BY <1>0 DEF Servers
    <3> QED BY <3>1, <3>2 DEF Looked
  <2> QED BY <2>1, <2>2
<1>10. CASE StopServer(c)
  <2>1. /\ pc[c] = "stop_server" /\ pc'[c] = "stop_wait" /\ at' = at /\ seen' = seen
        /\ seen[c] \in Instances
    BY <1>0, <1>2, <1>10 DEF Typed, StopServer, Goto, locals, ReadPoints
  <2>2. \A s \in Servers : s < at[c] => ~Alive(cell'[seen[c]][s])
    BY <1>0, <1>1, <2>1 DEF Looked
  <2> QED BY <2>1, <2>2 DEF Looked
<1>11. CASE StopWait(c)
  <2>1. /\ pc[c] = "stop_wait" /\ pc'[c] = "stop_server" /\ at'[c] = at[c] + 1 /\ seen' = seen
        /\ seen[c] \in Instances /\ at[c] \in Servers
    BY <1>0, <1>2, <1>11, AtHand DEF Typed, StopWait, Goto, ReadPoints
  <2>2. ~Alive(cell[seen[c]][at[c]])
    BY <1>0, <1>11, <2>1, PastIsDead DEF StopWait
  <2>3. \A s \in Servers : s < at[c] + 1 => s < at[c] \/ s = at[c]
    BY <1>0 DEF Servers
  <2>4. \A s \in Servers : s < at[c] + 1 => ~Alive(cell'[seen[c]][s])
    BY <1>0, <1>1, <2>1, <2>2, <2>3 DEF Looked
  <2> QED BY <2>1, <2>4 DEF Looked
<1>12. CASE StoppedAll(c)
  <2>1. /\ pc[c] = "stop_server" /\ pc'[c] = "join_read" /\ at[c] = N + 1 /\ seen' = seen
        /\ cell' = cell /\ state' = state
    BY <1>0, <1>12 DEF Typed, StoppedAll, Await, Goto, locals
  <2>2. \A s \in Servers : s < N + 1
    BY <1>0 DEF Servers
  <2> QED BY <1>0, <2>1, <2>2 DEF Looked
<1>13. CASE Build(c) \/ StartDone(c)
  <2>1. pc'[c] \in {"stop_read", "select", "idle"} /\ (c \in Streams => pc'[c] # "idle")
    BY <1>0, <1>13 DEF Typed, Build, StartDone, Await, Goto
  <2> QED BY <2>1 DEF Looked
<1>14. CASE BuildFails(c) \/ Drained(c)
  <2>1. /\ pc[c] \in {"build", "drain"} /\ pc'[c] \in {"exited", "idle"} /\ state' = state
        /\ mine' = mine /\ (pc[c] = "drain" \/ c \in Streams => pc'[c] = "exited")
    BY <1>0, <1>14 DEF Typed, BuildFails, Drained, Goto, locals
  <2> QED BY <1>0, <2>1 DEF Looked
<1>15. CASE StartWrite(c)
  <2>1. /\ pc[c] = "start_write" /\ pc'[c] = "start_servers" /\ state' = state /\ seen' = seen
        /\ op' = op /\ cell' = cell
    BY <1>0, <1>15 DEF Typed, StartWrite, Goto
  <2> QED BY <1>0, <2>1 DEF Looked
<1>16. CASE StartServer(c)
  <2>1. /\ pc[c] = "start_servers" /\ pc' = pc /\ state' = state /\ seen' = seen /\ op' = op
    BY <1>16 DEF StartServer
  <2> QED BY <1>0, <1>1, <1>3, <2>1 DEF Looked
<1>17. CASE Select(c) \/ CallJoin(c)
  <2>1. pc'[c] = "join_read" /\ op'[c] = "join"
    BY <1>0, <1>17 DEF Typed, Select, CallJoin, Await, Goto, Calls
  <2> QED BY <2>1 DEF Looked
<1>18. CASE ReadDone(c) \/ CallStart(c) \/ CallRead(c) \/ CallStop(c)
  <2>1. pc[c] \in {"read", "idle"} /\ c \notin Streams
    BY <1>0, <1>18 DEF ReadDone, CallStart, CallRead, CallStop, Looked
  <2>2. pc'[c] \in {"idle", "build", "read", "stop_read"}
    BY <1>0, <1>18 DEF Typed, ReadDone, CallStart, CallRead, CallStop, Await, Goto
  <2> QED BY <2>1, <2>2 DEF Looked
<1>19. CASE FirstConfig(c)
  <2>1. pc'[c] \in {"build", "exited"} /\ mine' = mine /\ mine[c] = 0
    BY <1>0, <1>19 DEF Typed, FirstConfig, Goto, locals, FreshInstances
  <2> QED BY <2>1 DEF Looked
<1>20. CASE NextConfig(c)
  <2>1. pc'[c] = "stop_read"
    BY <1>0, <1>20 DEF Typed, NextConfig, Await, Goto
  <2> QED BY <2>1 DEF Looked
<1> QED BY <1>4, <1>5, <1>6, <1>7, <1>8, <1>9, <1>10, <1>11, <1>12, <1>13, <1>14, <1>15, <1>16,
           <1>17, <1>18, <1>19, <1>20 DEF Step, Call

LEMMA LookStep ==
    ASSUME IInv, LookInv, [Next]_vars
    PROVE  LookInv'
<1>0. Typed /\ FreshInstances /\ AliveIsRunning
  BY DEF IInv, LookInv
<1>1. AliveIsRunning' /\ FreshInstances'
  BY <1>0, AliveStep, FreshStep
<1>2. ASSUME NEW c \in Clients, Step(c) \/ Call(c), NEW d \in Clients PROVE Looked(d)'
  <2>1. CASE d = c
    BY <1>2, <2>1, LookedOwn
  <2>2. CASE d # c
    <3>1. \/ state' = state \/ state' = WaitConfig
          \/ Starting(c) /\ state' = mine[c]
      <4>1. CASE Build(c)
        BY <4>1 DEF Build
      <4>2. CASE StartDone(c)
        BY <1>0, <4>2 DEF StartDone, Starting, FreshInstances
      <4> QED BY <1>0, <1>2, <4>1, <4>2, NoNewInstance
    <3> QED BY <1>0, <1>2, <2>2, <3>1, OthersKept, LookedOthers
  <2> QED BY <2>1, <2>2
<1>3. ASSUME NEW i \in Instances, NEW s \in Servers, TaskReturn(i, s) \/ TaskEnd(i, s)
      PROVE  \A d \in Clients : Looked(d)'
  BY <1>3, LookedOthers DEF TaskReturn, TaskEnd, TaskStep, locals
<1>4. ASSUME UNCHANGED vars, NEW d \in Clients PROVE Looked(d)'
  <2>1. /\ pc' = pc /\ op' = op /\ mine' = mine /\ seen' = seen /\ at' = at /\ sub' = sub
        /\ state' = state
    BY <1>4 DEF vars
  <2> QED BY <2>1, LookedOthers
<1> QED BY <1>1, <1>2, <1>3, <1>4 DEF Next, LookInv

LEMMA LookInvariance == Spec => [](IInv /\ LookInv)
<1>1. Init => LookInv
  <2> SUFFICES ASSUME Init PROVE LookInv
    OBVIOUS
  <2>1. AliveIsRunning
    BY DEF Init, NewCell, Alive, AliveIsRunning
  <2>2. FreshInstances
    BY DEF Init, FreshInstances, Starting, WaitConfig
  <2>3. \A c \in Clients : Looked(c)
    BY DEF Init, Looked
  <2> QED BY <2>1, <2>2, <2>3 DEF LookInv
<1>2. IInv /\ LookInv /\ [Next]_vars => LookInv'
  BY LookStep
<1> QED BY <1>1, <1>2, Invariance, PTL DEF Spec

\* With any number of clones that start, stop, join and stream at the same time:
\* who takes an instance out of the state while a server of it runs is a join or
\* a start whose own stop or join looked at another instance, or at none.
THEOREM OnlyUnseenDisplaced == Spec => DisplacedUnseen
<1>1. ASSUME IInv, LookInv, [Next]_vars, NEW i \in Instances, state = i, state' # i,
             AliveServers(i) # {}
      PROVE  \E c \in Clients : (JoinWrite(c) \/ StartDone(c)) /\ seen[c] # i
  <2>1. \E c \in Clients : JoinWrite(c) \/ StartDone(c)
    BY <1>1 DEF Next, vars, Step, Call, AskLock, JoinRead, JoinNothing, JoinedAll, JoinServer,
       TakeResult, StopRead, StopServer, StopWait, StoppedAll, Build, BuildFails, StartWrite,
       StartServer, Select, Drained, ReadDone, CallStart, CallStop, CallJoin, CallRead,
       FirstConfig, NextConfig, TaskReturn, TaskEnd, TaskStep
  <2>2. PICK c \in Clients : JoinWrite(c) \/ StartDone(c)
    BY <2>1
  <2>3. Looked(c) /\ FreshInstances /\ i # WaitConfig
    BY <1>1 DEF LookInv, WaitConfig, Instances
  <2>4. ASSUME seen[c] = i PROVE FALSE
    <3>1. CASE JoinWrite(c)
      BY <1>1, <2>3, <2>4, <3>1 DEF JoinWrite, Looked, AliveServers
    <3>2. CASE StartDone(c)
      BY <1>1, <2>3, <2>4, <3>2 DEF StartDone, FreshInstances, Looked, AliveServers
    <3> QED BY <2>2, <3>1, <3>2
  <2> QED BY <2>2, <2>4
<1>2. IInv /\ LookInv /\ [Next]_vars => [DisplacedStep]_vars
  BY <1>1 DEF DisplacedStep
<1> QED BY <1>2, LookInvariance, PTL DEF Spec, DisplacedUnseen

\* A start_stream that has returned, at the end of its configs or with the error
\* of a build, has not left its last instance in the state, whatever the other
\* clones do.
THEOREM StreamLeavesState == Spec => []NotLeftRunning
<1>1. LookInv => NotLeftRunning
  BY DEF LookInv, Looked, NotLeftRunning, Clients
<1> QED BY <1>1, LookInvariance, PTL
-----------------------------------------------------------------------------
(* The graph of nets: what holds while it is built and after.              *)

\* The literals are strings, which the provers do not know.
Tokens == STRING \cup {"net", "server", "loaded", "noop", "blackhole", "local"}
AnyName == Seq(Tokens) \ {NoName}
AnyRefs == [name : AnyName, inner : {<<>>}] \cup {Inline(net) : net \in NetConfigs}
BuiltConfigs == [type : Tokens \ {Placeholder.type}, refs : Seq(AnyRefs)]
Frames == [kind : {"net", "server"}, name : AnyName, cfg : BuiltConfigs, i : Nat, deps : Seq(Nat)]

\* A list of strings is packed if the starts of its strings lie in its buffer, in order.
Packed(c) ==
    /\ c = [underlying |-> c.underlying, index |-> c.index]
    /\ c.underlying \in Seq(Tokens) /\ c.index \in Seq(Nat)
    /\ \A i \in 1..Len(c.index) : c.index[i] <= Len(c.underlying)
    /\ \A i \in 1..(Len(c.index) - 1) : c.index[i] <= c.index[i + 1]

Walking ==
    /\ req = [on |-> req.on, via |-> req.via, list |-> req.list, path |-> req.path]
    /\ req.on \in 0..Len(objs) /\ req.via \subseteq 1..Len(objs)
    /\ Packed(req.list) /\ Strings(req.list) = req.path
    /\ phase # "running" => req.on = 0 /\ req.via = {}

GraphTyped ==
    /\ phase \in {"build", "failed", "running"}
    /\ given \in Configs
    /\ todo \in Seq([name : AnyName, cfg : NetConfigs])
    /\ stack \in Seq(Frames)
    /\ objs \in Seq([name : AnyName, deps : Seq(Nat)])
    /\ \A i \in 1..Len(objs) : \A j \in DOMAIN objs[i].deps : objs[i].deps[j] \in 1..Len(objs)
    /\ DOMAIN served \subseteq AnyName
    /\ \A s \in DOMAIN served : served[s] \in Seq(1..Len(objs))

\* What a RunningNet holds is what the config of its name says.
Describes(deps, refs, os) ==
    /\ Len(deps) = Len(refs)
    /\ \A i \in 1..Len(deps) : deps[i] \in 1..Len(os) /\ refs[i] = Named(os[deps[i]].name)
NetsDescribed ==
    /\ config = [n \in DOMAIN config |-> config[n]] /\ DOMAIN config \subseteq AnyName
    /\ cache = [n \in DOMAIN cache |-> cache[n]] /\ DOMAIN cache \subseteq DOMAIN config
    /\ \A i \in 1..Len(objs) : objs[i].name \in DOMAIN cache /\ cache[objs[i].name] = i
    /\ \A n \in DOMAIN cache :
         /\ cache[n] \in 1..Len(objs) /\ objs[cache[n]].name = n
         /\ config[n] \in BuiltConfigs /\ Describes(objs[cache[n]].deps, config[n].refs, objs)

\* A net that is not built is as it was given, or its placeholder is there while
\* one call, and only one, builds it.
Buildables == {cfg \in BuiltConfigs : Len(cfg.refs) <= Len(Fields)}
PlacesHeld ==
    /\ \A n \in DOMAIN config \ DOMAIN cache :
         \/ config[n] \in Buildables
         \/ /\ config[n] = Placeholder
            /\ \E k \in DOMAIN stack : stack[k].kind = "net" /\ stack[k].name = n
    /\ \A k \in DOMAIN stack : stack[k].kind = "net" =>
         stack[k].name \in DOMAIN config \ DOMAIN cache /\ config[stack[k].name] = Placeholder
CalledOnce ==
    \A k, l \in DOMAIN stack : stack[k].kind = stack[l].kind /\ stack[k].name = stack[l].name => k = l

\* A call has resolved its NetRefs before the current one, which the call above
\* it, if any, is about.
Resolved(f, os) ==
    /\ Len(f.cfg.refs) <= Len(Fields) /\ f.i \in 1..(Len(f.cfg.refs) + 1) /\ Len(f.deps) = f.i - 1
    /\ \A j \in 1..(f.i - 1) : f.deps[j] \in 1..Len(os) /\ f.cfg.refs[j] = Named(os[f.deps[j]].name)
CallsAdvance ==
    /\ \A k \in DOMAIN stack :
         /\ stack[k].kind = "server" <=> k = 1
         /\ Resolved(stack[k], objs)
         /\ k < Len(stack) => stack[k].i <= Len(stack[k].cfg.refs)
    /\ stack # <<>> => todo # <<>> /\ stack[1].name = todo[1].name
    /\ \A i, j \in DOMAIN todo : todo[i].name = todo[j].name => i = j
    /\ phase = "running" => stack = <<>>

\* A generated name is in the config only if the visit has met its field.
Generated(kind, n, i) == <<kind>> \o n \o Fields[i]
Met(kind, n, i) ==
    \/ kind = "net" /\ n \in DOMAIN cache
    \/ kind = "server" /\ \A j \in DOMAIN todo : todo[j].name # n
    \/ \E k \in DOMAIN stack :
         /\ stack[k].kind = kind /\ stack[k].name = n
         /\ i < stack[k].i \/ (i = stack[k].i /\ k < Len(stack))
NamesFresh ==
    \A kind \in {"net", "server"}, n \in AnyName, i \in DOMAIN Fields :
      Generated(kind, n, i) \in DOMAIN config => Met(kind, n, i)

Built == NetsDescribed /\ PlacesHeld /\ CalledOnce /\ CallsAdvance /\ NamesFresh
GraphInv == GraphTyped /\ Walking /\ (phase # "failed" => Built)

-----------------------------------------------------------------------------
(* The names that get_net generates and the list of a request.             *)

\* extend with one string is a push.
LEMMA ExtendOne ==
    ASSUME NEW c, NEW x
    PROVE  extend(c, <<x>>) = push(c, x)
<1> DEFINE q == <<x>>
           D == DOMAIN q
           F(f) == [t \in SUBSET D |-> IF t = {} THEN c ELSE push(f[t \ {Max(t)}], q[Max(t)])]
           g == CHOOSE f : f = F(f)
           v == [t \in SUBSET D |-> IF t = {} THEN c ELSE push(c, x)]
<1>1. extend(c, q) = g[D]
  BY DEF extend, FoldLeft, MapThenFoldSet
<1>2. D = {1} /\ q[1] = x
  OBVIOUS
<1>3. Max({1}) = 1 /\ {1} \ {1} = {}
  BY DEF Max
<1> HIDE DEF q, D
<1>4. v = F(v)
  BY <1>2, <1>3
<1>5. g = F(g)
  <2> HIDE DEF v, F
  <2> QED BY <1>4
<1>6. g[{}] = c
  BY <1>5
<1>7. g[D] = push(g[{}], x)
  <2>1. D \in SUBSET D /\ D # {}
    BY <1>2
  <2>2. F(g)[D] = push(g[D \ {Max(D)}], q[Max(D)])
    <3> HIDE DEF g
    <3> QED BY <2>1
  <2> HIDE DEF F, g
  <2> QED BY <1>2, <1>3, <1>5, <2>2
<1> QED BY <1>1, <1>6, <1>7 DEF q

\* from_iter of two strings pushes the one and then the other.
LEMMA FromTwo ==
    ASSUME NEW x, NEW y
    PROVE  from_iter(<<x, y>>) = push(push(EmptyStrings, x), y)
<1> DEFINE c == EmptyStrings
           q == <<x, y>>
           D == DOMAIN q
           F(f) == [t \in SUBSET D |-> IF t = {} THEN c ELSE push(f[t \ {Max(t)}], q[Max(t)])]
           g == CHOOSE f : f = F(f)
           v == [t \in SUBSET D |-> IF t = {} THEN c ELSE IF t = {1} THEN push(c, x)
                                   ELSE IF t = {2} THEN push(c, y) ELSE push(push(c, x), y)]
<1>1. from_iter(q) = g[D]
  BY DEF from_iter, extend, FoldLeft, MapThenFoldSet
<1>2. D = {1, 2} /\ q[1] = x /\ q[2] = y
  OBVIOUS
<1>3. /\ Max({1}) = 1 /\ {1} \ {1} = {} /\ Max({2}) = 2 /\ {2} \ {2} = {}
      /\ Max({1, 2}) = 2 /\ {1, 2} \ {2} = {1}
  BY DEF Max
<1> HIDE DEF q, D, c
<1>4. v = F(v)
  <2>1. \A t \in SUBSET D : t = {} \/ t = {1} \/ t = {2} \/ t = {1, 2}
    BY <1>2
  <2>2. {} \in SUBSET D /\ {1} \in SUBSET D /\ {2} \in SUBSET D /\ {1, 2} \in SUBSET D
    BY <1>2
  <2>3. v[{}] = c /\ v[{1}] = push(c, x) /\ v[{2}] = push(c, y) /\ v[{1, 2}] = push(push(c, x), y)
    BY <2>2
  <2>4. ASSUME NEW t \in SUBSET D
        PROVE  v[t] = IF t = {} THEN c ELSE push(v[t \ {Max(t)}], q[Max(t)])
    <3> HIDE DEF v
    <3>1. CASE t = {}
      BY <3>1, <2>3
    <3>2. CASE t = {1}
      BY <3>2, <1>2, <1>3, <2>3
    <3>3. CASE t = {2}
      BY <3>3, <1>2, <1>3, <2>3
    <3>4. CASE t = {1, 2}
      BY <3>4, <1>2, <1>3, <2>3
    <3> QED BY <2>1, <3>1, <3>2, <3>3, <3>4
  <2>5. v = [t \in SUBSET D |-> v[t]]
    OBVIOUS
  <2> HIDE DEF v
  <2> QED BY <2>4, <2>5
<1>5. g = F(g)
  <2> HIDE DEF v, F
  <2> QED BY <1>4
<1>6. /\ F(g)[{}] = c
      /\ F(g)[{1}] = push(g[{1} \ {Max({1})}], q[Max({1})])
      /\ F(g)[{1, 2}] = push(g[{1, 2} \ {Max({1, 2})}], q[Max({1, 2})])
  <2>1. {} \in SUBSET D /\ {1} \in SUBSET D /\ {1, 2} \in SUBSET D /\ {1} # {} /\ {1, 2} # {}
    BY <1>2
  <2> HIDE DEF g
  <2> QED BY <2>1
<1>7. g[{}] = c /\ g[{1}] = push(g[{}], x) /\ g[{1, 2}] = push(g[{1}], y)
  <2> HIDE DEF F, g
  <2> QED BY <1>2, <1>3, <1>5, <1>6
<1> HIDE DEF g
<1> QED BY <1>1, <1>2, <1>7 DEF q, c

\* Three strings joined.
LEMMA FlattenThree ==
    ASSUME NEW q, q = <<q[1], q[2], q[3]>>
    PROVE  FlattenSeq(q) = (q[1] \o q[2]) \o q[3]
<1> DEFINE D == 1..Len(q)
           F(f) == [i \in D |-> IF i = 1 THEN q[i] ELSE f[i - 1] \o q[i]]
           g == CHOOSE f : f = F(f)
           v == [i \in D |-> IF i = 1 THEN q[1] ELSE IF i = 2 THEN q[1] \o q[2] ELSE (q[1] \o q[2]) \o q[3]]
<1>1. Len(q) = 3
  OBVIOUS
<1>2. FlattenSeq(q) = g[Len(q)]
  BY <1>1 DEF FlattenSeq
<1>3. D = {1, 2, 3}
  BY <1>1
<1> HIDE DEF D
<1>4. v = F(v)
  BY <1>3
<1>5. g = F(g)
  <2> HIDE DEF v, F
  <2> QED BY <1>4
<1>6. F(g)[1] = q[1] /\ F(g)[2] = g[2 - 1] \o q[2] /\ F(g)[3] = g[3 - 1] \o q[3]
  <2> HIDE DEF g
  <2> QED BY <1>3
<1>7. g[1] = q[1] /\ g[2] = g[1] \o q[2] /\ g[3] = g[2] \o q[3]
  <2> HIDE DEF g, F
  <2> QED BY <1>5, <1>6
<1> HIDE DEF g
<1> QED BY <1>1, <1>2, <1>7

\* push adds a string at the end of the list: the strings before it stay.
LEMMA Pushed ==
    ASSUME NEW c, Packed(c), NEW x \in Seq(Tokens)
    PROVE  Packed(push(c, x)) /\ Strings(push(c, x)) = Append(Strings(c), x)
           /\ Len(Strings(c)) = Len(c.index)
<1> DEFINE u == c.underlying
           ix == c.index
           l == Len(u)
           m == Len(ix)
           d == push(c, x)
           p == u \o x
           jx == Append(ix, l)
           S == Strings(c)
<1>1. /\ u \in Seq(Tokens) /\ ix \in Seq(Nat) /\ l \in Nat /\ m \in Nat
      /\ \A i \in 1..m : ix[i] <= l /\ ix[i] \in Nat
      /\ \A i \in 1..(m - 1) : ix[i] <= ix[i + 1]
  BY DEF Packed
<1>2. d = [underlying |-> p, index |-> jx]
  BY DEF push
<1>3. /\ p \in Seq(Tokens) /\ Len(p) = l + Len(x) /\ Len(x) \in Nat
      /\ jx \in Seq(Nat) /\ Len(jx) = m + 1
      /\ (\A i \in 1..m : jx[i] = ix[i]) /\ jx[m + 1] = l
  <2> HIDE DEF u, ix
  <2>1. l \in Nat /\ m \in Nat
    BY <1>1
  <2>2. p \in Seq(Tokens) /\ Len(p) = l + Len(x) /\ Len(x) \in Nat
    BY <1>1
  <2>3. jx \in Seq(Nat) /\ Len(jx) = m + 1 /\ (\A i \in 1..m : jx[i] = ix[i]) /\ jx[m + 1] = l
    <3> HIDE DEF l
    <3> QED BY <1>1
  <2> QED BY <2>2, <2>3
<1>4. d.underlying = p /\ d.index = jx
  BY <1>2
<1> HIDE DEF u, ix, d, p, jx
<1>5. Packed(d)
  <2>1. ASSUME NEW i \in 1..Len(jx) PROVE jx[i] <= Len(p)
    <3> HIDE DEF l, m
    <3>1. CASE i = m + 1
      BY <1>1, <1>3, <3>1
    <3>2. CASE i # m + 1
      <4>1. i \in 1..m /\ jx[i] = ix[i] /\ ix[i] <= l /\ ix[i] \in Nat
        BY <1>1, <1>3, <3>2
      <4> QED BY <1>1, <1>3, <4>1
    <3> QED BY <3>1, <3>2
  <2>2. ASSUME NEW i \in 1..(Len(jx) - 1) PROVE jx[i] <= jx[i + 1]
    <3> HIDE DEF l, m
    <3>1. i \in 1..m /\ jx[i] = ix[i] /\ ix[i] <= l /\ m + 1 \in Nat
      BY <1>1, <1>3
    <3>2. CASE i = m
      BY <1>1, <1>3, <3>1, <3>2
    <3>3. CASE i # m
      <4>1. i \in 1..(m - 1) /\ i + 1 \in 1..m
        BY <1>1, <3>1, <3>3
      <4>2. ix[i] <= ix[i + 1] /\ jx[i + 1] = ix[i + 1]
        BY <1>1, <1>3, <4>1
      <4> QED BY <3>1, <4>2
    <3> QED BY <3>2, <3>3
  <2> QED BY <1>2, <1>3, <1>4, <2>1, <2>2 DEF Packed
<1>6. \A a, b \in Nat : a <= b /\ b <= l => SubSeq(p, a + 1, b) = SubSeq(u, a + 1, b)
  <2> SUFFICES ASSUME NEW a \in Nat, NEW b \in Nat, a <= b, b <= l
               PROVE  SubSeq(p, a + 1, b) = SubSeq(u, a + 1, b)
    OBVIOUS
  <2> DEFINE e == SubSeq(p, a + 1, b)
             f == SubSeq(u, a + 1, b)
  <2>1. \A i \in 1..l : p[i] = u[i]
    BY <1>1 DEF p
  <2>2. f \in Seq(Tokens) /\ Len(f) = b - a /\ \A i \in 1..(b - a) : f[i] = u[a + i]
    BY <1>1
  <2>3. e \in Seq(Tokens) /\ Len(e) = b - a /\ \A i \in 1..(b - a) : e[i] = p[a + i]
    <3>1. b <= Len(p)
      <4> HIDE DEF l
      <4> QED BY <1>1, <1>3
    <3>2. p \in Seq(Tokens)
      BY <1>3
    <3> QED BY ONLY <3>1, <3>2, a \in Nat, b \in Nat, a <= b
  <2> HIDE DEF e, f
  <2>4. Len(e) = Len(f) /\ \A i \in 1..Len(e) : e[i] = f[i]
    <3>1. \A i \in 1..(b - a) : a + i \in 1..l
      <4> HIDE DEF l
      <4> QED BY <1>1
    <3> HIDE DEF l, p
    <3> QED BY <2>1, <2>2, <2>3, <3>1
  <2>5. e = f
    BY <2>2, <2>3, <2>4, SeqEqual
  <2> QED BY <2>5 DEF e, f
<1>7. \A i \in 1..m : get(c, i) \in Seq(Tokens)
  <2> SUFFICES ASSUME NEW i \in 1..m PROVE get(c, i) \in Seq(Tokens)
    OBVIOUS
  <2> DEFINE a == ix[i] + 1
             b == IF i < m THEN ix[i + 1] ELSE l
  <2>1. get(c, i) = SubSeq(u, a, b)
    BY DEF get, u, ix
  <2>2. a \in Nat /\ b \in Nat /\ a >= 1 /\ b <= l
    <3> HIDE DEF l, m
    <3> QED BY <1>1
  <2> HIDE DEF a, b
  <2> QED BY <1>1, <2>1, <2>2
<1>8. S \in Seq(Seq(Tokens)) /\ Len(S) = m /\ \A i \in 1..m : S[i] = get(c, i)
  <2>1. S = [i \in 1..m |-> get(c, i)]
    BY DEF Strings, ix
  <2> HIDE DEF S, m
  <2> QED BY <1>1, <1>7, <2>1
<1>9. \A i \in 1..m : get(d, i) = get(c, i)
  <2> SUFFICES ASSUME NEW i \in 1..m PROVE get(d, i) = get(c, i)
    OBVIOUS
  <2> DEFINE b == IF i < m THEN ix[i + 1] ELSE l
             e == IF i < Len(jx) THEN jx[i + 1] ELSE Len(p)
  <2>1. get(c, i) = SubSeq(u, ix[i] + 1, b)
    BY DEF get, u, ix
  <2>2. get(d, i) = SubSeq(p, jx[i] + 1, e)
    BY <1>4 DEF get
  <2>3. ix[i] \in Nat /\ b \in Nat /\ ix[i] <= b /\ b <= l /\ jx[i] = ix[i]
    <3> HIDE DEF l, m
    <3>1. CASE i = m
      BY <1>1, <1>3, <3>1
    <3>2. CASE i # m
      <4>1. i \in 1..(m - 1) /\ i + 1 \in 1..m /\ i < m
        BY <1>1, <3>2
      <4> QED BY <1>1, <1>3, <4>1
    <3> QED BY <3>1, <3>2
  <2>4. e = b
    <3> HIDE DEF l, m
    <3>1. CASE i = m
      BY <1>1, <1>3, <3>1
    <3>2. CASE i # m
      <4>1. i \in 1..(m - 1) /\ i + 1 \in 1..m /\ i < m /\ i < Len(jx)
        BY <1>1, <1>3, <3>2
      <4> QED BY <1>1, <1>3, <4>1
    <3> QED BY <3>1, <3>2
  <2> HIDE DEF b, e
  <2> QED BY <1>6, <2>1, <2>2, <2>3, <2>4
<1>10. get(d, m + 1) = x
  <2> DEFINE k == Len(x)
             e == SubSeq(p, l + 1, l + k)
  <2>1. get(d, m + 1) = SubSeq(p, l + 1, Len(p))
    <3>1. ~(m + 1 < Len(jx))
      <4> HIDE DEF m
      <4> QED BY <1>1, <1>3
    <3>2. get(d, m + 1) = SubSeq(p, jx[m + 1] + 1, IF m + 1 < Len(jx) THEN jx[m + 1 + 1] ELSE Len(p))
      BY <1>4 DEF get
    <3> HIDE DEF m, l
    <3> QED BY <1>3, <3>1, <3>2
  <2>2. \A i \in 1..k : p[l + i] = x[i]
    BY <1>1 DEF p
  <2>3. e \in Seq(Tokens) /\ Len(e) = k /\ \A i \in 1..k : e[i] = p[l + i]
    <3> HIDE DEF l, k
    <3>1. k \in Nat /\ l \in Nat /\ Len(p) = l + k
      BY <1>1, <1>3 DEF k
    <3> QED BY <1>3, <3>1
  <2> HIDE DEF e
  <2>4. Len(e) = Len(x) /\ \A i \in 1..Len(e) : e[i] = x[i]
    <3> HIDE DEF l
    <3> QED BY <1>3, <2>2, <2>3
  <2>5. e = x
    BY <2>3, <2>4, SeqEqual
  <2> HIDE DEF l, m
  <2> QED BY <1>3, <2>1, <2>5 DEF e
<1>11. Strings(d) = Append(S, x)
  <2> DEFINE n == m + 1
             A == Append(S, x)
  <2>1. Strings(d) = [i \in 1..n |-> get(d, i)]
    BY <1>3, <1>4 DEF Strings
  <2>2. A = [i \in 1..n |-> IF i = n THEN x ELSE S[i]]
    <3> HIDE DEF S, m
    <3>1. /\ A \in Seq(Seq(Tokens)) /\ Len(A) = n /\ \A i \in 1..n : A[i] = IF i = n THEN x ELSE S[i]
      BY <1>1, <1>8
    <3> HIDE DEF A, n
    <3>2. A = [i \in 1..n |-> A[i]]
      BY <3>1
    <3> QED BY <3>1, <3>2
  <2>3. ASSUME NEW i \in 1..n PROVE get(d, i) = IF i = n THEN x ELSE S[i]
    <3>1. i # n => i \in 1..m
      <4> HIDE DEF m
      <4> QED BY <1>1
    <3> HIDE DEF m, S
    <3> QED BY <1>8, <1>9, <1>10, <3>1
  <2> HIDE DEF S, A, n
  <2> QED BY <2>1, <2>2, <2>3 DEF A
<1> QED BY <1>5, <1>8, <1>11 DEF m, ix, d, S

\* Tuples as what Append makes.
LEMMA TupleGrows ==
    ASSUME NEW S, NEW x \in S, NEW y \in S, NEW z \in S
    PROVE  Append(<<x>>, y) = <<x, y>> /\ Append(<<x, y>>, z) = <<x, y, z>>
<1>1. Append(<<x>>, y) = <<x, y>>
  <2> DEFINE a == <<x>>
             p == Append(a, y)
             q == <<x, y>>
  <2>1. a \in Seq(S) /\ Len(a) = 1 /\ a[1] = x
    OBVIOUS
  <2>2. q \in Seq(S) /\ Len(q) = 2 /\ q[1] = x /\ q[2] = y
    OBVIOUS
  <2> HIDE DEF a, q
  <2>3. p \in Seq(S) /\ Len(p) = 2 /\ p[1] = x /\ p[2] = y
    <3>1. /\ Append(a, y) \in Seq(S) /\ Len(Append(a, y)) = Len(a) + 1
          /\ (\A i \in 1..Len(a) : Append(a, y)[i] = a[i]) /\ Append(a, y)[Len(a) + 1] = y
      <4>1. a \in Seq(S) /\ y \in S
        BY <2>1
      <4> QED BY ONLY <4>1, AppendProperties, SMT
    <3> HIDE DEF p
    <3> QED BY <2>1, <3>1 DEF p
  <2> HIDE DEF p
  <2>4. Len(p) = Len(q) /\ \A i \in 1..Len(p) : p[i] = q[i]
    BY <2>2, <2>3
  <2> QED BY <2>2, <2>3, <2>4, SeqEqual DEF p, q, a
<1>2. Append(<<x, y>>, z) = <<x, y, z>>
  <2> DEFINE a == <<x, y>>
             p == Append(a, z)
             q == <<x, y, z>>
  <2>1. a \in Seq(S) /\ Len(a) = 2 /\ a[1] = x /\ a[2] = y
    OBVIOUS
  <2>2. q \in Seq(S) /\ Len(q) = 3 /\ q[1] = x /\ q[2] = y /\ q[3] = z
    OBVIOUS
  <2> HIDE DEF a, q
  <2>3. p \in Seq(S) /\ Len(p) = 3 /\ p[1] = x /\ p[2] = y /\ p[3] = z
    <3>1. /\ Append(a, z) \in Seq(S) /\ Len(Append(a, z)) = Len(a) + 1
          /\ (\A i \in 1..Len(a) : Append(a, z)[i] = a[i]) /\ Append(a, z)[Len(a) + 1] = z
      <4>1. a \in Seq(S) /\ z \in S
        BY <2>1
      <4> QED BY ONLY <4>1, AppendProperties, SMT
    <3> HIDE DEF p
    <3> QED BY <2>1, <3>1 DEF p
  <2> HIDE DEF p
  <2>4. Len(p) = Len(q) /\ \A i \in 1..Len(p) : p[i] = q[i]
    BY <2>2, <2>3
  <2> QED BY <2>2, <2>3, <2>4, SeqEqual DEF p, q, a
<1> QED BY <1>1, <1>2

\* The name that get_net generates: the kind and the name of the caller and the
\* path of the field.
LEMMA GeneratedForm ==
    ASSUME NEW kind \in {"net", "server"}, NEW n \in Seq(Tokens), NEW i \in DOMAIN Fields
    PROVE  GeneratedName(<<<<kind>>, n>>, i) = Generated(kind, n, i)
<1> DEFINE k == <<kind>>
           f == Fields[i]
           c0 == EmptyStrings
           c1 == push(c0, k)
           c2 == push(c1, n)
           c3 == push(c2, f)
<1>1. k \in Seq(Tokens) /\ f \in Seq(Tokens)
  <2>1. f \in Seq(STRING)
    BY GraphAssumption
  <2>2. Seq(STRING) \subseteq Seq(Tokens)
    BY DEF Tokens
  <2> QED BY <2>1, <2>2 DEF Tokens
<1>2. GeneratedName(<<k, n>>, i) = join(c3)
  <2>1. from_iter(<<k, n>>) = c2
    BY FromTwo
  <2>2. extend(c2, <<f>>) = c3
    BY ExtendOne
  <2> HIDE DEF c2, c3, k
  <2> QED BY <2>1, <2>2 DEF GeneratedName
<1>3. Packed(c0) /\ Strings(c0) = <<>>
  BY DEF EmptyStrings, Packed, Strings
<1> HIDE DEF c0, k, f
<1>4. Packed(c1) /\ Strings(c1) = Append(<<>>, k)
  BY <1>1, <1>3, Pushed
<1> HIDE DEF c1
<1>5. Packed(c2) /\ Strings(c2) = Append(Append(<<>>, k), n)
  BY <1>1, <1>4, Pushed
<1> HIDE DEF c2
<1>6. Strings(c3) = Append(Append(Append(<<>>, k), n), f)
  BY <1>1, <1>5, Pushed
<1> HIDE DEF c3
<1> DEFINE q == <<k, n, f>>
<1>7. Strings(c3) = q
  <2>1. Append(<<>>, k) = <<k>>
    OBVIOUS
  <2>2. Append(<<k>>, n) = <<k, n>> /\ Append(<<k, n>>, f) = <<k, n, f>>
    BY <1>1, TupleGrows
  <2> QED BY ONLY <1>6, <2>1, <2>2, Zenon DEF q
<1>8. FlattenSeq(q) = (k \o n) \o f
  <2>1. q = <<q[1], q[2], q[3]>> /\ q[1] = k /\ q[2] = n /\ q[3] = f
    OBVIOUS
  <2> HIDE DEF q
  <2> QED BY <2>1, FlattenThree
<1> QED BY <1>2, <1>7, <1>8 DEF join, Generated, k, f

\* A generated name spells the kind, the name of the caller and the path.
Spells(g, kind, n, i) ==
    /\ Len(g) = 1 + Len(n) + Len(Fields[i]) /\ Len(n) > 0 /\ g[1] = kind
    /\ \A j \in 1..Len(n) : g[j + 1] = n[j]
    /\ \A k \in 1..Len(Fields[i]) : g[1 + Len(n) + k] = Fields[i][k]

LEMMA GeneratedParts ==
    ASSUME NEW kind \in {"net", "server"}, NEW n \in AnyName, NEW i \in DOMAIN Fields
    PROVE  Generated(kind, n, i) \in AnyName /\ Spells(Generated(kind, n, i), kind, n, i)
<1> DEFINE f == Fields[i]
           k == <<kind>>
           a == k \o n
           g == a \o f
           l == Len(n)
           m == Len(f)
<1>1. k \in Seq(Tokens) /\ f \in Seq(Tokens) /\ n \in Seq(Tokens) /\ Len(k) = 1 /\ k[1] = kind
  <2>1. f \in Seq(STRING)
    BY GraphAssumption
  <2>2. Seq(STRING) \subseteq Seq(Tokens)
    BY DEF Tokens
  <2> QED BY <2>1, <2>2 DEF Tokens, AnyName
<1>2. n # <<>> /\ l \in Nat /\ m \in Nat
  BY <1>1 DEF AnyName, NoName
<1>3. l > 0
  BY <1>1, <1>2
<1> HIDE DEF f, k
<1>4. /\ a \in Seq(Tokens) /\ Len(a) = 1 + l /\ a[1] = kind
      /\ \A j \in 1..l : a[j + 1] = n[j]
  <2>1. a \in Seq(Tokens) /\ Len(a) = Len(k) + Len(n) /\ (\A j \in 1..(Len(k) + Len(n)) : a[j] = IF j <= Len(k) THEN k[j] ELSE n[j - Len(k)])
    BY ONLY <1>1, ConcatProperties, Zenon
  <2> HIDE DEF a
  <2> QED BY <1>1, <1>2, <2>1
<1> HIDE DEF a
<1>5. /\ g \in Seq(Tokens) /\ Len(g) = 1 + l + m
      /\ \A j \in 1..(1 + l + m) : g[j] = IF j <= 1 + l THEN a[j] ELSE f[j - (1 + l)]
  <2>1. g \in Seq(Tokens) /\ Len(g) = Len(a) + Len(f) /\ (\A j \in 1..(Len(a) + Len(f)) : g[j] = IF j <= Len(a) THEN a[j] ELSE f[j - Len(a)])
    BY ONLY <1>1, <1>4, ConcatProperties, Zenon
  <2> HIDE DEF g
  <2> QED BY <1>4, <2>1
<1> HIDE DEF g, l, m
<1>6. g[1] = kind /\ \A j \in 1..l : g[j + 1] = n[j]
  <2>1. 1 \in 1..(1 + l + m) /\ 1 <= 1 + l
    BY <1>2, <1>3
  <2>2. \A j \in 1..l : j + 1 \in 1..(1 + l + m) /\ j + 1 <= 1 + l
    BY <1>2, <1>3
  <2> QED BY <1>4, <1>5, <2>1, <2>2
<1>7. \A j \in 1..m : g[1 + l + j] = f[j]
  <2> TAKE j \in 1..m
  <2> DEFINE x == 1 + l + j
  <2>1. x \in 1..(1 + l + m) /\ ~(x <= 1 + l) /\ x - (1 + l) = j
    BY <1>2, <1>3
  <2> HIDE DEF x
  <2>2. g[x] = f[x - (1 + l)]
    BY <1>5, <2>1
  <2>3. g[x] = f[j]
    BY <2>1, <2>2
  <2> QED BY <2>3 DEF x
<1>8. g \in AnyName
  <2>1. g # <<>>
    BY <1>2, <1>3, <1>5
  <2> QED BY <1>5, <2>1 DEF AnyName, NoName
<1>9. Generated(kind, n, i) = g
  BY DEF Generated, g, a, k, f
<1> QED BY <1>3, <1>5, <1>6, <1>7, <1>8, <1>9 DEF f, l, m, Spells

\* What a suffix is, element by element.
LEMMA SuffixOf ==
    ASSUME NEW S, NEW s \in Seq(S), NEW t \in Seq(S), Len(s) <= Len(t),
           \A k \in 1..Len(s) : s[k] = t[Len(t) - Len(s) + k]
    PROVE  IsSuffix(s, t)
<1> DEFINE l == Len(s)
           m == Len(t)
           p == [i \in 1..l |-> s[(l - i) + 1]]
           q == [i \in 1..m |-> t[(m - i) + 1]]
<1>1. l \in Nat /\ m \in Nat /\ l <= m
  OBVIOUS
<1>2. Reverse(s) = p /\ Reverse(t) = q
  BY DEF Reverse
<1>3. \A i \in 1..l : p[i] = s[(l - i) + 1] /\ p[i] \in S /\ (l - i) + 1 \in 1..l
  BY <1>1
<1>4. \A i \in 1..m : q[i] = t[(m - i) + 1] /\ q[i] \in S
  BY <1>1
<1>5. p \in Seq(S) /\ q \in Seq(S) /\ Len(p) = l /\ Len(q) = m
  BY <1>1, <1>3, <1>4
<1>6. \A k \in 1..l : s[k] = t[m - l + k]
  OBVIOUS
<1> HIDE DEF p, q, l, m
<1>7. \A i \in 1..l : p[i] = q[i]
  <2> TAKE i \in 1..l
  <2>1. i \in 1..m /\ m - l + ((l - i) + 1) = (m - i) + 1
    BY <1>1
  <2>2. s[(l - i) + 1] = t[(m - i) + 1]
    BY <1>3, <1>6, <2>1
  <2> QED BY <1>3, <1>4, <2>1, <2>2
<1> DEFINE x == SubSeq(p, 1, l)
           y == SubSeq(q, 1, l)
<1>8. x \in Seq(S) /\ Len(x) = l /\ \A i \in 1..l : x[i] = p[i]
  BY <1>1, <1>5
<1>9. y \in Seq(S) /\ Len(y) = l /\ \A i \in 1..l : y[i] = q[i]
  BY <1>1, <1>5
<1> HIDE DEF x, y
<1>10. x = y
  <2>1. Len(x) = Len(y) /\ \A i \in 1..Len(x) : x[i] = y[i]
    BY <1>7, <1>8, <1>9
  <2> QED BY <1>8, <1>9, <2>1, SeqEqual
<1> QED BY <1>1, <1>2, <1>5, <1>10 DEF IsSuffix, IsPrefix, x, y

\* Of two ways to read a generated name, the longer path ends with the shorter.
LEMMA SpellsSuffix ==
    ASSUME NEW g, NEW kind, NEW n \in AnyName, NEW i \in DOMAIN Fields, Spells(g, kind, n, i),
           NEW kind2, NEW n2 \in AnyName, NEW i2 \in DOMAIN Fields, Spells(g, kind2, n2, i2),
           Len(Fields[i]) <= Len(Fields[i2])
    PROVE  i = i2
<1> DEFINE f == Fields[i]
           f2 == Fields[i2]
           a == Len(n)
           b == Len(n2)
           l == Len(f)
           m == Len(f2)
<1>1. f \in Seq(STRING) /\ f2 \in Seq(STRING) /\ l <= m
  BY GraphAssumption
<1>2. a \in Nat /\ b \in Nat /\ l \in Nat /\ m \in Nat
  BY <1>1 DEF AnyName
<1>3. /\ Len(g) = 1 + a + l /\ Len(g) = 1 + b + m
      /\ \A k \in 1..l : g[1 + a + k] = f[k]
      /\ \A k \in 1..m : g[1 + b + k] = f2[k]
  BY DEF Spells
<1> HIDE DEF f, f2, a, b, l, m
<1>4. \A k \in 1..l : f[k] = f2[m - l + k]
  <2> TAKE k \in 1..l
  <2>1. m - l + k \in 1..m /\ 1 + b + (m - l + k) = 1 + a + k
    BY <1>1, <1>2, <1>3
  <2> QED BY <1>3, <2>1
<1>5. IsSuffix(f, f2)
  BY <1>1, <1>4, SuffixOf DEF l, m
<1> QED BY <1>5, GraphAssumption DEF f, f2

\* Two fields have two generated names.
LEMMA GeneratedApart ==
    ASSUME NEW kind \in {"net", "server"}, NEW n \in AnyName, NEW i \in DOMAIN Fields,
           NEW kind2 \in {"net", "server"}, NEW n2 \in AnyName, NEW i2 \in DOMAIN Fields,
           Generated(kind, n, i) = Generated(kind2, n2, i2)
    PROVE  kind = kind2 /\ n = n2 /\ i = i2
<1> DEFINE g == Generated(kind, n, i)
<1>1. Spells(g, kind, n, i)
  BY GeneratedParts, Zenon
<1> HIDE DEF g
<1>2. Spells(g, kind2, n2, i2)
  <2>1. g = Generated(kind2, n2, i2)
    BY DEF g
  <2> QED BY <2>1, GeneratedParts, Zenon
<1>3. /\ n \in Seq(Tokens) /\ n2 \in Seq(Tokens) /\ Len(n) \in Nat /\ Len(n2) \in Nat
      /\ Len(Fields[i]) \in Nat /\ Len(Fields[i2]) \in Nat
  BY GraphAssumption DEF AnyName
<1>4. i = i2
  <2>1. CASE Len(Fields[i]) <= Len(Fields[i2])
    BY <1>1, <1>2, <2>1, SpellsSuffix
  <2>2. CASE Len(Fields[i2]) <= Len(Fields[i])
    BY <1>1, <1>2, <2>2, SpellsSuffix
  <2> QED BY <1>3, <2>1, <2>2
<1>5. Len(n) = Len(n2) /\ kind = kind2 /\ \A j \in 1..Len(n) : n[j] = n2[j]
  BY <1>1, <1>2, <1>3, <1>4 DEF Spells
<1>6. n = n2
  BY <1>3, <1>5, SeqEqual
<1> QED BY <1>4, <1>5, <1>6

-----------------------------------------------------------------------------
(* The config that is given.                                               *)

\* What GraphAssumption says of the config, over Tokens.
LEMMA NamesWiden ==
           /\ Seq(STRING) \subseteq Seq(Tokens) /\ Names \subseteq AnyName
           /\ NetConfigs \subseteq Buildables /\ Buildables \subseteq BuiltConfigs
           /\ \A cfg \in BuiltConfigs : cfg # Placeholder /\ cfg.type # Placeholder.type
           /\ Placeholder = [type |-> "circular reference", refs |-> <<>>]
<1>1. Seq(STRING) \subseteq Seq(Tokens)
  BY DEF Tokens
<1>2. Names \subseteq AnyName
  BY <1>1 DEF Names, AnyName
<1>3. NetRefs \subseteq AnyRefs
  BY <1>2 DEF NetRefs, AnyRefs
<1>4. Seq(NetRefs) \subseteq Seq(AnyRefs)
  BY <1>3
<1>5. NetConfigs \subseteq BuiltConfigs
  <2>1. STRING \subseteq Tokens
    BY DEF Tokens
  <2> QED BY <1>4, <2>1, GraphAssumption DEF BuiltConfigs
<1>6. NetConfigs \subseteq Buildables
  BY <1>5, GraphAssumption DEF Buildables
<1>7. \A cfg \in BuiltConfigs : cfg # Placeholder /\ cfg.type # Placeholder.type
  BY DEF BuiltConfigs
<1> QED BY <1>1, <1>2, <1>6, <1>7 DEF Buildables, Placeholder

\* The config that is given has no name that the build would generate.
LEMMA ConfigStarts ==
    ASSUME GraphInit
    PROVE  /\ config = [n \in DOMAIN config |-> config[n]] /\ DOMAIN config \subseteq AnyName
           /\ \A n \in DOMAIN config : config[n] \in Buildables
           /\ NamesFresh
<1> DEFINE net == given.net
           D == DOMAIN net \cup DefaultNets
           e == [type |-> "loaded", refs |-> <<>>]
<1>1. given \in Configs /\ config = [n \in D |-> IF n \in DOMAIN net THEN net[n] ELSE e]
  BY DEF GraphInit, init_default_net
<1>2. \A n \in DOMAIN net :
        n \in Names /\ net[n] \in NetConfigs /\ (Len(n) > 1 => n[1] \notin {"net", "server"})
  BY <1>1, GraphAssumption
<1>3. \A n \in DefaultNets : n \in AnyName /\ Len(n) = 1
  <2>1. \A n \in DefaultNets : n \in Seq(Tokens) /\ Len(n) = 1
    <3>1. \A t \in Tokens : <<t>> \in Seq(Tokens) /\ Len(<<t>>) = 1
      OBVIOUS
    <3>2. "noop" \in Tokens /\ "blackhole" \in Tokens /\ "local" \in Tokens
      BY DEF Tokens
    <3> QED BY ONLY <3>1, <3>2, Zenon DEF DefaultNets
  <2> QED BY <2>1 DEF AnyName, NoName
<1>4. e \in Buildables
  <2> DEFINE none == <<>>
  <2>1. none \in Seq(AnyRefs) /\ Len(none) = 0
    OBVIOUS
  <2>2. "loaded" \in Tokens \ {Placeholder.type}
    BY NamesWiden DEF Tokens
  <2>3. 0 <= Len(Fields)
    BY GraphAssumption
  <2> HIDE DEF none
  <2>4. [type |-> "loaded", refs |-> none] \in Buildables
    BY <2>1, <2>2, <2>3 DEF Buildables, BuiltConfigs
  <2> QED BY <2>4 DEF none
<1> HIDE DEF e
<1>5. \A n \in DOMAIN config : config[n] \in Buildables
  BY <1>1, <1>2, <1>4, NamesWiden
<1>6. DOMAIN config \subseteq AnyName
  BY <1>1, <1>2, <1>3, NamesWiden
<1>7. NamesFresh
  <2> SUFFICES ASSUME NEW kind \in {"net", "server"}, NEW n \in AnyName, NEW i \in DOMAIN Fields,
                      Generated(kind, n, i) \in DOMAIN config
               PROVE  FALSE
    BY DEF NamesFresh
  <2> DEFINE g == Generated(kind, n, i)
  <2>1. Spells(g, kind, n, i)
    BY GeneratedParts, Zenon
  <2>2. Len(n) \in Nat /\ Len(Fields[i]) \in Nat
    BY GraphAssumption DEF AnyName
  <2> HIDE DEF g
  <2>3. Len(g) > 1 /\ g[1] \in {"net", "server"}
    BY <2>1, <2>2 DEF Spells
  <2>4. g \in D
    BY <1>1 DEF g
  <2> QED BY <1>2, <1>3, <2>3, <2>4
<1> QED BY <1>1, <1>5, <1>6, <1>7

\* Nothing is built yet.
LEMMA GraphStarts ==
    ASSUME GraphInit
    PROVE  GraphInv
<1> USE DEF GraphInit
<1>1. GraphTyped
  <2>1. given.server \in Seq([name : AnyName, cfg : NetConfigs])
    <3>1. given.server \in Seq([name : Names, cfg : NetConfigs])
      BY GraphAssumption
    <3>2. [name : Names, cfg : NetConfigs] \subseteq [name : AnyName, cfg : NetConfigs]
      BY NamesWiden
    <3> DEFINE A == [name : Names, cfg : NetConfigs]
               B == [name : AnyName, cfg : NetConfigs]
    <3>3. given.server \in Seq(A) /\ A \subseteq B
      BY <3>1, <3>2
    <3> HIDE DEF A, B
    <3>4. given.server \in Seq(B)
      BY <3>3
    <3> QED BY <3>4 DEF B
  <2>2. /\ stack = <<>> /\ objs = <<>> /\ served = <<>> /\ phase = "build" /\ given \in Configs
        /\ todo = given.server
    OBVIOUS
  <2>3. \A S : <<>> \in Seq(S) /\ Len(<<>>) = 0 /\ DOMAIN <<>> = {}
    OBVIOUS
  <2> QED BY <2>1, <2>2, <2>3 DEF GraphTyped
<1>2. Walking
  <2> DEFINE c == EmptyStrings
  <2>1. Packed(c) /\ Strings(c) = <<>>
    BY DEF EmptyStrings, Packed, Strings
  <2> HIDE DEF c
  <2>2. req = [on |-> 0, via |-> {}, list |-> c, path |-> <<>>] /\ objs = <<>> /\ Len(<<>>) = 0
    BY DEF NoRequest, c
  <2> QED BY <2>1, <2>2 DEF Walking
<1>3. DOMAIN stack = {} /\ DOMAIN cache = {} /\ Len(objs) = 0 /\ stack = <<>> /\ cache = <<>>
  OBVIOUS
<1>4. NetsDescribed
  BY <1>3, ConfigStarts DEF NetsDescribed
<1>5. PlacesHeld /\ CalledOnce
  BY <1>3, ConfigStarts DEF PlacesHeld, CalledOnce
<1>6. CallsAdvance
  <2>1. \A i, j \in DOMAIN todo : todo[i].name = todo[j].name => i = j
    BY GraphAssumption
  <2> QED BY <1>3, <2>1 DEF CallsAdvance
<1> QED BY <1>1, <1>2, <1>4, <1>5, <1>6, ConfigStarts DEF GraphInv, Built

-----------------------------------------------------------------------------
(* The calls of the build.                                                 *)

\* A call's frame after its current NetRef got a net.
LEMMA AdvanceForm ==
    ASSUME NEW f \in Frames, f.i \in 1..Len(f.cfg.refs), NEW n \in AnyName, NEW id \in Nat
    PROVE  /\ Advance(f, n, id) \in Frames
           /\ Advance(f, n, id).kind = f.kind /\ Advance(f, n, id).name = f.name
           /\ Advance(f, n, id).i = f.i + 1
           /\ Advance(f, n, id).cfg.refs = [f.cfg.refs EXCEPT ![f.i] = Named(n)]
           /\ Advance(f, n, id).cfg.type = f.cfg.type
           /\ Advance(f, n, id).deps = Append(f.deps, id)
<1> DEFINE rs == f.cfg.refs
           qs == [rs EXCEPT ![f.i] = Named(n)]
           ds == Append(f.deps, id)
           g == [kind |-> f.kind, name |-> f.name, cfg |-> [type |-> f.cfg.type, refs |-> qs],
                 i |-> f.i + 1, deps |-> ds]
<1>1. /\ f = [kind |-> f.kind, name |-> f.name, cfg |-> f.cfg, i |-> f.i, deps |-> f.deps]
      /\ f.cfg = [type |-> f.cfg.type, refs |-> rs]
      /\ f.kind \in {"net", "server"} /\ f.name \in AnyName /\ f.i \in Nat /\ f.deps \in Seq(Nat)
      /\ f.cfg.type \in Tokens \ {Placeholder.type} /\ rs \in Seq(AnyRefs)
  BY DEF Frames, BuiltConfigs
<1>2. Advance(f, n, id) = g
  <2> DEFINE a == f.kind
             b == f.name
             c == f.cfg.type
             j == f.i
             d == f.deps
             h == [kind |-> a, name |-> b, cfg |-> [type |-> c, refs |-> rs], i |-> j, deps |-> d]
  <2>1. f = h
    BY <1>1
  <2> HIDE DEF a, b, c, j, d, rs
  <2> DEFINE k == [type |-> c, refs |-> [rs EXCEPT ![j] = Named(n)]]
             h1 == [h EXCEPT !.cfg.refs[j] = Named(n)]
             h2 == [h1 EXCEPT !.deps = Append(d, id)]
             h3 == [h2 EXCEPT !.i = j + 1]
  <2>4. h1 = [kind |-> a, name |-> b, cfg |-> k, i |-> j, deps |-> d]
    OBVIOUS
  <2>5. h.i = j /\ h.deps = d
    OBVIOUS
  <2>6. [h EXCEPT !.cfg.refs[h.i] = Named(n), !.deps = Append(@, id), !.i = @ + 1] = h3
    <3>1. [h EXCEPT !.cfg.refs[h.i] = Named(n), !.deps = Append(@, id), !.i = @ + 1]
          = [[[h EXCEPT !.cfg.refs[h.i] = Named(n)] EXCEPT !.deps = Append(@, id)] EXCEPT !.i = @ + 1]
      OBVIOUS
    <3>2. h1.deps = d /\ h2.i = j
      OBVIOUS
    <3> HIDE DEF h
    <3> QED BY <2>5, <3>1, <3>2
  <2> HIDE DEF h1, k
  <2> DEFINE e == Append(d, id)
             m == j + 1
  <2>7. h2 = [kind |-> a, name |-> b, cfg |-> k, i |-> j, deps |-> e]
    BY <2>4
  <2>9. h3 = [h2 EXCEPT !.i = m]
    OBVIOUS
  <2> HIDE DEF h2, h3, e, m
  <2>8. h3 = [kind |-> a, name |-> b, cfg |-> k, i |-> m, deps |-> e]
    BY <2>7, <2>9
  <2>3. Advance(h, n, id) = [kind |-> a, name |-> b, cfg |-> [type |-> c, refs |-> [rs EXCEPT ![j] = Named(n)]],
                             i |-> j + 1, deps |-> Append(d, id)]
    BY <2>6, <2>8 DEF Advance, k, e, m
  <2> HIDE DEF h
  <2> QED BY <2>1, <2>3 DEF a, b, c, j, d, rs
<1>3. Named(n) \in AnyRefs
  BY DEF Named, AnyRefs
<1>4. qs \in Seq(AnyRefs)
  <2> HIDE DEF rs
  <2> QED BY <1>1, <1>3
<1>5. ds \in Seq(Nat)
  BY <1>1
<1> HIDE DEF qs, ds
<1>6. g \in Frames
  BY <1>1, <1>4, <1>5 DEF Frames, BuiltConfigs
<1>7. g.kind = f.kind /\ g.name = f.name /\ g.i = f.i + 1 /\ g.cfg.refs = qs /\ g.cfg.type = f.cfg.type /\ g.deps = ds
  OBVIOUS
<1> QED BY <1>2, <1>6, <1>7 DEF qs, ds

\* The NetRef that got a net is resolved.
LEMMA AdvanceResolves ==
    ASSUME NEW S, NEW os \in Seq(S), NEW f \in Frames, Resolved(f, os), f.i \in 1..Len(f.cfg.refs),
           NEW n \in AnyName, NEW id \in 1..Len(os), os[id].name = n
    PROVE  Resolved(Advance(f, n, id), os)
<1> DEFINE rs == f.cfg.refs
           g == Advance(f, n, id)
<1>1. rs \in Seq(AnyRefs) /\ f.deps \in Seq(Nat) /\ f.i \in Nat /\ Len(rs) \in Nat /\ Len(os) \in Nat
  BY DEF Frames, BuiltConfigs
<1>2. g.i = f.i + 1 /\ g.cfg.refs = [rs EXCEPT ![f.i] = Named(n)] /\ g.deps = Append(f.deps, id)
  <2>1. id \in Nat
    BY <1>1
  <2> QED BY ONLY <2>1, f \in Frames, f.i \in 1..Len(f.cfg.refs), n \in AnyName, AdvanceForm, Zenon DEF g, rs
<1>3. /\ Len(rs) <= Len(Fields) /\ f.i \in 1..Len(rs) /\ Len(f.deps) = f.i - 1
      /\ \A j \in 1..(f.i - 1) : f.deps[j] \in 1..Len(os) /\ rs[j] = Named(os[f.deps[j]].name)
  BY DEF Resolved
<1> HIDE DEF rs, g
<1>4. Len(g.cfg.refs) = Len(rs) /\ \A j \in 1..Len(rs) : g.cfg.refs[j] = IF j = f.i THEN Named(n) ELSE rs[j]
  BY <1>1, <1>2
<1>5. Len(g.deps) = f.i /\ g.deps[f.i] = id /\ \A j \in 1..(f.i - 1) : g.deps[j] = f.deps[j]
  BY <1>1, <1>2, <1>3
<1>6. g.i \in 1..(Len(rs) + 1) /\ Len(g.deps) = g.i - 1 /\ g.i - 1 = f.i
  BY <1>1, <1>2, <1>3, <1>5
<1>7. ASSUME NEW j \in 1..f.i
      PROVE  g.deps[j] \in 1..Len(os) /\ g.cfg.refs[j] = Named(os[g.deps[j]].name)
  <2>1. CASE j = f.i
    BY <1>3, <1>4, <1>5, <2>1
  <2>2. CASE j # f.i
    <3>1. j \in 1..(f.i - 1) /\ j \in 1..Len(rs)
      BY <1>1, <1>3, <2>2
    <3> QED BY <1>3, <1>4, <1>5, <2>2, <3>1
  <2> QED BY <2>1, <2>2
<1> QED BY <1>3, <1>4, <1>6, <1>7 DEF Resolved, g

\* A new RunningNet, or a new net in an old one, keeps what was resolved.
LEMMA ResolvedKept ==
    ASSUME NEW os, NEW ps, Len(os) \in Nat, Len(ps) \in Nat, Len(os) <= Len(ps),
           \A i \in 1..Len(os) : ps[i].name = os[i].name
    PROVE  /\ \A f : Resolved(f, os) => Resolved(f, ps)
           /\ \A deps, refs : Describes(deps, refs, os) => Describes(deps, refs, ps)
<1>1. \A i \in 1..Len(os) : i \in 1..Len(ps) /\ ps[i].name = os[i].name
  OBVIOUS
<1>2. ASSUME NEW f, Resolved(f, os) PROVE Resolved(f, ps)
  BY <1>1, <1>2 DEF Resolved
<1>3. ASSUME NEW deps, NEW refs, Describes(deps, refs, os) PROVE Describes(deps, refs, ps)
  BY <1>1, <1>3 DEF Describes
<1> QED BY <1>2, <1>3

\* The last calls return and the one below them goes on.
LEMMA TopReplaced ==
    ASSUME NEW S, NEW s \in Seq(S), s # <<>>, NEW x \in S
    PROVE  /\ Append(Front(s), x) \in Seq(S) /\ Len(Append(Front(s), x)) = Len(s) /\ Len(s) > 0
           /\ Append(Front(s), x)[Len(s)] = x
           /\ \A k \in 1..(Len(s) - 1) : Append(Front(s), x)[k] = s[k]
           /\ Front(s) \in Seq(S) /\ Len(Front(s)) = Len(s) - 1
           /\ \A k \in 1..(Len(s) - 1) : Front(s)[k] = s[k]
<1> DEFINE f == Front(s)
           l == Len(s)
<1>1. l \in Nat /\ l > 0
  OBVIOUS
<1>2. f \in Seq(S) /\ Len(f) = l - 1 /\ \A k \in 1..(l - 1) : f[k] = s[k]
  <2> DEFINE m == l - 1
  <2>1. m \in Nat /\ m <= Len(s)
    BY <1>1
  <2>2. f = SubSeq(s, 1, m)
    BY DEF Front
  <2> HIDE DEF m, f
  <2>3. f \in Seq(S) /\ Len(f) = m /\ \A k \in 1..m : f[k] = s[k]
    BY <2>1, <2>2
  <2> QED BY <2>3 DEF m
<1> HIDE DEF f, l
<1> DEFINE g == Append(f, x)
<1>3. g \in Seq(S) /\ Len(g) = Len(f) + 1 /\ (\A k \in 1..Len(f) : g[k] = f[k]) /\ g[Len(f) + 1] = x
  BY ONLY <1>2, x \in S, AppendProperties, SMT
<1> HIDE DEF g
<1>4. Len(g) = l /\ g[l] = x /\ \A k \in 1..(l - 1) : g[k] = s[k]
  BY <1>1, <1>2, <1>3
<1> QED BY <1>1, <1>2, <1>3, <1>4 DEF f, g, l

\* While the graph is built no request is on its way.
LEMMA BuildStepWalks ==
    ASSUME GraphInv, phase = "build", req' = req, Len(objs') \in Nat
    PROVE  Walking'
  BY DEF GraphInv, Walking

\* A build that fails is over: only the types and the request matter from then on.
LEMMA FailKeeps ==
    ASSUME GraphInv, phase = "build", Fail
    PROVE  GraphInv'
<1>1. UNCHANGED <<given, todo, stack, cache, objs, served, req>> /\ phase' = "failed"
  BY DEF Fail
<1>2. Len(objs) \in Nat
  BY DEF GraphInv, GraphTyped
<1>3. GraphTyped'
  BY <1>1 DEF GraphInv, GraphTyped
<1> QED BY <1>1, <1>2, <1>3, BuildStepWalks DEF GraphInv

\* A server's NetRefs are visited from the first on.
LEMMA BuildServerKeeps ==
    ASSUME GraphInv, BuildServer
    PROVE  GraphInv'
<1> DEFINE h == Head(todo)
           f == Frame("server", h.name, h.cfg)
<1>1. phase = "build" /\ stack = <<>> /\ todo # <<>>
  BY DEF BuildServer
<1>2. CASE ~Registered(h.cfg.type)
  BY <1>1, <1>2, FailKeeps DEF BuildServer
<1>3. CASE Registered(h.cfg.type)
  <2>1. stack' = <<f>> /\ UNCHANGED <<given, config, todo, cache, objs, served, phase, req>>
    BY <1>3 DEF BuildServer
  <2>2. GraphTyped /\ Built
    BY <1>1 DEF GraphInv
  <2>3. h.name \in AnyName /\ h.cfg \in Buildables /\ h = todo[1] /\ Len(objs) \in Nat /\ 1 \in DOMAIN todo
    <3>1. todo \in Seq([name : AnyName, cfg : NetConfigs]) /\ Len(objs) \in Nat
      BY <2>2 DEF GraphTyped
    <3>2. h \in [name : AnyName, cfg : NetConfigs] /\ h = todo[1] /\ 1 \in DOMAIN todo
      <4> DEFINE T == [name : AnyName, cfg : NetConfigs]
      <4>1. todo \in Seq(T) /\ todo # <<>>
        BY <1>1, <3>1
      <4> HIDE DEF T
      <4>2. h \in T /\ h = todo[1] /\ 1 \in DOMAIN todo
        BY <4>1
      <4> QED BY <4>2 DEF T
    <3> HIDE DEF h
    <3> QED BY <3>1, <3>2, NamesWiden
  <2> HIDE DEF h
  <2>4. /\ f \in Frames /\ f.kind = "server" /\ f.name = h.name /\ f.i = 1 /\ f.cfg = h.cfg /\ f.deps = <<>>
        /\ Resolved(f, objs)
    <3> DEFINE none == <<>>
    <3>1. none \in Seq(Nat) /\ Len(none) = 0
      OBVIOUS
    <3> HIDE DEF none
    <3>2. f = [kind |-> "server", name |-> h.name, cfg |-> h.cfg, i |-> 1, deps |-> none]
      BY DEF Frame, none
    <3> HIDE DEF f
    <3>3. /\ f \in Frames /\ f.kind = "server" /\ f.name = h.name /\ f.i = 1 /\ f.cfg = h.cfg /\ f.deps = none
      BY <2>3, <3>1, <3>2, NamesWiden DEF Frames
    <3>4. h.cfg.refs \in Seq(AnyRefs) /\ Len(h.cfg.refs) <= Len(Fields)
      BY <2>3 DEF Buildables, BuiltConfigs
    <3>5. Resolved(f, objs)
      BY <3>1, <3>3, <3>4 DEF Resolved
    <3> QED BY <3>3, <3>5 DEF none
  <2> HIDE DEF f
  <2>5. stack' \in Seq(Frames) /\ Len(stack') = 1 /\ stack'[1] = f /\ DOMAIN stack' = {1} /\ stack' # <<>>
    BY <2>1, <2>4
  <2>6. GraphTyped'
    BY <2>1, <2>2, <2>5 DEF GraphTyped
  <2>7. NetsDescribed'
    BY <2>1, <2>2 DEF Built, NetsDescribed
  <2>8. DOMAIN stack = {}
    BY <1>1
  <2>9. PlacesHeld' /\ CalledOnce'
    BY <2>1, <2>2, <2>4, <2>5, <2>8 DEF Built, PlacesHeld, CalledOnce
  <2>10. CallsAdvance'
    BY <1>1, <2>1, <2>2, <2>3, <2>4, <2>5 DEF Built, CallsAdvance
  <2>11. NamesFresh'
    <3>1. \A kind, n, i : Met(kind, n, i) => Met(kind, n, i)'
      BY <2>1, <2>8 DEF Met
    <3> QED BY <2>1, <2>2, <3>1 DEF Built, NamesFresh
  <2> QED BY <1>1, <2>1, <2>3, <2>6, <2>7, <2>9, <2>10, <2>11, BuildStepWalks DEF GraphInv, Built
<1> QED BY <1>2, <1>3

-----------------------------------------------------------------------------
(* get_net.                                                                *)

\* The call on top of the others.
LEMMA TopCall ==
    ASSUME GraphInv, Building
    PROVE  /\ phase = "build" /\ stack # <<>> /\ GraphTyped /\ Built
           /\ Len(stack) \in Nat /\ Len(stack) > 0 /\ Len(stack) \in DOMAIN stack /\ DOMAIN stack = 1..Len(stack)
           /\ stack \in Seq(Frames) /\ Top = stack[Len(stack)] /\ Top \in Frames
           /\ Resolved(Top, objs) /\ Len(objs) \in Nat /\ Top.i \in Nat /\ Len(Top.cfg.refs) \in Nat
           /\ Top.kind \in {"net", "server"} /\ Top.name \in AnyName /\ Top.deps \in Seq(Nat)
           /\ Top.cfg \in BuiltConfigs /\ Top.cfg.refs \in Seq(AnyRefs)
<1>1. phase = "build" /\ stack # <<>> /\ GraphTyped /\ Built
  BY DEF GraphInv, Building
<1>2. stack \in Seq(Frames) /\ Len(objs) \in Nat
  BY <1>1 DEF GraphTyped
<1>3. Len(stack) \in Nat /\ Len(stack) > 0 /\ Len(stack) \in DOMAIN stack /\ DOMAIN stack = 1..Len(stack)
  BY <1>1, <1>2
<1>4. Top = stack[Len(stack)]
  BY DEF Top, Last
<1>5. Top \in Frames
  BY <1>2, <1>3, <1>4
<1>6. Resolved(Top, objs)
  BY <1>1, <1>3, <1>4 DEF Built, CallsAdvance
<1>7. /\ Top.i \in Nat /\ Top.kind \in {"net", "server"} /\ Top.name \in AnyName /\ Top.deps \in Seq(Nat)
      /\ Top.cfg \in BuiltConfigs /\ Top.cfg.refs \in Seq(AnyRefs)
  BY <1>5 DEF Frames, BuiltConfigs
<1> QED BY <1>1, <1>2, <1>3, <1>4, <1>5, <1>6, <1>7

\* The field that is visited has not been met: its generated name is free.
LEMMA FieldFresh ==
    ASSUME GraphInv, Visiting
    PROVE  Top.i \in DOMAIN Fields /\ Generated(Top.kind, Top.name, Top.i) \notin DOMAIN config
<1> DEFINE kd == Top.kind
           nm == Top.name
           i == Top.i
           top == Len(stack)
<1>1. Building /\ i <= Len(Top.cfg.refs)
  BY DEF Visiting
<1>2. /\ GraphTyped /\ Built /\ top \in DOMAIN stack /\ DOMAIN stack = 1..top /\ top \in Nat /\ Top = stack[top]
      /\ Resolved(Top, objs) /\ i \in Nat /\ kd \in {"net", "server"} /\ nm \in AnyName /\ stack # <<>>
      /\ Len(Top.cfg.refs) \in Nat
  BY <1>1, TopCall
<1>3. i \in 1..Len(Top.cfg.refs) /\ i \in DOMAIN Fields
  <2>1. Len(Top.cfg.refs) <= Len(Fields) /\ 1 <= i
    BY <1>2 DEF Resolved
  <2>2. Len(Fields) \in Nat /\ DOMAIN Fields = 1..Len(Fields)
    BY GraphAssumption
  <2> QED BY <1>1, <1>2, <2>1, <2>2
<1>4. ASSUME Generated(kd, nm, i) \in DOMAIN config PROVE FALSE
  <2>1. Met(kd, nm, i)
    BY <1>2, <1>3, <1>4 DEF Built, NamesFresh
  <2>2. CASE kd = "net" /\ nm \in DOMAIN cache
    BY <1>2, <2>2 DEF Built, PlacesHeld
  <2>3. CASE kd = "server" /\ \A j \in DOMAIN todo : todo[j].name # nm
    <3>1. top = 1 /\ todo # <<>> /\ stack[1].name = todo[1].name
      BY <1>2, <2>3 DEF Built, CallsAdvance
    <3>2. 1 \in DOMAIN todo
      <4> DEFINE T == [name : AnyName, cfg : NetConfigs]
      <4>1. todo \in Seq(T)
        BY <1>2 DEF GraphTyped
      <4> HIDE DEF T
      <4> QED BY <3>1, <4>1
    <3> QED BY <1>2, <2>3, <3>1, <3>2
  <2>4. CASE \E k \in DOMAIN stack :
               /\ stack[k].kind = kd /\ stack[k].name = nm
               /\ i < stack[k].i \/ (i = stack[k].i /\ k < Len(stack))
    <3>1. PICK k \in DOMAIN stack :
               /\ stack[k].kind = kd /\ stack[k].name = nm
               /\ i < stack[k].i \/ (i = stack[k].i /\ k < top)
      BY <2>4
    <3>2. k = top
      BY <1>2, <3>1 DEF Built, CalledOnce
    <3> QED BY <1>2, <3>1, <3>2
  <2> QED BY <2>1, <2>2, <2>3, <2>4 DEF Met
<1> QED BY <1>3, <1>4

\* get_net: the net the NetRef stands for, and what it adds to the config.
LEMMA RefForms ==
    ASSUME GraphInv, Visiting
    PROVE  /\ RefName \in AnyName
           /\ RefConfig = [n \in DOMAIN RefConfig |-> RefConfig[n]]
           /\ DOMAIN config \subseteq DOMAIN RefConfig /\ DOMAIN RefConfig \subseteq DOMAIN config \cup {RefName}
           /\ \A n \in DOMAIN config : RefConfig[n] = config[n]
           /\ RefName \in DOMAIN RefConfig \ DOMAIN config =>
                RefConfig[RefName] \in NetConfigs /\ RefName = Generated(Top.kind, Top.name, Top.i)
<1> DEFINE ref == Top.cfg.refs[Top.i]
           g == Generated(Top.kind, Top.name, Top.i)
<1>1. Building /\ Top.i <= Len(Top.cfg.refs)
  BY DEF Visiting
<1>2. ref \in AnyRefs
  <2>1. Top.cfg.refs \in Seq(AnyRefs) /\ Top.i \in Nat /\ Len(Top.cfg.refs) \in Nat /\ Resolved(Top, objs)
    BY <1>1, TopCall
  <2>2. Top.i \in 1..Len(Top.cfg.refs)
    BY <1>1, <2>1 DEF Resolved
  <2> DEFINE rs == Top.cfg.refs
             j == Top.i
  <2> HIDE DEF rs, j
  <2>3. rs[j] \in AnyRefs
    BY <2>1, <2>2 DEF rs, j
  <2> QED BY <2>3 DEF rs, j
<1>3. Built
  BY <1>1, TopCall
<1>4. config = [n \in DOMAIN config |-> config[n]]
  BY <1>3 DEF Built, NetsDescribed
<1>5. CASE ref \in [name : AnyName, inner : {<<>>}]
  <2>1. ref.name \in AnyName /\ ref.name # NoName
    BY <1>5 DEF AnyName
  <2>2. RefName = ref.name /\ RefConfig = config
    BY <2>1 DEF RefName, RefConfig
  <2> QED BY <1>4, <2>1, <2>2
<1>6. CASE ref \in {Inline(net) : net \in NetConfigs}
  <2>1. PICK net \in NetConfigs : ref = Inline(net)
    BY <1>6
  <2>2. ref.name = NoName /\ ref.inner[1] = net
    BY <2>1 DEF Inline
  <2>3. Top.i \in DOMAIN Fields /\ g \notin DOMAIN config
    BY FieldFresh
  <2>4. Top.kind \in {"net", "server"} /\ Top.name \in AnyName /\ Top.name \in Seq(Tokens)
    BY <1>1, TopCall DEF AnyName
  <2>5. RefName = g
    BY <2>2, <2>3, <2>4, GeneratedForm DEF RefName
  <2>6. g \in AnyName
    BY <2>3, <2>4, GeneratedParts
  <2>7. RefConfig = [n \in DOMAIN config \cup {RefName} |-> IF n = RefName THEN net ELSE config[n]]
    BY <2>2 DEF RefConfig
  <2> HIDE DEF g
  <2>8. DOMAIN RefConfig = DOMAIN config \cup {RefName} /\ RefConfig[RefName] = net
    BY <2>7
  <2>9. \A n \in DOMAIN config : RefConfig[n] = config[n]
    BY <2>3, <2>5, <2>7
  <2>10. RefConfig = [n \in DOMAIN RefConfig |-> RefConfig[n]]
    BY <2>7
  <2> QED BY <2>5, <2>6, <2>8, <2>9, <2>10 DEF g
<1> QED BY <1>2, <1>5, <1>6 DEF AnyRefs

\* The call on top goes on to its next field with a net that runs.
LEMMA RefCachedKeeps ==
    ASSUME GraphInv, RefCached
    PROVE  GraphInv'
<1> DEFINE id == cache[RefName]
           g == Advance(Top, RefName, id)
           top == Len(stack)
<1>1. Visiting /\ Building /\ RefName \in DOMAIN cache /\ Top.i <= Len(Top.cfg.refs)
  BY DEF RefCached, Visiting
<1>2. /\ stack' = Append(Front(stack), g) /\ config' = RefConfig
      /\ UNCHANGED <<given, todo, cache, objs, served, phase, req>>
  BY DEF RefCached
<1>3. /\ phase = "build" /\ stack # <<>> /\ GraphTyped /\ Built /\ top \in Nat /\ top > 0 /\ DOMAIN stack = 1..top
      /\ stack \in Seq(Frames) /\ Top = stack[top] /\ Top \in Frames /\ Resolved(Top, objs) /\ Len(objs) \in Nat
      /\ Top.i \in Nat /\ Len(Top.cfg.refs) \in Nat
  BY <1>1, TopCall
<1>4. /\ DOMAIN cache \subseteq DOMAIN config /\ id \in 1..Len(objs) /\ objs[id].name = RefName
      /\ config = [n \in DOMAIN config |-> config[n]]
  BY <1>1, <1>3 DEF Built, NetsDescribed
<1>5. /\ RefName \in AnyName
      /\ RefConfig = [n \in DOMAIN RefConfig |-> RefConfig[n]]
      /\ DOMAIN config \subseteq DOMAIN RefConfig /\ DOMAIN RefConfig \subseteq DOMAIN config \cup {RefName}
      /\ \A n \in DOMAIN config : RefConfig[n] = config[n]
  BY <1>1, RefForms
<1>6. config' = config
  <2>1. DOMAIN RefConfig = DOMAIN config
    BY <1>1, <1>4, <1>5
  <2> DEFINE c == RefConfig
             d == config
  <2>2. c = [n \in DOMAIN c |-> c[n]] /\ d = [n \in DOMAIN d |-> d[n]] /\ DOMAIN c = DOMAIN d /\ \A n \in DOMAIN d : c[n] = d[n]
    BY <1>4, <1>5, <2>1
  <2> HIDE DEF c, d
  <2>3. c = d
    BY <2>2
  <2> QED BY <1>2, <2>3 DEF c, d
<1>7. Top.i \in 1..Len(Top.cfg.refs) /\ id \in Nat
  BY <1>1, <1>3, <1>4 DEF Resolved
<1>8. g \in Frames /\ g.kind = Top.kind /\ g.name = Top.name /\ g.i = Top.i + 1
  <2> HIDE DEF id
  <2>1. Top \in Frames /\ Top.i \in 1..Len(Top.cfg.refs) /\ RefName \in AnyName /\ id \in Nat
    BY <1>3, <1>5, <1>7
  <2> QED BY ONLY <2>1, AdvanceForm, Zenon DEF g
<1>9. Resolved(g, objs)
  <2>1. objs \in Seq([name : AnyName, deps : Seq(Nat)])
    BY <1>3 DEF GraphTyped
  <2> DEFINE S == [name : AnyName, deps : Seq(Nat)]
  <2>2. objs \in Seq(S)
    BY <2>1
  <2> HIDE DEF S
  <2> QED BY <1>3, <1>4, <1>5, <1>7, <2>2, AdvanceResolves
<1> HIDE DEF g
<1>10. /\ stack' \in Seq(Frames) /\ Len(stack') = top /\ stack'[top] = g
       /\ \A k \in 1..(top - 1) : stack'[k] = stack[k]
  <2>1. stack \in Seq(Frames) /\ stack # <<>> /\ g \in Frames
    BY <1>3, <1>8
  <2>2. /\ Append(Front(stack), g) \in Seq(Frames) /\ Len(Append(Front(stack), g)) = Len(stack)
        /\ Append(Front(stack), g)[Len(stack)] = g
        /\ \A k \in 1..(Len(stack) - 1) : Append(Front(stack), g)[k] = stack[k]
    BY ONLY <2>1, TopReplaced
  <2> QED BY ONLY <1>2, <2>2, Zenon DEF top
<1> HIDE DEF id, top
<1>11. DOMAIN stack' = 1..top /\ stack' # <<>>
  BY <1>3, <1>10
<1>12. \A k \in 1..top : stack'[k].kind = stack[k].kind /\ stack'[k].name = stack[k].name
                        /\ (k < top => stack'[k] = stack[k]) /\ (k = top => stack'[k] = g)
  <2> TAKE k \in 1..top
  <2>1. CASE k = top
    BY <1>3, <1>8, <1>10, <2>1
  <2>2. CASE k # top
    <3>1. k \in 1..(top - 1)
      BY <1>3, <2>2
    <3> QED BY <1>10, <2>2, <3>1
  <2> QED BY <2>1, <2>2
<1>13. GraphTyped'
  BY <1>2, <1>3, <1>10 DEF GraphTyped
<1>14. NetsDescribed'
  BY <1>2, <1>3, <1>6 DEF Built, NetsDescribed
<1>15. PlacesHeld' /\ CalledOnce'
  BY <1>2, <1>3, <1>6, <1>11, <1>12 DEF Built, PlacesHeld, CalledOnce
<1>16. CallsAdvance'
  <2>1. \A k \in DOMAIN stack' :
         /\ stack'[k].kind = "server" <=> k = 1
         /\ Resolved(stack'[k], objs)
         /\ k < Len(stack') => stack'[k].i <= Len(stack'[k].cfg.refs)
    <3> TAKE k \in DOMAIN stack'
    <3>1. k \in DOMAIN stack /\ k \in 1..top
      BY <1>3, <1>11
    <3>2. CASE k = top
      BY <1>3, <1>9, <1>10, <1>12, <3>1, <3>2 DEF Built, CallsAdvance
    <3>3. CASE k # top
      <4>1. k < top /\ stack'[k] = stack[k]
        BY <1>3, <1>12, <3>1, <3>3
      <4> QED BY <1>3, <3>1, <4>1 DEF Built, CallsAdvance, top
    <3> QED BY <3>2, <3>3
  <2>2. stack'[1].name = stack[1].name
    BY <1>3, <1>12
  <2> QED BY <1>2, <1>3, <1>11, <2>1, <2>2 DEF Built, CallsAdvance
<1>17. NamesFresh'
  <2>1. ASSUME NEW kind, NEW n, NEW i \in Nat, Met(kind, n, i) PROVE Met(kind, n, i)'
    <3>1. ASSUME NEW k \in DOMAIN stack, stack[k].kind = kind, stack[k].name = n,
                 i < stack[k].i \/ (i = stack[k].i /\ k < Len(stack))
          PROVE  Met(kind, n, i)'
      <4>1. k \in 1..top /\ k \in DOMAIN stack'
        BY <1>3, <1>11
      <4>3. stack[k].i \in Nat
        <5>1. stack[k] \in Frames
          BY <1>3
        <5> QED BY <5>1 DEF Frames
      <4>2. i < stack'[k].i \/ (i = stack'[k].i /\ k < Len(stack'))
        <5>1. CASE k = top
          <6>1. stack'[k].i = stack[k].i + 1
            BY <1>3, <1>8, <1>12, <4>1, <5>1
          <6>2. i <= stack[k].i
            BY <3>1, <4>3
          <6> DEFINE x == stack[k].i
                     y == stack'[k].i
          <6>3. x \in Nat /\ i \in Nat /\ y = x + 1 /\ i <= x
            BY <4>3, <6>1, <6>2
          <6> HIDE DEF x, y
          <6>4. i < y
            BY <6>3
          <6> QED BY <6>4 DEF y
        <5>2. CASE k # top
          <6>1. k < top /\ stack'[k] = stack[k]
            BY <1>3, <1>12, <4>1, <5>2
          <6> QED BY <1>10, <3>1, <6>1 DEF top
        <5> QED BY <5>1, <5>2
      <4> QED BY <1>12, <3>1, <4>1, <4>2 DEF Met
    <3> QED BY <1>2, <2>1, <3>1 DEF Met
  <2>2. DOMAIN Fields \subseteq Nat
    BY GraphAssumption
  <2> QED BY <1>3, <1>6, <2>1, <2>2 DEF Built, NamesFresh
<1> QED BY <1>2, <1>3, <1>13, <1>14, <1>15, <1>16, <1>17, BuildStepWalks DEF GraphInv, Built

\* A net that is nowhere ends the build.
LEMMA RefMissingKeeps ==
    ASSUME GraphInv, RefMissing
    PROVE  GraphInv'
  BY FailKeeps DEF RefMissing, Visiting, Building

\* A call that starts has resolved nothing.
LEMMA FrameForm ==
    ASSUME NEW kind \in {"net", "server"}, NEW n \in AnyName, NEW cfg \in Buildables, NEW os, Len(os) \in Nat
    PROVE  /\ Frame(kind, n, cfg) \in Frames /\ Resolved(Frame(kind, n, cfg), os)
           /\ Frame(kind, n, cfg).kind = kind /\ Frame(kind, n, cfg).name = n
<1> DEFINE f == Frame(kind, n, cfg)
           none == <<>>
<1>1. none \in Seq(Nat) /\ Len(none) = 0
  OBVIOUS
<1>2. f = [kind |-> kind, name |-> n, cfg |-> cfg, i |-> 1, deps |-> none]
  BY DEF Frame
<1> HIDE DEF f, none
<1>3. cfg \in BuiltConfigs /\ cfg.refs \in Seq(AnyRefs) /\ Len(cfg.refs) <= Len(Fields)
  BY DEF Buildables, BuiltConfigs
<1>4. f \in Frames /\ f.kind = kind /\ f.name = n /\ f.i = 1 /\ f.cfg = cfg /\ f.deps = none
  BY <1>1, <1>2, <1>3 DEF Frames
<1>5. Resolved(f, os)
  BY <1>1, <1>3, <1>4 DEF Resolved
<1> QED BY <1>4, <1>5 DEF f

\* get_net leaves a placeholder for the net and builds it in a call of its own.
LEMMA RefBuildKeeps ==
    ASSUME GraphInv, RefBuild
    PROVE  GraphInv'
<1> DEFINE nm == RefName
           rc == RefConfig
           cfg == RefConfig[RefName]
           g == Frame("net", RefName, cfg)
           top == Len(stack)
<1>1. Visiting /\ Building /\ nm \in DOMAIN rc /\ nm \notin DOMAIN cache /\ Top.i <= Len(Top.cfg.refs)
  BY DEF RefBuild, Visiting
<1>2. /\ phase = "build" /\ stack # <<>> /\ GraphTyped /\ Built /\ top \in Nat /\ top > 0 /\ DOMAIN stack = 1..top
      /\ stack \in Seq(Frames) /\ Top = stack[top] /\ Top \in Frames /\ Resolved(Top, objs) /\ Len(objs) \in Nat
      /\ Top.i \in Nat /\ Len(Top.cfg.refs) \in Nat
      /\ Top.kind \in {"net", "server"} /\ Top.name \in AnyName
  BY <1>1, TopCall
<1>3. CASE ~Registered(cfg.type)
  BY <1>2, <1>3, FailKeeps DEF RefBuild
<1>4. CASE Registered(cfg.type)
  <2>1. /\ config' = [rc EXCEPT ![nm] = Placeholder] /\ stack' = Append(stack, g)
        /\ UNCHANGED <<given, todo, cache, objs, served, phase, req>>
    BY <1>4 DEF RefBuild
  <2>2. /\ nm \in AnyName
        /\ rc = [n \in DOMAIN rc |-> rc[n]]
        /\ DOMAIN config \subseteq DOMAIN rc /\ DOMAIN rc \subseteq DOMAIN config \cup {nm}
        /\ \A n \in DOMAIN config : rc[n] = config[n]
        /\ nm \in DOMAIN rc \ DOMAIN config =>
                rc[nm] \in NetConfigs /\ nm = Generated(Top.kind, Top.name, Top.i)
    BY <1>1, RefForms
  <2> HIDE DEF rc, nm
  <2>3. cfg = rc[nm] /\ g = Frame("net", nm, cfg)
    BY DEF rc, nm
  <2> HIDE DEF cfg, g
  <2>4. cfg # Placeholder
    <3>1. Placeholder.type = "circular reference"
      BY DEF Placeholder
    <3>2. cfg.type # Placeholder.type
      BY <1>4, <3>1 DEF Registered
    <3> QED BY <3>2
  <2>5. cfg \in Buildables
    <3>1. CASE nm \in DOMAIN config
      BY <1>1, <1>2, <2>2, <2>3, <2>4, <3>1 DEF Built, PlacesHeld
    <3>2. CASE nm \notin DOMAIN config
      BY <1>1, <2>2, <2>3, <3>2, NamesWiden
    <3> QED BY <3>1, <3>2
  <2>6. g \in Frames /\ Resolved(g, objs) /\ g.kind = "net" /\ g.name = nm
    BY <1>2, <2>2, <2>3, <2>5, FrameForm
  <2>7. /\ stack' \in Seq(Frames) /\ Len(stack') = top + 1 /\ stack'[top + 1] = g
        /\ \A k \in 1..top : stack'[k] = stack[k]
    BY <1>2, <2>1, <2>6
  <2> HIDE DEF top
  <2>8. DOMAIN stack' = 1..(top + 1) /\ stack' # <<>> /\ \A k \in 1..(top + 1) : k \in 1..top \/ k = top + 1
    BY <1>2, <2>7
  <2>9. DOMAIN config' = DOMAIN rc /\ config'[nm] = Placeholder
        /\ \A n \in DOMAIN rc : n # nm => n \in DOMAIN config /\ config'[n] = config[n]
    BY <1>1, <2>1, <2>2
  <2>10. config' = [n \in DOMAIN config' |-> config'[n]]
    BY <2>1
  <2>11. \A k \in 1..top : ~(stack[k].kind = "net" /\ stack[k].name = nm)
    <3> SUFFICES ASSUME NEW k \in 1..top, stack[k].kind = "net", stack[k].name = nm
                 PROVE  FALSE
      OBVIOUS
    <3>1. nm \in DOMAIN config /\ config[nm] = Placeholder
      BY <1>2 DEF Built, PlacesHeld
    <3> QED BY <2>2, <2>3, <2>4, <3>1
  <2>12. GraphTyped'
    BY <1>2, <2>1, <2>7 DEF GraphTyped
  <2>13. NetsDescribed'
    <3>1. DOMAIN config' \subseteq AnyName
      BY <1>2, <2>2, <2>9 DEF Built, NetsDescribed
    <3>2. \A n \in DOMAIN cache : n \in DOMAIN config /\ n # nm /\ n \in DOMAIN rc /\ config'[n] = config[n]
      BY <1>1, <1>2, <2>2, <2>9 DEF Built, NetsDescribed
    <3> QED BY <1>2, <2>1, <2>9, <2>10, <3>1, <3>2 DEF Built, NetsDescribed
  <2>14. PlacesHeld'
    <3>1. ASSUME NEW n \in DOMAIN config' \ DOMAIN cache'
          PROVE  \/ config'[n] \in Buildables
                 \/ /\ config'[n] = Placeholder
                    /\ \E k \in DOMAIN stack' : stack'[k].kind = "net" /\ stack'[k].name = n
      <4>1. CASE n = nm
        <5>1. top + 1 \in DOMAIN stack'
          BY <1>2, <2>8
        <5> QED BY <2>6, <2>7, <2>9, <4>1, <5>1
      <4>2. CASE n # nm
        <5>1. n \in DOMAIN config \ DOMAIN cache /\ config'[n] = config[n]
          BY <2>1, <2>9, <3>1, <4>2
        <5>2. CASE config[n] \in Buildables
          BY <5>1, <5>2
        <5>3. CASE config[n] = Placeholder /\ \E k \in DOMAIN stack : stack[k].kind = "net" /\ stack[k].name = n
          <6>1. \A k \in DOMAIN stack : k \in DOMAIN stack' /\ stack'[k] = stack[k]
            BY <1>2, <2>7, <2>8
          <6> QED BY <5>1, <5>3, <6>1
        <5> QED BY <1>2, <5>1, <5>2, <5>3 DEF Built, PlacesHeld
      <4> QED BY <4>1, <4>2
    <3>2. ASSUME NEW k \in DOMAIN stack', stack'[k].kind = "net"
          PROVE  stack'[k].name \in DOMAIN config' \ DOMAIN cache' /\ config'[stack'[k].name] = Placeholder
      <4>1. CASE k = top + 1
        BY <1>1, <2>1, <2>6, <2>7, <2>9, <4>1
      <4>2. CASE k \in 1..top
        <5>1. stack'[k] = stack[k] /\ k \in DOMAIN stack /\ stack[k].kind = "net"
          BY <1>2, <2>7, <3>2, <4>2
        <5>2. stack[k].name \in DOMAIN config \ DOMAIN cache /\ config[stack[k].name] = Placeholder
          BY <1>2, <5>1 DEF Built, PlacesHeld
        <5>3. stack[k].name # nm
          BY <2>11, <4>2, <5>1
        <5> QED BY <2>1, <2>2, <2>9, <5>1, <5>2, <5>3
      <4> QED BY <2>8, <4>1, <4>2
    <3> QED BY <3>1, <3>2 DEF PlacesHeld
  <2>15. CalledOnce'
    <3>1. ASSUME NEW k \in DOMAIN stack', NEW l \in DOMAIN stack',
                 stack'[k].kind = stack'[l].kind, stack'[k].name = stack'[l].name
          PROVE  k = l
      <4>1. CASE k \in 1..top /\ l \in 1..top
        BY <1>2, <2>7, <3>1, <4>1 DEF Built, CalledOnce
      <4>2. CASE k = top + 1 /\ l \in 1..top
        BY <2>6, <2>7, <2>11, <3>1, <4>2
      <4>3. CASE l = top + 1 /\ k \in 1..top
        BY <2>6, <2>7, <2>11, <3>1, <4>3
      <4> QED BY <2>8, <4>1, <4>2, <4>3
    <3> QED BY <3>1 DEF CalledOnce
  <2>16. CallsAdvance'
    <3>1. ASSUME NEW k \in DOMAIN stack'
          PROVE  /\ stack'[k].kind = "server" <=> k = 1
                 /\ Resolved(stack'[k], objs)
                 /\ k < Len(stack') => stack'[k].i <= Len(stack'[k].cfg.refs)
      <4>1. CASE k = top + 1
        BY <1>2, <2>6, <2>7, <4>1
      <4>2. CASE k \in 1..top
        <5>1. stack'[k] = stack[k] /\ k \in DOMAIN stack
          BY <1>2, <2>7, <4>2
        <5>2. CASE k = top
          BY <1>1, <1>2, <5>1, <5>2 DEF Built, CallsAdvance
        <5>3. CASE k # top
          <6>1. k < top
            BY <1>2, <4>2, <5>3
          <6> QED BY <1>2, <5>1, <6>1 DEF Built, CallsAdvance, top
        <5> QED BY <5>2, <5>3
      <4> QED BY <2>8, <4>1, <4>2
    <3>2. stack'[1] = stack[1]
      BY <1>2, <2>7
    <3> QED BY <1>2, <2>1, <2>8, <3>1, <3>2 DEF Built, CallsAdvance
  <2>17. NamesFresh'
    <3>1. ASSUME NEW kind, NEW n, NEW i, Met(kind, n, i) PROVE Met(kind, n, i)'
      <4>1. ASSUME NEW k \in DOMAIN stack, stack[k].kind = kind, stack[k].name = n,
                   i < stack[k].i \/ (i = stack[k].i /\ k < Len(stack))
            PROVE  Met(kind, n, i)'
        <5>1. stack'[k] = stack[k] /\ k \in DOMAIN stack' /\ k < Len(stack')
          BY <1>2, <2>7, <2>8
        <5> QED BY <4>1, <5>1 DEF Met
      <4> QED BY <2>1, <3>1, <4>1 DEF Met
    <3>2. ASSUME NEW kind \in {"net", "server"}, NEW n \in AnyName, NEW i \in DOMAIN Fields,
                 Generated(kind, n, i) \in DOMAIN config'
          PROVE  Met(kind, n, i)'
      <4>1. CASE Generated(kind, n, i) \in DOMAIN config
        BY <1>2, <3>1, <4>1 DEF Built, NamesFresh
      <4>2. CASE Generated(kind, n, i) \notin DOMAIN config
        <5>1. Generated(kind, n, i) = nm /\ nm \in DOMAIN rc \ DOMAIN config
          BY <2>2, <2>9, <3>2, <4>2
        <5>2. Generated(kind, n, i) = Generated(Top.kind, Top.name, Top.i)
          BY <2>2, <5>1
        <5>3. Top.i \in DOMAIN Fields
          BY <1>1, FieldFresh
        <5>4. kind = Top.kind /\ n = Top.name /\ i = Top.i
          BY <1>2, <5>2, <5>3, GeneratedApart
        <5>5. top \in DOMAIN stack' /\ stack'[top] = Top /\ top < Len(stack')
          BY <1>2, <2>7, <2>8
        <5> QED BY <5>4, <5>5 DEF Met
      <4> QED BY <4>1, <4>2
    <3> QED BY <3>2 DEF NamesFresh
  <2> QED BY <1>2, <2>1, <2>12, <2>13, <2>14, <2>15, <2>16, <2>17, BuildStepWalks DEF GraphInv, Built
<1> QED BY <1>3, <1>4

\* The last call and the one below it are replaced.
LEMMA TwoReplaced ==
    ASSUME NEW S, NEW s \in Seq(S), Len(s) > 1, NEW x \in S
    PROVE  /\ Append(Front(Front(s)), x) \in Seq(S) /\ Len(Append(Front(Front(s)), x)) = Len(s) - 1
           /\ Append(Front(Front(s)), x)[Len(s) - 1] = x
           /\ \A k \in 1..(Len(s) - 2) : Append(Front(Front(s)), x)[k] = s[k]
<1> DEFINE f == Front(s)
           l == Len(s)
           g == Append(Front(f), x)
<1>1. l \in Nat /\ l > 1 /\ s # <<>>
  OBVIOUS
<1>2. f \in Seq(S) /\ Len(f) = l - 1 /\ \A k \in 1..(l - 1) : f[k] = s[k]
  BY <1>1, TopReplaced
<1> HIDE DEF f, l
<1>3. f # <<>>
  BY <1>1, <1>2
<1>4. g \in Seq(S) /\ Len(g) = Len(f) /\ g[Len(f)] = x /\ \A k \in 1..(Len(f) - 1) : g[k] = f[k]
  BY <1>2, <1>3, TopReplaced
<1> HIDE DEF g
<1>5. Len(g) = l - 1 /\ g[l - 1] = x
  BY <1>1, <1>2, <1>4
<1>6. \A k \in 1..(l - 2) : k \in 1..(Len(f) - 1) /\ k \in 1..(l - 1)
  BY <1>1, <1>2
<1>7. \A k \in 1..(l - 2) : g[k] = s[k]
  BY <1>2, <1>4, <1>6
<1> QED BY <1>4, <1>5, <1>7 DEF f, g, l

\* The net of the call on top runs; the call below it goes on.
LEMMA FinishNetKeeps ==
    ASSUME GraphInv, FinishNet
    PROVE  GraphInv'
<1> DEFINE t == Top
           top == Len(stack)
           m == top - 1
           p == stack[m]
           id == Len(objs) + 1
           r == [name |-> t.name, deps |-> t.deps]
           g == Advance(p, t.name, id)
           S == [name : AnyName, deps : Seq(Nat)]
<1>1. Visited /\ Building /\ t.kind = "net" /\ t.i > Len(t.cfg.refs)
  BY DEF FinishNet, Visited
<1>2. /\ phase = "build" /\ stack # <<>> /\ GraphTyped /\ Built /\ top \in Nat /\ top > 0 /\ DOMAIN stack = 1..top
      /\ stack \in Seq(Frames) /\ t = stack[top] /\ t \in Frames /\ Resolved(t, objs) /\ Len(objs) \in Nat
      /\ t.i \in Nat /\ Len(t.cfg.refs) \in Nat /\ t.name \in AnyName /\ t.deps \in Seq(Nat) /\ t.cfg \in BuiltConfigs
  BY <1>1, TopCall
<1>3. /\ objs' = Append(objs, r) /\ config' = [config EXCEPT ![t.name] = t.cfg]
      /\ cache' = [n \in DOMAIN cache \cup {t.name} |-> IF n = t.name THEN id ELSE cache[n]]
      /\ stack' = Append(Front(Front(stack)), g)
      /\ UNCHANGED <<given, todo, served, phase, req>>
  BY DEF FinishNet
<1>4. t.name \in DOMAIN config \ DOMAIN cache /\ top # 1
  BY <1>1, <1>2 DEF Built, PlacesHeld, CallsAdvance
<1>5. top > 1 /\ m \in Nat /\ m > 0 /\ m < top /\ m \in DOMAIN stack
  BY <1>2, <1>4
<1>6. p \in Frames /\ Resolved(p, objs) /\ p.i <= Len(p.cfg.refs)
  BY <1>2, <1>5 DEF Built, CallsAdvance
<1>7. p.i \in Nat /\ p.i \in 1..Len(p.cfg.refs)
  <2>1. p.i \in Nat /\ p.cfg.refs \in Seq(AnyRefs)
    BY <1>6 DEF Frames, BuiltConfigs
  <2>2. 1 <= p.i /\ Len(p.cfg.refs) \in Nat
    BY <1>6, <2>1 DEF Resolved
  <2> HIDE DEF p
  <2> QED BY <1>6, <2>1, <2>2
<1>8. r \in S /\ objs \in Seq(S) /\ r.name = t.name /\ r.deps = t.deps
  BY <1>2 DEF GraphTyped
<1> HIDE DEF r, p, t, S
<1>9. /\ objs' \in Seq(S) /\ Len(objs') = Len(objs) + 1 /\ objs'[id] = r
      /\ \A i \in 1..Len(objs) : objs'[i] = objs[i]
  BY <1>2, <1>3, <1>8
<1>10. /\ \A f : Resolved(f, objs) => Resolved(f, objs')
       /\ \A deps, refs : Describes(deps, refs, objs) => Describes(deps, refs, objs')
  <2>1. Len(objs) \in Nat /\ Len(objs') \in Nat /\ Len(objs) <= Len(objs') /\ \A i \in 1..Len(objs) : objs'[i].name = objs[i].name
    BY <1>2, <1>9
  <2> QED BY <2>1, ResolvedKept
<1>11. id \in 1..Len(objs') /\ id \in Nat
  BY <1>2, <1>9
<1> HIDE DEF id
<1>12. g \in Frames /\ g.kind = p.kind /\ g.name = p.name /\ g.i = p.i + 1
  <2>1. p \in Frames /\ p.i \in 1..Len(p.cfg.refs) /\ t.name \in AnyName /\ id \in Nat
    BY <1>2, <1>6, <1>7, <1>11
  <2> QED BY ONLY <2>1, AdvanceForm, Zenon DEF g
<1>13. Resolved(g, objs')
  <2>1. /\ objs' \in Seq(S) /\ p \in Frames /\ Resolved(p, objs') /\ p.i \in 1..Len(p.cfg.refs)
        /\ t.name \in AnyName /\ id \in 1..Len(objs') /\ objs'[id].name = t.name
    BY <1>2, <1>6, <1>7, <1>8, <1>9, <1>10, <1>11
  <2> QED BY ONLY <2>1, AdvanceResolves, Zenon DEF g
<1> HIDE DEF g
<1>14. /\ stack' \in Seq(Frames) /\ Len(stack') = m /\ stack'[m] = g
       /\ \A k \in 1..(m - 1) : stack'[k] = stack[k]
  <2>1. stack \in Seq(Frames) /\ Len(stack) > 1 /\ g \in Frames
    BY <1>2, <1>5, <1>12
  <2> DEFINE q == Append(Front(Front(stack)), g)
  <2>2. /\ q \in Seq(Frames) /\ Len(q) = Len(stack) - 1
        /\ q[Len(stack) - 1] = g
        /\ \A k \in 1..(Len(stack) - 2) : q[k] = stack[k]
    BY ONLY <2>1, TwoReplaced
  <2>3. stack' = q /\ m - 1 = Len(stack) - 2
    BY <1>2, <1>3
  <2> HIDE DEF q
  <2> QED BY <2>2, <2>3
<1> HIDE DEF m
<1>15. DOMAIN stack' = 1..m /\ stack' # <<>>
  BY <1>5, <1>14
<1>16. \A k \in 1..m : k \in DOMAIN stack /\ stack'[k].kind = stack[k].kind /\ stack'[k].name = stack[k].name
                        /\ (k < m => stack'[k] = stack[k]) /\ (k = m => stack'[k] = g) /\ k < top
  <2> TAKE k \in 1..m
  <2>1. k \in DOMAIN stack /\ k < top
    BY <1>2, <1>5
  <2>2. CASE k = m
    BY <1>5, <1>12, <1>14, <2>1, <2>2 DEF p
  <2>3. CASE k # m
    <3>1. k \in 1..(m - 1)
      BY <1>5, <2>3
    <3> QED BY <1>14, <2>1, <2>3, <3>1
  <2> QED BY <2>2, <2>3
<1>17. DOMAIN cache' = DOMAIN cache \cup {t.name} /\ cache'[t.name] = id /\ \A n \in DOMAIN cache : n # t.name /\ cache'[n] = cache[n]
  BY <1>3, <1>4
<1>18. DOMAIN config' = DOMAIN config /\ config'[t.name] = t.cfg /\ \A n \in DOMAIN config : n # t.name => config'[n] = config[n]
  BY <1>3, <1>4
<1>19. config' = [n \in DOMAIN config' |-> config'[n]] /\ cache' = [n \in DOMAIN cache' |-> cache'[n]]
  BY <1>3
<1>20. \A i \in 1..Len(objs') : i \in 1..Len(objs) \/ i = id
  BY <1>2, <1>9 DEF id
<1>21. Describes(t.deps, t.cfg.refs, objs)
  BY <1>1, <1>2 DEF Resolved, Describes
<1>22. GraphTyped'
  <2>1. ASSUME NEW i \in 1..Len(objs'), NEW j \in DOMAIN objs'[i].deps
        PROVE  objs'[i].deps[j] \in 1..Len(objs')
    <3>1. \A d \in 1..Len(objs) : d \in 1..Len(objs')
      BY <1>2, <1>9
    <3>2. CASE i \in 1..Len(objs)
      BY <1>2, <1>9, <3>1, <3>2 DEF GraphTyped
    <3>3. CASE i = id
      <4>1. DOMAIN t.deps = 1..Len(t.deps)
        BY <1>2
      <4>2. j \in 1..Len(t.deps)
        BY <1>8, <1>9, <3>3, <4>1
      <4>3. t.deps[j] \in 1..Len(objs)
        BY <1>21, <4>2 DEF Describes
      <4> QED BY <1>8, <1>9, <3>1, <3>3, <4>3
    <3> QED BY <1>20, <3>2, <3>3
  <2>2. \A s \in DOMAIN served : served[s] \in Seq(1..Len(objs'))
    <3> DEFINE A == 1..Len(objs)
               B == 1..Len(objs')
    <3>1. A \subseteq B
      BY <1>2, <1>9
    <3>2. \A s \in DOMAIN served : served[s] \in Seq(A)
      BY <1>2 DEF GraphTyped
    <3> HIDE DEF A, B
    <3>3. \A s \in DOMAIN served : served[s] \in Seq(B)
      BY <3>1, <3>2
    <3> QED BY <3>3 DEF B
  <2> QED BY <1>2, <1>3, <1>9, <1>14, <2>1, <2>2 DEF GraphTyped, S
<1>23. NetsDescribed'
  <2>1. ASSUME NEW i \in 1..Len(objs') PROVE objs'[i].name \in DOMAIN cache' /\ cache'[objs'[i].name] = i
    <3>1. CASE i \in 1..Len(objs)
      BY <1>2, <1>9, <1>17, <3>1 DEF Built, NetsDescribed
    <3>2. CASE i = id
      BY <1>8, <1>9, <1>17, <3>2
    <3> QED BY <1>20, <3>1, <3>2
  <2>2. ASSUME NEW n \in DOMAIN cache'
        PROVE  /\ cache'[n] \in 1..Len(objs') /\ objs'[cache'[n]].name = n
               /\ config'[n] \in BuiltConfigs /\ Describes(objs'[cache'[n]].deps, config'[n].refs, objs')
    <3>1. CASE n = t.name
      BY <1>2, <1>8, <1>9, <1>10, <1>11, <1>17, <1>18, <1>21, <3>1
    <3>2. CASE n \in DOMAIN cache
      <4>1. /\ cache[n] \in 1..Len(objs) /\ objs[cache[n]].name = n /\ n \in DOMAIN config
            /\ config[n] \in BuiltConfigs /\ Describes(objs[cache[n]].deps, config[n].refs, objs)
        BY <1>2, <3>2 DEF Built, NetsDescribed
      <4>2. cache'[n] = cache[n] /\ config'[n] = config[n] /\ objs'[cache[n]] = objs[cache[n]]
        BY <1>9, <1>17, <1>18, <3>2, <4>1
      <4>3. cache[n] \in 1..Len(objs')
        BY <1>2, <1>9, <4>1
      <4> QED BY <1>10, <4>1, <4>2, <4>3
    <3> QED BY <1>17, <3>1, <3>2
  <2>3. DOMAIN config' \subseteq AnyName /\ DOMAIN cache' \subseteq DOMAIN config'
    BY <1>2, <1>4, <1>17, <1>18 DEF Built, NetsDescribed
  <2> QED BY <1>19, <2>1, <2>2, <2>3 DEF NetsDescribed
<1>24. PlacesHeld'
  <2>1. ASSUME NEW n \in DOMAIN config' \ DOMAIN cache'
        PROVE  \/ config'[n] \in Buildables
               \/ /\ config'[n] = Placeholder
                  /\ \E k \in DOMAIN stack' : stack'[k].kind = "net" /\ stack'[k].name = n
    <3>1. n # t.name /\ n \in DOMAIN config \ DOMAIN cache /\ config'[n] = config[n]
      BY <1>17, <1>18, <2>1
    <3>2. CASE config[n] \in Buildables
      BY <3>1, <3>2
    <3>3. CASE config[n] = Placeholder /\ \E k \in DOMAIN stack : stack[k].kind = "net" /\ stack[k].name = n
      <4>1. PICK k \in DOMAIN stack : stack[k].kind = "net" /\ stack[k].name = n
        BY <3>3
      <4>2. k # top
        BY <1>2, <3>1, <4>1
      <4>3. k \in 1..m
        BY <1>2, <4>2 DEF m
      <4> QED BY <1>15, <1>16, <3>1, <3>3, <4>1, <4>3
    <3> QED BY <1>2, <3>1, <3>2, <3>3 DEF Built, PlacesHeld
  <2>2. ASSUME NEW k \in DOMAIN stack', stack'[k].kind = "net"
        PROVE  stack'[k].name \in DOMAIN config' \ DOMAIN cache' /\ config'[stack'[k].name] = Placeholder
    <3>1. k \in 1..m /\ k \in DOMAIN stack /\ stack[k].kind = "net" /\ stack'[k].name = stack[k].name /\ k # top
      BY <1>15, <1>16, <2>2
    <3>2. stack[k].name # t.name
      BY <1>1, <1>2, <3>1 DEF Built, CalledOnce
    <3>3. stack[k].name \in DOMAIN config \ DOMAIN cache /\ config[stack[k].name] = Placeholder
      BY <1>2, <3>1 DEF Built, PlacesHeld
    <3> QED BY <1>17, <1>18, <3>1, <3>2, <3>3
  <2> QED BY <2>1, <2>2 DEF PlacesHeld
<1>25. CalledOnce'
  BY <1>2, <1>15, <1>16 DEF Built, CalledOnce
<1>26. CallsAdvance'
  <2>1. ASSUME NEW k \in DOMAIN stack'
        PROVE  /\ stack'[k].kind = "server" <=> k = 1
               /\ Resolved(stack'[k], objs')
               /\ k < Len(stack') => stack'[k].i <= Len(stack'[k].cfg.refs)
    <3>1. k \in 1..m /\ k \in DOMAIN stack
      BY <1>15, <1>16
    <3>2. CASE k = m
      BY <1>2, <1>13, <1>14, <1>16, <3>1, <3>2 DEF Built, CallsAdvance
    <3>3. CASE k # m
      <4>1. k < m /\ stack'[k] = stack[k] /\ k < top
        BY <1>5, <1>16, <3>1, <3>3
      <4> QED BY <1>2, <1>10, <3>1, <4>1 DEF Built, CallsAdvance
    <3> QED BY <3>2, <3>3
  <2>2. stack'[1].name = stack[1].name
    BY <1>5, <1>16
  <2> QED BY <1>2, <1>3, <1>15, <2>1, <2>2 DEF Built, CallsAdvance
<1>27. NamesFresh'
  <2>1. ASSUME NEW kind, NEW n, NEW i \in Nat, Met(kind, n, i) PROVE Met(kind, n, i)'
    <3>1. ASSUME NEW k \in DOMAIN stack, stack[k].kind = kind, stack[k].name = n,
                 i < stack[k].i \/ (i = stack[k].i /\ k < Len(stack))
          PROVE  Met(kind, n, i)'
      <4>1. CASE k = top
        BY <1>1, <1>2, <1>17, <3>1, <4>1 DEF Met
      <4>2. CASE k # top
        <5>1. k \in 1..m /\ k \in DOMAIN stack'
          BY <1>2, <1>15, <4>2 DEF m
        <5>2. i < stack'[k].i \/ (i = stack'[k].i /\ k < Len(stack'))
          <6>1. CASE k = m
            <7> DEFINE x == stack[k].i
                       y == stack'[k].i
            <7>1. y = x + 1 /\ x \in Nat
              BY <1>7, <1>12, <1>14, <6>1 DEF p
            <7>2. i < x \/ i = x
              BY <3>1
            <7> HIDE DEF x, y
            <7>3. i < y
              BY <7>1, <7>2
            <7> QED BY <7>3 DEF y
          <6>2. CASE k # m
            <7>1. k < m /\ stack'[k] = stack[k]
              BY <1>5, <1>16, <5>1, <6>2
            <7> QED BY <1>14, <3>1, <7>1
          <6> QED BY <6>1, <6>2
        <5> QED BY <1>16, <3>1, <5>1, <5>2 DEF Met
      <4> QED BY <4>1, <4>2
    <3> QED BY <1>3, <1>17, <2>1, <3>1 DEF Met
  <2>2. DOMAIN Fields \subseteq Nat
    BY GraphAssumption
  <2> QED BY <1>2, <1>18, <2>1, <2>2 DEF Built, NamesFresh
<1> QED BY <1>2, <1>3, <1>9, <1>22, <1>23, <1>24, <1>25, <1>26, <1>27, BuildStepWalks DEF GraphInv, Built

-----------------------------------------------------------------------------
(* The end of the build, and update_net.                                   *)

\* The server of the only call left is built.
LEMMA FinishServerKeeps ==
    ASSUME GraphInv, FinishServer
    PROVE  GraphInv'
<1> DEFINE t == Top
           T == [name : AnyName, cfg : NetConfigs]
<1>1. Visited /\ Building /\ t.kind = "server" /\ t.i > Len(t.cfg.refs)
  BY DEF FinishServer, Visited
<1>2. /\ phase = "build" /\ stack # <<>> /\ GraphTyped /\ Built /\ DOMAIN stack = 1..Len(stack)
      /\ Len(stack) \in DOMAIN stack /\ t = stack[Len(stack)] /\ Resolved(t, objs) /\ Len(objs) \in Nat
      /\ t.i \in Nat /\ Len(t.cfg.refs) \in Nat /\ t.name \in AnyName /\ t.deps \in Seq(Nat)
  BY <1>1, TopCall
<1>3. /\ served' = [n \in DOMAIN served \cup {t.name} |-> IF n = t.name THEN t.deps ELSE served[n]]
      /\ todo' = Tail(todo) /\ stack' = <<>>
      /\ UNCHANGED <<given, config, cache, objs, phase, req>>
  BY DEF FinishServer
<1> HIDE DEF t
<1>4. Len(stack) = 1 /\ t = stack[1] /\ todo # <<>> /\ t.name = todo[1].name
  BY <1>1, <1>2 DEF Built, CallsAdvance
<1>5. todo \in Seq(T)
  BY <1>2 DEF GraphTyped
<1> HIDE DEF T
<1>6. /\ todo' \in Seq(T) /\ Len(todo') = Len(todo) - 1 /\ Len(todo) \in Nat /\ Len(todo) > 0
      /\ \A j \in 1..(Len(todo) - 1) : todo'[j] = todo[j + 1]
  BY <1>3, <1>4, <1>5
<1>7. /\ 1 \in DOMAIN todo
      /\ \A j \in DOMAIN todo' : j \in Nat /\ j + 1 \in DOMAIN todo /\ todo'[j] = todo[j + 1] /\ j + 1 # 1
  BY <1>5, <1>6
<1>8. DOMAIN stack' = {}
  BY <1>3
<1>9. t.deps \in Seq(1..Len(objs))
  <2> DEFINE d == t.deps
             A == 1..Len(objs)
  <2>1. d \in Seq(Nat) /\ \A j \in 1..Len(d) : d[j] \in A
    BY <1>1, <1>2 DEF Resolved
  <2> HIDE DEF d, A
  <2>2. d \in Seq(A)
    BY <2>1
  <2> QED BY <2>2 DEF d, A
<1>10. GraphTyped'
  <2>1. stack' \in Seq(Frames)
    BY <1>3
  <2>2. \A s \in DOMAIN served' : s \in AnyName /\ served'[s] \in Seq(1..Len(objs))
    BY <1>2, <1>3, <1>9 DEF GraphTyped
  <2> QED BY <1>2, <1>3, <1>6, <2>1, <2>2 DEF GraphTyped, T
<1>11. NetsDescribed'
  BY <1>2, <1>3 DEF Built, NetsDescribed
<1>12. \A k \in DOMAIN stack : k = 1 /\ stack[k].kind # "net"
  <2>1. \A k \in DOMAIN stack : k = 1
    BY <1>2, <1>4
  <2> QED BY <1>1, <1>4, <2>1
<1>13. PlacesHeld' /\ CalledOnce'
  BY <1>2, <1>3, <1>8, <1>12 DEF Built, PlacesHeld, CalledOnce
<1>14. CallsAdvance'
  <2>1. ASSUME NEW i \in DOMAIN todo', NEW j \in DOMAIN todo', todo'[i].name = todo'[j].name
        PROVE  i = j
    <3>1. i + 1 = j + 1
      BY <1>2, <1>7, <2>1 DEF Built, CallsAdvance
    <3> QED BY <1>7, <3>1
  <2> QED BY <1>3, <1>8, <2>1 DEF CallsAdvance
<1>15. NamesFresh'
  <2>1. ASSUME NEW kind, NEW n, NEW i, Met(kind, n, i) PROVE Met(kind, n, i)'
    <3>1. CASE kind = "net" /\ n \in DOMAIN cache
      BY <1>3, <3>1 DEF Met
    <3>2. CASE kind = "server" /\ \A j \in DOMAIN todo : todo[j].name # n
      BY <1>7, <3>2 DEF Met
    <3>3. ASSUME NEW k \in DOMAIN stack, stack[k].kind = kind, stack[k].name = n
          PROVE  Met(kind, n, i)'
      <4>1. kind = "server" /\ n = todo[1].name
        BY <1>1, <1>4, <1>12, <3>3
      <4>2. \A j \in DOMAIN todo' : todo'[j].name # n
        BY <1>2, <1>7, <4>1 DEF Built, CallsAdvance
      <4> QED BY <4>1, <4>2 DEF Met
    <3> QED BY <2>1, <3>1, <3>2, <3>3 DEF Met
  <2> QED BY <1>2, <1>3, <2>1 DEF Built, NamesFresh
<1> QED BY <1>2, <1>3, <1>10, <1>11, <1>13, <1>14, <1>15, BuildStepWalks DEF GraphInv, Built

\* A net or server that cannot be built ends the build.
LEMMA BuildRefusedKeeps ==
    ASSUME GraphInv, BuildRefused
    PROVE  GraphInv'
  BY FailKeeps DEF BuildRefused, Visited, Building

\* What was built begins to run.
LEMMA BuildDoneKeeps ==
    ASSUME GraphInv, BuildDone
    PROVE  GraphInv'
<1>1. /\ phase = "build" /\ stack = <<>> /\ phase' = "running"
      /\ UNCHANGED <<given, config, todo, stack, cache, objs, served, req>>
  BY DEF BuildDone
<1>2. GraphTyped /\ Built /\ Walking
  BY <1>1 DEF GraphInv
<1>3. GraphTyped' /\ Walking'
  BY <1>1, <1>2 DEF GraphTyped, Walking
<1>4. NetsDescribed' /\ PlacesHeld' /\ CalledOnce' /\ CallsAdvance'
  BY <1>1, <1>2 DEF Built, NetsDescribed, PlacesHeld, CalledOnce, CallsAdvance
<1>5. NamesFresh'
  BY <1>1, <1>2 DEF Built, NamesFresh, Met
<1> QED BY <1>3, <1>4, <1>5 DEF GraphInv, Built

\* A net is replaced in its RunningNet: its numbers and names stay.
LEMMA UpdateNetKeeps ==
    ASSUME GraphInv, UpdateNet
    PROVE  GraphInv'
<1>1. phase = "running" /\ UNCHANGED <<given, todo, stack, served, phase, req>>
  BY DEF UpdateNet
<1>2. PICK n \in DOMAIN config, new \in Updates : update_net(n, new)
  BY DEF UpdateNet
<1>3. GraphTyped /\ Built /\ Walking
  BY <1>1 DEF GraphInv
<1>4. cache' = cache
  BY <1>2 DEF update_net
<1>5. stack = <<>> /\ DOMAIN stack = {} /\ stack' = <<>> /\ DOMAIN stack' = {}
  <2>1. stack = <<>>
    BY <1>1, <1>3 DEF Built, CallsAdvance
  <2> QED BY <1>1, <2>1
<1>6. CASE ~Updatable(n, new)
  <2>1. UNCHANGED <<objs, config>>
    BY <1>2, <1>6 DEF update_net
  <2>2. GraphTyped' /\ Walking'
    BY <1>1, <1>3, <2>1 DEF GraphTyped, Walking
  <2>3. NetsDescribed' /\ PlacesHeld' /\ CalledOnce' /\ CallsAdvance'
    BY <1>1, <1>3, <1>4, <2>1 DEF Built, NetsDescribed, PlacesHeld, CalledOnce, CallsAdvance
  <2>4. NamesFresh'
    BY <1>1, <1>3, <1>4, <2>1 DEF Built, NamesFresh, Met
  <2> QED BY <2>2, <2>3, <2>4 DEF GraphInv, Built
<1>7. CASE Updatable(n, new)
  <2> DEFINE id == cache[n]
             o == objs[id]
             ds == [i \in DOMAIN new.refs |-> cache[new.refs[i].name]]
             S == [name : AnyName, deps : Seq(Nat)]
  <2>1. /\ objs' = [objs EXCEPT ![id].deps = ds] /\ config' = [config EXCEPT ![n] = new]
        /\ n \in DOMAIN config /\ n \in DOMAIN cache /\ Gettable(new)
    BY <1>2, <1>7 DEF update_net, Updatable
  <2>2. /\ id \in 1..Len(objs) /\ o.name = n /\ DOMAIN cache \subseteq AnyName
        /\ \A x \in DOMAIN cache : cache[x] \in 1..Len(objs) /\ objs[cache[x]].name = x
    BY <1>3, <2>1 DEF Built, NetsDescribed
  <2>3. objs \in Seq(S) /\ Len(objs) \in Nat
    BY <1>3 DEF GraphTyped
  <2>4. new \in BuiltConfigs /\ new.refs \in Seq(AnyRefs) /\ DOMAIN new.refs = 1..Len(new.refs) /\ Len(new.refs) \in Nat
    <3>1. new \in NetConfigs
      BY GraphAssumption
    <3>2. new \in BuiltConfigs
      BY <3>1, NamesWiden
    <3> QED BY <3>2 DEF BuiltConfigs
  <2>5. \A i \in DOMAIN new.refs : new.refs[i].name \in DOMAIN cache /\ new.refs[i] = Named(new.refs[i].name)
    <3> TAKE i \in DOMAIN new.refs
    <3>1. new.refs[i] \in AnyRefs /\ new.refs[i].name \in DOMAIN cache
      BY <2>1, <2>4 DEF Gettable
    <3>2. CASE new.refs[i] \in [name : AnyName, inner : {<<>>}]
      BY <3>1, <3>2 DEF Named
    <3>3. CASE new.refs[i] \in {Inline(net) : net \in NetConfigs}
      <4>1. new.refs[i].name = NoName
        BY <3>3 DEF Inline
      <4> QED BY <2>2, <3>1, <4>1 DEF AnyName
    <3> QED BY <3>1, <3>2, <3>3 DEF AnyRefs
  <2>6. /\ DOMAIN ds = DOMAIN new.refs /\ Len(ds) = Len(new.refs) /\ ds \in Seq(Nat)
        /\ \A i \in DOMAIN ds : ds[i] \in 1..Len(objs) /\ new.refs[i] = Named(objs[ds[i]].name)
    <3> DEFINE L == Len(new.refs)
    <3>1. L \in Nat /\ ds = [i \in 1..L |-> cache[new.refs[i].name]]
      BY <2>4
    <3>2. \A i \in 1..L : cache[new.refs[i].name] \in Nat /\ cache[new.refs[i].name] \in 1..Len(objs)
                          /\ new.refs[i] = Named(objs[cache[new.refs[i].name]].name)
      BY <2>2, <2>3, <2>4, <2>5
    <3> HIDE DEF L, ds
    <3>3. ds \in Seq(Nat) /\ DOMAIN ds = 1..L /\ Len(ds) = L
      BY <3>1, <3>2
    <3> QED BY <2>4, <3>1, <3>2, <3>3 DEF L
  <2> HIDE DEF ds, id
  <2>7. o \in S /\ o.name \in AnyName /\ o = [name |-> o.name, deps |-> o.deps]
    <3> HIDE DEF S
    <3>1. o \in S
      BY <2>2, <2>3
    <3> HIDE DEF o
    <3> QED BY <3>1 DEF S
  <2> DEFINE q == [o EXCEPT !.deps = ds]
  <2>8. q = [name |-> o.name, deps |-> ds] /\ q.name = n /\ q.deps = ds /\ q \in S
    <3> DEFINE a == o.name
               b == o.deps
    <3>1. o = [name |-> a, deps |-> b] /\ a \in AnyName /\ a = n
      BY <2>2, <2>7
    <3> HIDE DEF a, b, o
    <3>2. q = [name |-> a, deps |-> ds]
      BY <3>1
    <3> QED BY <2>6, <3>1, <3>2 DEF a
  <2>9. objs' = [objs EXCEPT ![id] = q]
    BY <2>1, <2>2, <2>3
  <2> HIDE DEF q, o, S
  <2>10. /\ objs' \in Seq(S) /\ Len(objs') = Len(objs) /\ objs'[id] = q
         /\ \A i \in 1..Len(objs) : i # id => objs'[i] = objs[i]
    BY <2>2, <2>3, <2>8, <2>9
  <2>11. \A i \in 1..Len(objs) : objs'[i].name = objs[i].name
    BY <2>2, <2>8, <2>10 DEF o
  <2>12. \A deps, refs : Describes(deps, refs, objs) => Describes(deps, refs, objs')
    <3>1. Len(objs) \in Nat /\ Len(objs') \in Nat /\ Len(objs) <= Len(objs') /\ \A i \in 1..Len(objs) : objs'[i].name = objs[i].name
      BY <2>3, <2>10, <2>11
    <3> QED BY <3>1, ResolvedKept
  <2>13. DOMAIN config' = DOMAIN config /\ config'[n] = new /\ \A x \in DOMAIN config : x # n => config'[x] = config[x]
    BY <2>1
  <2>14. config' = [x \in DOMAIN config' |-> config'[x]]
    BY <2>1
  <2>15. GraphTyped' /\ Walking'
    <3>1. \A i \in 1..Len(objs') : \A j \in DOMAIN objs'[i].deps : objs'[i].deps[j] \in 1..Len(objs')
      <4> TAKE i \in 1..Len(objs')
      <4>1. CASE i = id
        BY <2>6, <2>8, <2>10, <4>1
      <4>2. CASE i # id
        BY <1>3, <2>10, <4>2 DEF GraphTyped
      <4> QED BY <4>1, <4>2
    <3>2. Walking'
      BY <1>1, <1>3, <2>10 DEF Walking
    <3> QED BY <1>1, <1>3, <2>10, <3>1, <3>2 DEF GraphTyped, S
  <2>16. Describes(ds, new.refs, objs)
    BY <2>4, <2>6 DEF Describes
  <2>17. NetsDescribed'
    <3>1. ASSUME NEW x \in DOMAIN cache
          PROVE  /\ cache[x] \in 1..Len(objs') /\ objs'[cache[x]].name = x
                 /\ config'[x] \in BuiltConfigs /\ Describes(objs'[cache[x]].deps, config'[x].refs, objs')
      <4>1. CASE x = n
        BY <2>2, <2>4, <2>8, <2>10, <2>12, <2>13, <2>16, <4>1 DEF id
      <4>2. CASE x # n
        <5>1. cache[x] # id /\ cache[x] \in 1..Len(objs) /\ objs'[cache[x]] = objs[cache[x]]
          BY <2>2, <2>10, <4>2 DEF o
        <5>2. x \in DOMAIN config /\ config'[x] = config[x]
          BY <1>3, <2>13, <3>1, <4>2 DEF Built, NetsDescribed
        <5> QED BY <1>3, <2>10, <2>12, <3>1, <5>1, <5>2 DEF Built, NetsDescribed
      <4> QED BY <4>1, <4>2
    <3> QED BY <1>3, <1>4, <2>10, <2>11, <2>13, <2>14, <3>1 DEF Built, NetsDescribed
  <2>18. PlacesHeld' /\ CalledOnce'
    <3>1. \A x \in DOMAIN config \ DOMAIN cache : config'[x] = config[x]
      BY <2>1, <2>13
    <3> QED BY <1>3, <1>4, <1>5, <2>13, <3>1 DEF Built, PlacesHeld, CalledOnce
  <2>19. CallsAdvance'
    BY <1>1, <1>3, <1>5 DEF Built, CallsAdvance
  <2>20. NamesFresh'
    BY <1>1, <1>3, <1>4, <2>13 DEF Built, NamesFresh, Met
  <2> QED BY <2>15, <2>17, <2>18, <2>19, <2>20 DEF GraphInv, Built
<1> QED BY <1>6, <1>7

-----------------------------------------------------------------------------
(* A request.                                                              *)

\* A request that goes on changes nothing of the graph.
LEMMA RequestKeeps ==
    ASSUME GraphInv, UNCHANGED buildVars, Walking'
    PROVE  GraphInv'
<1>1. UNCHANGED <<given, config, todo, stack, cache, objs, served, phase>>
  BY DEF buildVars
<1>2. GraphTyped'
  BY <1>1 DEF GraphInv, GraphTyped
<1>3. ASSUME phase # "failed" PROVE Built'
  <2>1. Built
    BY <1>3 DEF GraphInv
  <2>2. NetsDescribed' /\ PlacesHeld' /\ CalledOnce' /\ CallsAdvance'
    BY <1>1, <2>1 DEF Built, NetsDescribed, PlacesHeld, CalledOnce, CallsAdvance
  <2>3. NamesFresh'
    BY <1>1, <2>1 DEF Built, NamesFresh, Met
  <2> QED BY <2>2, <2>3 DEF Built
<1> QED BY <1>1, <1>2, <1>3 DEF GraphInv

\* A request starts at a server.
LEMMA ConnectKeeps ==
    ASSUME GraphInv, Connect
    PROVE  GraphInv'
<1>1. phase = "running" /\ req.path = <<>> /\ UNCHANGED buildVars
  BY DEF Connect
<1>2. PICK s \in DOMAIN served : \E i \in DOMAIN served[s] :
         req' = [on |-> served[s][i], via |-> {}, list |-> push(req.list, s), path |-> <<s>>]
  BY DEF Connect
<1>3. PICK i \in DOMAIN served[s] :
         req' = [on |-> served[s][i], via |-> {}, list |-> push(req.list, s), path |-> <<s>>]
  BY <1>2
<1> DEFINE d == served[s][i]
           l == push(req.list, s)
           p == <<s>>
<1>4. d \in 1..Len(objs) /\ s \in AnyName /\ Len(objs) \in Nat
  BY DEF GraphInv, GraphTyped
<1>5. Packed(req.list) /\ Strings(req.list) = <<>>
  BY <1>1 DEF GraphInv, Walking
<1>6. Packed(l) /\ Strings(l) = p
  <2>1. s \in Seq(Tokens)
    BY <1>4 DEF AnyName
  <2>2. Packed(l) /\ Strings(l) = Append(<<>>, s)
    BY <1>5, <2>1, Pushed
  <2>3. Append(<<>>, s) = p
    OBVIOUS
  <2> QED BY ONLY <2>2, <2>3, Zenon
<1>7. req' = [on |-> d, via |-> {}, list |-> l, path |-> p] /\ phase' = "running" /\ objs' = objs
  BY <1>1, <1>3 DEF buildVars
<1> HIDE DEF d, l, p
<1>8. Walking'
  BY <1>4, <1>6, <1>7 DEF Walking
<1> QED BY <1>1, <1>8, RequestKeeps

\* A request comes to a RunningNet.
LEMMA EnterNetKeeps ==
    ASSUME GraphInv, EnterNet
    PROVE  GraphInv'
<1> DEFINE o == objs[req.on]
           a == IF o.deps = <<>> THEN 0 ELSE req.on
           v == Range(o.deps)
           l == push(req.list, o.name)
           p == Append(req.path, o.name)
<1>1. req.on # 0 /\ UNCHANGED buildVars /\ req' = [on |-> a, via |-> v, list |-> l, path |-> p]
  BY DEF EnterNet
<1>2. GraphTyped /\ Walking /\ Len(objs) \in Nat
  BY DEF GraphInv, GraphTyped
<1>3. req.on \in 1..Len(objs) /\ phase = "running" /\ Packed(req.list) /\ Strings(req.list) = req.path
  BY <1>1, <1>2 DEF Walking
<1>4. o.name \in AnyName /\ \A j \in DOMAIN o.deps : o.deps[j] \in 1..Len(objs)
  <2> DEFINE S == [name : AnyName, deps : Seq(Nat)]
  <2>1. objs \in Seq(S)
    BY <1>2 DEF GraphTyped
  <2> HIDE DEF S
  <2>2. o \in S
    BY <1>3, <2>1
  <2>3. \A j \in DOMAIN o.deps : o.deps[j] \in 1..Len(objs)
    BY <1>2, <1>3 DEF GraphTyped
  <2> HIDE DEF o
  <2> QED BY <2>2, <2>3 DEF S
<1>5. a \in 0..Len(objs) /\ v \subseteq 1..Len(objs)
  BY <1>2, <1>3, <1>4 DEF Range
<1>6. Packed(l) /\ Strings(l) = p
  <2>1. o.name \in Seq(Tokens)
    BY <1>4 DEF AnyName
  <2>2. Packed(l) /\ Strings(l) = Append(Strings(req.list), o.name)
    <3> HIDE DEF o
    <3> QED BY <1>3, <2>1, Pushed
  <2> QED BY <1>3, <2>2
<1>7. phase' = "running" /\ objs' = objs
  BY <1>1, <1>3 DEF buildVars
<1> HIDE DEF a, v, l, p, o
<1>8. Walking'
  BY <1>1, <1>5, <1>6, <1>7 DEF Walking
<1> QED BY <1>1, <1>8, RequestKeeps

\* A request goes on to a net of the one it is in.
LEMMA CallNetKeeps ==
    ASSUME GraphInv, CallNet
    PROVE  GraphInv'
<1>1. UNCHANGED buildVars /\ req.via # {}
  BY DEF CallNet
<1>2. PICK id \in req.via : req' = [req EXCEPT !.on = id, !.via = {}]
  BY DEF CallNet
<1>3. Walking /\ phase = "running" /\ Len(objs) \in Nat /\ phase' = phase /\ objs' = objs
  BY <1>1 DEF GraphInv, GraphTyped, Walking, buildVars
<1>4. id \in 1..Len(objs)
  BY <1>3 DEF Walking
<1>5. req' = [on |-> id, via |-> {}, list |-> req.list, path |-> req.path]
  <2> DEFINE a == req.on
             v == req.via
             l == req.list
             p == req.path
             none == {}
             r == [req EXCEPT !.on = id]
  <2>1. req = [on |-> a, via |-> v, list |-> l, path |-> p]
    BY <1>3 DEF Walking
  <2> HIDE DEF a, v, l, p, none
  <2>2. r = [on |-> id, via |-> v, list |-> l, path |-> p]
    BY <2>1
  <2>3. req' = [r EXCEPT !.via = none]
    BY <1>2 DEF none
  <2> HIDE DEF r
  <2>4. req' = [on |-> id, via |-> none, list |-> l, path |-> p]
    BY <2>2, <2>3
  <2> QED BY <2>4 DEF none, l, p
<1>6. Walking'
  BY <1>3, <1>4, <1>5 DEF Walking
<1> QED BY <1>1, <1>6, RequestKeeps

\* Every step keeps the invariant.
LEMMA GraphStep == GraphInv /\ [GraphNext]_graphVars => GraphInv'
<1> SUFFICES ASSUME GraphInv, [GraphNext]_graphVars PROVE GraphInv'
  OBVIOUS
<1>1. CASE BuildServer
  BY <1>1, BuildServerKeeps
<1>2. CASE RefCached
  BY <1>2, RefCachedKeeps
<1>3. CASE RefMissing
  BY <1>3, RefMissingKeeps
<1>4. CASE RefBuild
  BY <1>4, RefBuildKeeps
<1>5. CASE FinishNet
  BY <1>5, FinishNetKeeps
<1>6. CASE FinishServer
  BY <1>6, FinishServerKeeps
<1>7. CASE BuildRefused
  BY <1>7, BuildRefusedKeeps
<1>8. CASE BuildDone
  BY <1>8, BuildDoneKeeps
<1>9. CASE UpdateNet
  BY <1>9, UpdateNetKeeps
<1>10. CASE Connect
  BY <1>10, ConnectKeeps
<1>11. CASE EnterNet
  BY <1>11, EnterNetKeeps
<1>12. CASE CallNet
  BY <1>12, CallNetKeeps
<1>13. CASE UNCHANGED graphVars
  <2>1. UNCHANGED buildVars /\ req' = req /\ objs' = objs /\ phase' = phase
    BY <1>13 DEF graphVars, buildVars
  <2>2. Walking'
    BY <2>1 DEF GraphInv, Walking
  <2> QED BY <2>1, <2>2, RequestKeeps
<1> QED BY <1>1, <1>2, <1>3, <1>4, <1>5, <1>6, <1>7, <1>8, <1>9, <1>10, <1>11, <1>12, <1>13
        DEF GraphNext, BuildEntities, Walk

\* The config and the calls of the build agree at every moment, and the request
\* is where its net_list says, whatever the configs and the updates are.
THEOREM GraphInvariant == GraphSpec => []GraphInv
<1>1. GraphInit => GraphInv
  BY GraphStarts
<1> QED BY <1>1, GraphStep, PTL DEF GraphSpec

\* Of any config: once the build is done, and after every update, each net of
\* the config that runs has one RunningNet, with the nets its NetRefs name, and
\* no placeholder is left.
THEOREM NetsAsConfigured == GraphSpec => []ConfigDescribesNets
<1>1. GraphInv => ConfigDescribesNets
  <2> SUFFICES ASSUME GraphInv, phase = "running" PROVE
        /\ \A i \in 1..Len(objs) : cache[objs[i].name] = i
        /\ \A n \in DOMAIN cache :
             /\ DOMAIN objs[cache[n]].deps = DOMAIN config[n].refs
             /\ \A i \in DOMAIN objs[cache[n]].deps : config[n].refs[i] = Named(objs[objs[cache[n]].deps[i]].name)
        /\ \A n \in DOMAIN config : config[n] # Placeholder
    BY DEF ConfigDescribesNets
  <2>1. GraphTyped /\ Built
    BY DEF GraphInv
  <2>2. DOMAIN stack = {}
    BY <2>1 DEF Built, CallsAdvance
  <2>3. ASSUME NEW n \in DOMAIN cache
        PROVE  /\ DOMAIN objs[cache[n]].deps = DOMAIN config[n].refs
               /\ \A i \in DOMAIN objs[cache[n]].deps : config[n].refs[i] = Named(objs[objs[cache[n]].deps[i]].name)
    <3> DEFINE ds == objs[cache[n]].deps
               rs == config[n].refs
    <3>1. cache[n] \in 1..Len(objs) /\ config[n] \in BuiltConfigs /\ Describes(ds, rs, objs)
      BY <2>1 DEF Built, NetsDescribed
    <3>2. ds \in Seq(Nat) /\ rs \in Seq(AnyRefs)
      <4> DEFINE S == [name : AnyName, deps : Seq(Nat)]
                 o == objs[cache[n]]
      <4>1. objs \in Seq(S)
        BY <2>1 DEF GraphTyped
      <4> HIDE DEF S
      <4>2. o \in S
        BY <3>1, <4>1
      <4> HIDE DEF o
      <4>3. o.deps \in Seq(Nat)
        BY <4>2 DEF S
      <4> QED BY <3>1, <4>3 DEF o, BuiltConfigs
    <3> HIDE DEF ds, rs
    <3>3. DOMAIN ds = 1..Len(ds) /\ DOMAIN rs = 1..Len(rs)
      BY <3>2
    <3>4. DOMAIN ds = DOMAIN rs /\ \A i \in DOMAIN ds : rs[i] = Named(objs[ds[i]].name)
      BY <3>1, <3>3 DEF Describes
    <3> QED BY <3>4 DEF ds, rs
  <2>4. ASSUME NEW n \in DOMAIN config PROVE config[n] # Placeholder
    <3>1. CASE n \in DOMAIN cache
      BY <2>1, <3>1, NamesWiden DEF Built, NetsDescribed
    <3>2. CASE n \notin DOMAIN cache
      BY <2>1, <2>2, <3>2, NamesWiden DEF Built, PlacesHeld
    <3> QED BY <3>1, <3>2
  <2> QED BY <2>1, <2>3, <2>4 DEF Built, NetsDescribed
<1> QED BY <1>1, GraphInvariant, PTL

\* The net_list of a request is the way it went, through any graph of nets, also
\* one that updates change while the request is on its way.
THEOREM NetListKept == GraphSpec => []NetListIsPath
<1>1. GraphInv => NetListIsPath
  BY DEF GraphInv, Walking, NetListIsPath
<1> QED BY <1>1, GraphInvariant, PTL

\* build_entities never enters a net that it is building: a circle of nets meets
\* a placeholder, whose type is not registered, and fails.
THEOREM BuildsOnce == GraphSpec => [](phase = "build" => CalledOnce)
<1>1. GraphInv => (phase = "build" => CalledOnce)
  BY DEF GraphInv, Built
<1> QED BY <1>1, GraphInvariant, PTL

\* The nets that a RunningNet holds were built before it.
BuiltInOrder == \A i \in 1..Len(objs) : \A j \in DOMAIN objs[i].deps : objs[i].deps[j] < i
Ordered == updates \in Nat /\ (updates = 0 => BuiltInOrder)

\* The new RunningNet holds older ones.
LEMMA FinishNetOrders ==
    ASSUME GraphInv, FinishNet, BuiltInOrder
    PROVE  BuiltInOrder'
<1> DEFINE t == Top
           r == [name |-> t.name, deps |-> t.deps]
           S == [name : AnyName, deps : Seq(Nat)]
<1>1. Building /\ t.i > Len(t.cfg.refs) /\ objs' = Append(objs, r)
  BY DEF FinishNet, Visited
<1>2. /\ Resolved(t, objs) /\ Len(objs) \in Nat /\ t.i \in Nat /\ Len(t.cfg.refs) \in Nat
      /\ t.name \in AnyName /\ t.deps \in Seq(Nat) /\ GraphTyped
  BY <1>1, TopCall
<1>3. r \in S /\ objs \in Seq(S) /\ r.deps = t.deps
  BY <1>2 DEF GraphTyped
<1>4. \A j \in DOMAIN t.deps : t.deps[j] \in 1..Len(objs)
  BY <1>1, <1>2 DEF Resolved
<1> HIDE DEF r, S, t
<1>5. Len(objs') = Len(objs) + 1 /\ objs'[Len(objs) + 1] = r /\ \A i \in 1..Len(objs) : objs'[i] = objs[i]
  BY <1>1, <1>2, <1>3
<1>6. ASSUME NEW i \in 1..Len(objs'), NEW j \in DOMAIN objs'[i].deps PROVE objs'[i].deps[j] < i
  <2>1. CASE i \in 1..Len(objs)
    BY <1>5, <2>1 DEF BuiltInOrder
  <2>2. CASE i = Len(objs) + 1
    BY <1>2, <1>3, <1>4, <1>5, <2>2
  <2> QED BY <1>2, <1>5, <2>1, <2>2
<1> QED BY <1>6 DEF BuiltInOrder

\* build_entities makes no circle of nets, of any config: until somebody calls
\* update_net, every RunningNet holds only nets that were built before it, so
\* that a request comes to an end.
THEOREM BuildHasNoCircle == GraphSpec => [](updates = 0 => BuiltInOrder)
<1>1. GraphInit => Ordered
  BY DEF GraphInit, Ordered, BuiltInOrder
<1>2. GraphInv /\ Ordered /\ [GraphNext]_graphVars => Ordered'
  <2> SUFFICES ASSUME GraphInv, Ordered, [GraphNext]_graphVars PROVE Ordered'
    OBVIOUS
  <2>1. CASE FinishNet
    <3>1. updates' = updates
      BY <2>1 DEF FinishNet
    <3> QED BY <2>1, <3>1, FinishNetOrders DEF Ordered
  <2>2. CASE UpdateNet
    BY <2>2 DEF UpdateNet, Ordered
  <2>3. CASE objs' = objs /\ updates' = updates
    BY <2>3 DEF Ordered, BuiltInOrder
  <2>4. BuildServer \/ RefCached \/ RefMissing \/ RefBuild \/ FinishServer \/ BuildRefused \/ BuildDone
        => objs' = objs /\ updates' = updates
    BY DEF BuildServer, RefCached, RefMissing, RefBuild, FinishServer, BuildRefused, BuildDone, Fail
  <2>5. Connect \/ EnterNet \/ CallNet \/ UNCHANGED graphVars => objs' = objs /\ updates' = updates
    BY DEF Connect, EnterNet, CallNet, graphVars, buildVars
  <2> QED BY <2>1, <2>2, <2>3, <2>4, <2>5 DEF GraphNext, BuildEntities, Walk
<1>3. Ordered => (updates = 0 => BuiltInOrder)
  BY DEF Ordered
<1> QED BY <1>1, <1>2, <1>3, GraphInvariant, PTL DEF GraphSpec
=============================================================================
