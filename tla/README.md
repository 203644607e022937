# VisRLFlexGrasp: specifications of the planning gateway

TLA+ specifications of VisRLFlexGrasp, kept beside its code: modules that model
the running parts of the system, TLC configurations that check them on small
instances, and theorems the TLA+ proof system checks for every instance.
`PROJECT.json` lists the runs, says which lines of code each definition stands
for, and records the findings and the hazards.

Paths below are relative to the repository root.

## 1. The system

Four processes form a star around the Python backend.

| Part | Code | State it keeps | Operations |
| --- | --- | --- | --- |
| HTTP gateway and process life | `backend/app/api/application.py`, `backend/app/model/gateway_lock.py` | file lock, exit stack | start, recovery, listen, ordered exit, crash |
| RobotService | `backend/app/service/robot_service.py` | `_submission_lock`, `_active_id`, `_worker`, `_closing` | `submit`, `_run`, `close` |
| KinematicsAdapter | `backend/comm/kinematics_adapter.py` | `_pending`: task id to future | `plan`, `on_message`, `on_disconnect` |
| TaskRepository | `backend/app/model/task_repository.py` | table `robot_tasks` | `create`, `finish`, `recover_interrupted`, `get` |
| TcpDispatchServer | `backend/comm/tcp_server.py` | `_sessions`, one handler per connection, patrol | register, heartbeat, route, `send_to`, unregister |
| DispatchService | `backend/app/service/dispatch_service.py` | `_tasks`, background coroutines | `task_start`, detections, disconnect, emergency stop, `_plan_target` |
| Algorithm layer | `algorithm/algorithm_service.py`, `algorithm/common/tcp_client.py` | one connection | reconnect, heartbeat, answer `capture_cmd` |
| Motion service (C++) | `embedded/comm/*.cpp` | one connection, `m_registered`, threads and mutexes | reconnect, heartbeat thread, plan a grasp |
| Kinematics (C++) | `embedded/motion/*.cpp` | none | pure functions |
| Protocol, configuration | `common/*.py`, `backend/config/settings.py`, `embedded/comm/motion_config.cpp` | what was read at the start | pure functions |

How they interact: HTTP clients and DispatchService call `RobotService.submit`;
its worker calls `KinematicsAdapter.plan`, which sends through
`TcpDispatchServer.send_to` and waits for a future that the server's handlers
resolve by callback (`on_message`) or fail (`on_disconnect`). SQLite runs in
threads. DispatchService is told the end of a plan by the callback
`on_finished`, of a lost algorithm module by `on_disconnect`. All of this shares
one event loop, so the interleavings are those of coroutines between awaits,
of threads with the coroutines that wait for them, of connections, and of
crashes.

What is hard here: an INSERT in a thread with the lock held while its caller is
cancelled; a cancellation that meets a coroutine before its first step, in a
thread, or in `wait_for`; a session looked up before an await and used after
it; a disconnect before, during and after a send; a late reply after a timeout;
a half-open connection whose module comes back; a final UPDATE that fails; a
crash between the INSERT and the UPDATE; an emergency stop beside a coroutine
that is already scheduled; two programs that compare the same angles with
limits, tolerances and configurations of their own. `PROJECT.json` lists each of them at its line.

## 2. Modules

| Module | What it is |
| --- | --- |
| `PlanLedger` | Abstract: what a client sees of the gateway. One history *absent, planning, terminal* per task, one live task, nothing planning after a start. |
| `PlanGateway` | RobotService, KinematicsAdapter, TaskRepository, the motion session and the life of the process. Implements `PlanLedger`. |
| `PlanGatewayProofs` | Its theorems. |
| `SessionRegistry` | TcpDispatchServer's sessions with the Python and the C++ client. |
| `SessionRegistryProofs` | Its theorems. |
| `Dispatch` | DispatchService in production mode, with RobotService and the algorithm session as it sees them. |
| `DispatchProofs` | Its theorems. |
| `MotionLink` | The motion service's two threads: TcpClient, `serve_connection`, the registration flag. |
| `MotionLinkProofs` | Its theorems. |
| `PlanContract` | What one request means to the gateway and to the planner: admission, lifting into the limits, selection, trajectory, validation. |
| `PlanContractProofs` | Its theorems, and lemmas about the quintic and about turns. |
| `GatewayLife` | Gateway processes that share a database: lifespan, lock file, recovery, the exit stack down to the handlers of all connections. |
| `GatewayLifeProofs` | Its theorems. |
| `SortingLoop` | The sorting loop of the simulation, with the server's routing, the mock perception and the clients' answers. |
| `SortingLoopProofs` | Its theorems. |
| `MCPlanGateway`, `MCSessionRegistry`, `MCDispatch`, `MCMotionLink`, `MCPlanContract`, `MCGatewayLife`, `MCSortingLoop` | The constants of the runs. |

Operators named `..._M` are mutants: the definition that
follows them with a plausible bug. No action uses them; they show that the
properties notice such a bug.

### PlanGateway

One action is what runs without giving up control. `request[t]` is the program
counter of `submit`, `run[t]` that of `_run` with `plan` and `send_to` inside
it, `closing` that of `close`, `phase` that of the process.

| Variable | Code |
| --- | --- |
| `record` | the `status` column; survives a crash |
| `holder`, `active`, `worker` | `_submission_lock`, `_active_id`, `_worker` |
| `cancelled`, `cancelRun` | a cancellation requested of a `submit` / of the worker |
| `pending`, `sentOn` | the future of each task, the session `send_to` picked |
| `session`, `link` | `_sessions["motion"]`, `writer.is_closing()` |
| `motion`, `transit` | what the motion service does with a command, replies under way |
| `outcome`, `told` | `_run`'s local `state`, the argument of `on_finished` |
| `orphans` | UPDATE threads whose coroutine was cancelled |
| `unsaved` | ghost: tasks whose final UPDATE raised since the last start |

A thread's transaction and the resumption of the coroutine that awaits it are
one step, except where a cancellation can come between them: `RunKilled` then
leaves an orphan, which `OrphanEnds` completes later, even after `Exit` has
released the file lock and the next instance has recovered the table.
`SubmitCancelled`, `CreatedForNobody` and `Withdrawn` are the shielded INSERT
of a request nobody waits for. `RunResumed` may win over a pending cancellation,
as `wait_for` allows up to Python 3.11 (the project asks for 3.10 or later).

Simplifications: one cancellation per `submit`; each task id is submitted once
(they are fresh UUIDs); a failing `server.open` is a crash; a crash takes its
threads with it; the motion service answers a command once.

### SessionRegistry

`server[c]` is the server's end of a connection and its handler, `conn[m]` the
client's end, `path[c]` the network between them, `c2s` and `s2c` what is on the
wire or in a read buffer. A frame is a register, a heartbeat, an acknowledgement
or an error. The two clients differ in one point: the C++ heartbeat thread closes a
connection that is not acknowledged after 3 s (`GiveUp`), the Python client
(`Patient`) does not. `GiveUpEarly` is the same thread where the answer needs
longer than 3 s; it counts as a failure. Heartbeat time is abstracted to rounds of the patrol: a session
without a heartbeat for two rounds stands for more than `HEARTBEAT_OFFLINE_SEC`.
`calls` counts sessions registered minus `on_disconnect` calls. What the server
does with other frames is in `SortingLoop`, its shutdown in `GatewayLife`.

### Dispatch

A `TaskState` is an object with an identity, found through `table` by the
task id of the frontend, which may use an id again; identities come back when
nothing refers to the object. `capture[o]` follows the `capture_cmd` and its
answer, `plan[o]` the coroutine `_plan_target`, the plan it submits and its callback. RobotService
appears as `live` (`_active_id`) and `locked` (`_submission_lock`), shared with
plans of HTTP clients; that it ends every plan is what `PlanGateway` shows.
`RobotForgets` is an end without callback, by a SQLite error or by `close`. The
one exception not modelled: when `close` itself fails in SQLite, the closing
gateway would go on answering `task_start` with ROBOT_BUSY.

### MotionLink

`pc[th]` is where the main and the heartbeat thread stand, `op[th]` how far the
`send_line` or `close` that the thread has called is and, at its end, what
`send_line` returned. `fd` is `m_socket_fd`, `used[th]` the descriptor a thread
has loaded, `sending` and `lifecycle` the owners of the two mutexes, `open` and
`down` the kernel's view. One action is one access to shared state: between
`send_line`'s load and its `::send`, and between `close`'s exchange, `shutdown`
and `close_native`, the other thread may run. `wire` is a ghost: whether the
line the server is reading is whole, cut, or made of two frames. The wait of
the heartbeat thread has two steps, since `stopping` is set without
`wait_mutex`: a notify between the predicate and the sleep is lost.

A failing `connect` changes nothing and is not an action; plans and error
replies are one kind of frame; over-long frames, which the server never sends,
end the loop as `RecvEnds` does. An exception out of the receive loop ends the
process and is left out.

### PlanContract

Both programs read the joint limits and a configuration at their start (`Boot`,
each with the `VISRL_ENV` of its own process), and both judge a request and a
plan: `Submit` is what `PlanRequest` and `RobotService.submit` require,
`ReadCommand` the checks of `plan_grasp`, `Branch` one solution that
`append_verified` is called with, `Unreachable` and `Plan` the two ends of
`plan_grasp`, `Record` what `_run` makes of the answer. Messages, sessions and
restarts in the middle of a request are `PlanGateway`'s.

| Variable | Code |
| --- | --- |
| `env` | the environment each program was started with |
| `request` | `current_joint_angles` (or `NoRef`) and `force_limit` of the payload |
| `solutions` | the vector of `compute_ik` |
| `reply` | the data of `motion_status` or `error_report` |
| `verdict` | what `submit` or `_run` makes of it |
| `roots` | ghost: the branches before they are lifted |

Angles and times are integers, in ticks, and so are the tolerances. `AlgTol`,
`GateTol`, `MatchTol` and `DupTol` are 1e-10, 1e-9, 1e-7 and 1e-6 in the code; the
module assumes their order (`ToleranceOrder`), and the run gives them 1, 2, 3 and
4 ticks, so that an angle can lie between any two. A sample of a
trajectory with n steps is a multiple of 1/n^5, so it is kept multiplied by
`Unit(n)` and nothing is rounded; the one rounding is that of the period, up to
a tick. A square root in the code is a comparison of squares here, and
`Distance`, a sum of squares, counts the unit squares in them. Left out are
floating-point rounding, which the tolerances are there to absorb, and the
geometry: any set of angles may be the branches of a pose, in any order, also
one that no pose has.

A reference the gateway's tolerance lets through although it is beyond a limit
is refused by the planner, which compares exactly (code 1000): such a request
fails, it is not planned wrongly. With no angles in the request each program
starts from its own `initial_joint_angles`; when these differ by more than
`MatchTol` the gateway rejects every such plan. `PlannedIsAccepted` says that it
does, and that it rejects no other (`Agreed`). The repository's `dev.json` and
`sim.json` are both empty; but without `VISRL_ENV` the gateway takes `sim` and the
planner `dev`, so a home angle put in one of the files would bring it about, and
the run's two environments have different homes.

`append_verified` drops a branch that is within `DupTol` of an earlier one, whole
turns aside. Of two such twins near a point a whole turn away from a limit, one
can be turned to that limit and the other cannot: the one that is dropped may
then be the nearer by almost a turn. `NearestPlan` therefore says, for every branch,
that the target is as near as any configuration of the branch or of a twin of
it, and the run has such a pair. No document promises more.

### GatewayLife

`stage[p]` is how far the lifespan of a process is: the lock taken, the table
recovered, serving, and, on the way out, what it awaits (`robot.close`, the last
UPDATE in it, `dispatch.close`, `wait_closed`, the handlers). An instance has at
most one plan, as `SinglePlan` shows; `planning` keeps, of each row with status
planning, which process it belongs to, or that nobody will end it. A handler
reads, or is in its `finally` clause, which waits until the peer has read what
is buffered: `jammed` are the connections whose peer does not.

`Waits` is a property of the interpreter: since Python 3.12
`Server.wait_closed()` waits for every connection, up to 3.11 it returns at
once. The repository asks for 3.10 or later, so both are its platforms, and the
theorems hold for both. `StartFails` is an exception between the lock and
`server.open`, where the exit stack unwinds. A handler that a second
cancellation meets in its `finally` clause ends at once (`cancelled`).

Left out: the log handlers on the exit stack, and a cancellation of the lifespan
itself. An orphaned UPDATE (`OrphanEnds`) may end after the lock is released; it
only ends a row of its own process, or raises and leaves the row to the next
recovery.

### SortingLoop

Frames are records of a type and a task; a type stands for what the receiver
tells apart. `up[m]` and `down[m]` are the two directions of a connection, in
order. `Noise` are frames that `decode_message` rejects, frames with another
source or target than they should have, and a `task_start` without a usable
task id (`TaskIdRefused`); any module may report an emergency stop. `RouteRefused`
is every refusal of `_route_message`, answered with an error report. `addressed`
is where such a report goes before the session is registered: to "unknown" or to another name,
which a C++ client answers with an error report of its own
(`MotionComplains`); to "motion", which it only logs (`skipped`).

| Variable | Code |
| --- | --- |
| `joined`, `registered` | clients that have sent a register; sessions with a `module_id` |
| `state`, `count` | a `TaskState`: absent, running or `is_finished`; `sorted_count` |
| `remaining` | `FruitDetector._mock_remaining` |
| `scenes`, `retired`, `left`, `unplaced`, `forged` | ghosts, for the balance of objects |

`left` are the objects nobody will count, whatever the reason; `unplaced` only
those whose status said so. An undisturbed task that ends has none of the
others: that is what keeps `CountIsTrue` from explaining every loss away
(`SceneIsSorted`).

Whoever executes a `grasp_command` in this mode is outside `src/`: the tests'
stand-in reports placed, with or without success, and the motion service, which
only plans, reports a plan or a failure; `MotionAnswers` has them all.
Connections stay up here, and heartbeats are left out. A handler sends by a
coroutine that runs a turn of the event loop later (`_send_async`); here it is
part of the handler's step. The two differ only where the receiver's register is
read in that very turn, and then a frame arrives that the model drops.

## 3. Runs

| Run | Instance | Shows |
| --- | --- | --- |
| `gateway_safety` | 2 tasks (one with a callback), 2 connections, 1 crash, 1 SQLite error | inductive invariant, six safety properties, refinement of `PlanLedger` |
| `gateway_liveness` | 2 tasks, 1 connection, 1 crash, SQLite works | every planning row ends, `submit` answers, `close` returns |
| `registry` | the C++ client, 3 connections, 2 failures, 2 frames per queue | no session or disconnect callback is lost; the client is registered again and again |
| `algorithm_comes_back` | the Python client, 3 connections, 2 failures | finding 1 |
| `dispatch_tasks` | 2 task ids, 2 objects, 1 SQLite error | no task is forgotten, planned beside another, or reported twice; while SQLite works every task ends |
| `lost_callback` | 1 task id, 1 SQLite error | finding 2 |
| `stop_then_plan` | 1 task id | finding 3 |
| `motion_link` | 2 descriptors, 2 frames under way, any number of connections | two closing threads, a sender and a lost notify leave descriptor, mutexes and threads as they were found; a lost or silent server is left |
| `plan_contract` | 2 joints, a turn of 16 ticks, 8 branches of which 3 at most per pose, 6 references, 3 forces, 3 configurations, tolerances of 1 to 4 ticks, periods up to 22 | the gateway accepts what the planner plans, unless their homes differ; the target is the nearest up to near-duplicates; "unreachable" is true; no joint is too fast |
| `gateway_life` | 2 processes, 2 connections, 3 faults, Python up to 3.11 | whatever runs of an instance runs under its lock, no recovery ends a running plan, a shutdown ends |
| `server_close_waits` | 1 process, 2 connections, no fault, Python 3.12 | finding 4 |
| `sorting_loop` | 2 task ids, 2 starts, 2 objects a scene, 1 bad frame, stop or repeated status | the count is true, an undisturbed scene is sorted to its end without a loss, the loop and the error reports come to rest |

Why the bounds are enough to be interesting. Two tasks are a plan and its rival,
or a plan and its successor that a late reply or a stale session could hit; two
connections are a session and its replacement; one crash after a shutdown or in
the middle of one gives three lives of the table. Three connections are a
half-open session, the one that is refused, and the next. Two objects are a task
and the old task of the same id, or two ids. Two descriptors let a connection
take the number of the last one or another; two frames are an acknowledgement
and a command in one `recv`. One of the two joints of `plan_contract` has more
than two turns and the other less than one, so that a branch has several, one or
no configurations; branches lie at pi, on the limits, a tolerance beyond them,
a turn apart, and three ticks apart on either side of a limit; references lie
inside, on, within a tolerance of and beyond
the limits. Two processes are the one that runs and the one that would
recover beside it; three faults are a crash, a jammed peer and a SQLite error in
one behaviour. Two starts are two tasks, or one started anew while frames of its
first run are on the way; a scene of two objects has a first, a last and an
empty round. Larger instances were checked once and are not kept as runs:
`Dispatch` with three objects and one id (6 million states), `SessionRegistry`
with both clients (860 thousand), `SortingLoop` with three objects a scene (one
million). Every action
and every disjunct of the next-state relations is taken in some passing run, and
each property is violated by a mutant of the code's definitions.

`gateway_safety` uses symmetry on connections, which have no order or role in
the specification; no run with a liveness property uses symmetry. `sorting_loop`
does not check deadlock: at rest, with nothing left to start, the loop stops. `PlanContract` states safety only: it has no scheduling.

### Fairness

* `PlanGateway`: coroutines that can run do run, the timer of `wait_for` fires,
  a SQLite transaction ends (its connection has a timeout of 1 s), `close` goes on once
  called, and a stopped gateway is started again. Nothing is assumed of HTTP
  clients, of the network or of the motion service: it may stay silent for ever.
* `SessionRegistry`: handlers run, the patrol goes round, a client reads, notices
  the end of its connection, reconnects, and its 3 s timer fires. Failures and
  restarts are never required. An answer that comes later than 3 s is a failure
  (`GiveUpEarly`), of which a behaviour has finitely many.
* `Dispatch`: coroutines run; `asyncio.Lock` serves its waiters in turn (strong fairness of `PlanTarget`);
  the algorithm answers a capture while connected (`on_message` answers each);
  the handler of a closing connection ends; RobotService ends each plan. Nothing is assumed of the frontend.
* `MotionLink`: both threads run; the timer of `wait_for` fires, whose deadline a
  spurious wake does not move; `::send` ends (SO_SNDTIMEO); `m_send_mutex`, which
  the heartbeat thread leaves free for 3 s at a time, is obtained in the end.
  Nothing is assumed of the server; `LossIsNoticed` speaks of a server whose FIN
  or reset has arrived, since `recv` has no time-out.
* `GatewayLife`: an exit that has begun goes on, a transaction ends, and a handler
  whose buffer is empty ends. Nothing is assumed of peers: a module may stay
  connected, or stop reading, for ever. `CloseReturns` excludes only the latter.
* `SortingLoop`: handlers and clients read on. Nobody has to send anything that
  is not an answer.

### Findings

1. A Python client that reconnects while its half-open session is still
   registered is refused on a connection that stays open, and never registers
   again (`ComesBack`). The C++ client gives up after 3 s and does come back.
2. When `finish` or `get` raises, `on_finished` is not called: the sorting task
   stays unfinished, and every later `task_start` is answered ROBOT_BUSY, until a
   restart or an emergency stop
   (`TaskEnds` with one SQLite error).
3. A task that an emergency stop has terminated may still be submitted for
   planning, and is then reported as planned (`StopIsFinal`).
4. `TcpDispatchServer.close` awaits `wait_closed` before it cancels the handlers
   of its connections. Since Python 3.12 that waits for the connections, so while
   a module stays connected the exit hangs and the lock file is not released
   (`CloseReturns`, no fault needed). Up to 3.11 it ends.

Two more disagreements are known from earlier versions of these specifications
and are facts of the models, without a run of their own. `RobotService.close`
may return before the running task's terminal status is stored, when the worker
is cancelled while its UPDATE is in a thread (its docstring says it waits):
`ClosedIsQuiet` names exactly this exception, and `EventuallyTerminal` shows
that the row is closed in the end. And when `::send` takes a part of a frame and
then fails, the other thread may send a frame behind the broken one before
anybody closes (`tcp_client.hpp` says complete frames, serially; here `wire` is
then "garbled"): `BrokenFrameIsFatal` bounds the damage, the connection is
closed right after.

## 4. Proofs

The theorems of `PlanGatewayProofs`, `DispatchProofs`, `MotionLinkProofs`,
`SessionRegistryProofs`, `GatewayLifeProofs` and `SortingLoopProofs` hold for
every number of tasks, modules, connections, ids, objects, descriptors,
processes, crashes, errors, starts and bad frames;
the assumptions on the constants only say that the special values are distinct
from the tasks, connections, objects, descriptors and processes, and that the
bounds are natural numbers. Those of `PlanContractProofs` hold for any joints,
limits, configurations, branches and tolerances, as long as the planner's
tolerance is at most the gateway's.

**PlanGateway.** The safety properties are not inductive: that a planning row has an
owner depends on who holds the lock, on what `close` has cancelled and on what
was written. `IInv` adds

* `LockInv`: the lock is held exactly by a `submit` that creates or withdraws a
  row, or by `close`;
* `ActiveInv`: `_active_id` names the one task that is engaged, and `_worker`
  the only living worker;
* `CloseInv`: a cancellation is under way only while `gather` waits, and the
  row `close` writes itself is that of a worker that never ran;
* `MemoryInv`: a process that is not up has nothing in memory;
* `RecordInv`: the table follows the program counters;
* `AnswerInv`: an outcome "planned" on its way to the table stands for a valid
  answer.

`InitHolds` and one lemma per group of actions show that `IInv` is inductive;
`Invariance` follows, from it the safety properties, `HistoryIsFinal` (the action
property) and `ImplementsLedger`: each action maps to the action of `PlanLedger`
with its effect on `record`, `active` and `phase = "up"`, or to a stutter.
`gateway_safety` also checks `IInv` as an invariant.

**Dispatch.** `DInv` adds three facts to the properties: an object no id stands
for is finished (`TableInv`); the robot is held by the plan past admission, and
a coroutine exists only for a task whose detection has come (`RobotInv`); a task
whose end is still to come has not been reported (`ResultInv`). `VerdictsStand`
is the action property `VerdictStands`. `dispatch_tasks` also checks `DInv`.

**MotionLink.** `LInv` says who is where when a mutex is held (`MutexInv`,
`ThreadInv`), that the one open descriptor is `m_socket_fd` or that of the
running `close` (`SocketInv`), that a server that has not acknowledged has sent
nothing (`TrustInv`), and that whoever broke a frame off still has to close
(`BrokenInv`). `NoUseAfterClose` follows from `SocketInv` and `MutexInv`: a
sender holds `m_send_mutex`, without which `close` does not get to
`close_native`.

**PlanContract.** `CInv` adds to `PlannedIsAccepted` that a running program has
loaded a legal configuration and keeps it while a request is under way
(`EnvInv`), that every solution is within the planner's tolerance of the limits
(`SolvingInv`), that a plan is the trajectory from the planner's reference to
its target, with a duration that is long enough (`ReplyInv`), and three facts
about the choice of the target, below. What a plan then
does follows from the quintic q(r) = r^3 (10 - 15r + 6r^2): it stays between 0
and 1 (`Bounds`), so that samples lie between two angles the gateway accepts
(`Between`, `SamplesInLimits`), it ends where it should (`EndPoints`,
`MatchesEnds`), and its first and second differences, over any number of
samples, are at most the 15/8 and 10/sqrt(3) of `calculate_duration` (`Rise`,
`Bend`, `Start`), which gives `PeaksRespected`. `plan_contract` also checks
`CInv`.

`NearestChosen` and `UnreachableRightly` are about `lift_to_limits`, one joint at
a time: the clamp between the first and the last turn within the limits loses
none of the angles a joint may take (`LiftLosesNone`), and rounding before the
clamp takes the nearest of them (`LiftNearest`, kept for all solutions by
`LiftedInv`). So every branch with a configuration leaves a solution (`NearInv`),
as near in every joint as any of its configurations, hence in the sum of
squares. A branch that `append_verified` drops as a duplicate leaves
the solution of a twin in its place (`SameTwins`), which is the nearest of the
twin's configurations; so `NearestChosen` needs no hypothesis about `DupTol`, and
says what it says of the branch or of its twin. What that costs is `MissBounded`:
for a configuration that is at least the tolerance away from the limits, a twin
has one within the tolerance (`TwinBeside`), so the target is no farther than
that configuration moved away by the tolerance in every joint. Nearer to a limit
there is no such bound: the miss may be nearly a turn.
`ChoiceInv` carries both properties from the reply onwards.

**SessionRegistry.** `AckedIsRegistered` is not inductive: that a client read
its acknowledgement says nothing by itself about the server. `RInv` follows the
register and its answer over the wire: a connection carries only the register of
its own client (`NamesInv`, `WireInv`), an acknowledgement on it means that the
server's session has the client's name, and stays so when it is read (`AckInv`);
that an open session with a name is the registered one, and a registered one
has a handler, is `OneVoice`. `NobodyIsDropped` is then `AckInv` with
`OneVoice`.

**GatewayLife.** `LInv` adds to the two properties that a lock that is held has
an owner whose lifespan will release it (`LockIsOwned`), that connections exist only while an instance serves or closes
(`ConnInv`) and that a plan runs only until `robot.close` has ended it
(`PlanInv`). Then `Released`, which waits for the handlers, leaves nothing
behind (`LockCoversAll`), and `Recover`, which needs the lock, meets no running
plan (`RecoveryIsAlone`).

**SortingLoop.** `SInv` is `CountIsTrue` with three facts. Every frame of a loop
names its task (`TaskInv`), so that what it counts is counted for somebody. A
client registers before it sends anything that counts, and is sent a command
only when registered (`RegisterInv`): the server never refuses a detection or a
placed status, and no object disappears in an error report. Then every step
keeps the balance (`EveryObjectCounted`), whatever tasks are started, started
anew under the same id, or stopped, and however many placed statuses are repeated.
`QuietInv` follows the one task that nothing disturbs: its loop is the only one
(`tokens`), it runs as long as anything of it is under way, and it ends with the
one scene it empties, so that nothing is retired or under way at its end. Once an
object of it is left for another reason than a status that says so, because
motion is not there or answers with a plan, the loop has nothing under way and
never ends (`Broken`); so a task that has ended lost none, and the balance is
`SceneSorted`. Sums over tasks and numbers of frames on a wire are
cardinalities, so that what a step does to them follows from facts about finite
sets. `SInv` was checked by TLC on the instance of `sorting_loop` before it was
proved; the run keeps the two properties.

Only model-checked: all liveness (`EventuallyTerminal` and its like, since
fairness is out of the prover's reach), and the counterexamples of the four
findings.

## 5. Not modelled, and the plan

Left out for good: floating-point rounding and the geometry of the arm, HTTP
wording, logging, the placeholder RL environment (nothing calls it), the real
detector and policy (they raise `NotImplementedError`), the model export tool and
the deployment script.

Not modelled, with the reason: whether a pushed `task_result` arrives (no
document promises it, and a client can ask for the plan over HTTP); the
cancellation a `wait_for` inside `send_to` may swallow up to Python 3.11 (the
interpreter's, not the project's); the delays between reconnects (the client
comes back at any of them); the deep merge of configurations and the forms of
vectors in a message (parsing of data no property depends on).

Next: **composition.** PlanGateway's motion seam (`MotionRegister`,
`SessionLost`) shown to be what SessionRegistry provides; GatewayLife as the
process of PlanGateway.
