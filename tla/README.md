# A TLA+ model of lithium-next

lithium-next is a control server for astrophotography: REST and WebSocket
requests drive cameras, mounts and scripts, and long jobs run in the background.
This directory holds TLA+ modules for the parts of the server whose correctness
depends on the order in which threads act: the asynchronous task manager and the
event loop it posts to, the exposure sequencer with the targets and tasks it
executes, the pool of Python workers, and the device manager. TLC checks small
instances; TLAPS proves the central properties for all instances.

Paths below are relative to the repository root, which `PROJECT.json` calls
`src/`: `task/core/sequencer.cpp` is `src/src/task/core/sequencer.cpp` there.

## The system

| part | state | operations | what is hard about it |
|---|---|---|---|
| `server/task_manager` | map of tasks, submission order, counters, periodic tasks | submit, cancel, fail, progress, result, cleanup, list, periodic schedule/cancel | REST threads and loop workers write `status` and `updatedAt` without the mutex |
| `server/eventloop` | two queues, stop flag, workers, subscribers | post, postDelayed, postCancelable, subscribe, emit, run, stop, destroy | two builds (`USE_ASIO` or not), locks taken twice, shutdown |
| `task/core/sequencer` | state, targets, dependencies, ready flags, failed names, the sequence thread | add/remove/modify targets, dependencies, scheduling, executeAll, stop, pause, resume, retry, skip, save, load | one object called from a multithreaded server while its own thread runs; raw pointers across locks; persistence of half-finished runs |
| `task/core/target`, `task` | status, tasks, groups, dependencies, cancellation flags | execute, abort, cancel, edit groups and dependencies | statuses and flags written without a lock by the executing and the cancelling thread; two classes of tasks that report failures differently |
| `device/manager` | devices by type, the primary one, a record of what is connected, the monitor thread | add, remove, connect with retries, disconnect, sweep, refresh, start and stop the monitor | drivers change by themselves, and the record is written outside the lock after the driver was asked |
| `script/interpreter_pool` | queue of tasks by priority, workers, statistics, two flags | initialize, submit, cancel, shutdown, destroy | futures of dropped tasks, condition variables, shutdown against submission |
| `device/events` | subscriptions, queue | publish, subscribe | callbacks under a lock |
| rate limiters | buckets and windows by client | allow, refill | limits, rounding, time |
| everything else | | | see `components` in `PROJECT.json` |

How they interact: crow serves REST requests on several threads
(`server/main_server.hpp`, `.multithreaded()`). Controllers under
`server/controller` call the sequencer object and the task manager directly. The
task manager posts closures to the event loop (`weak_ptr`) and reports every
status change through one callback, which broadcasts to WebSocket clients. The
sequencer owns a `std::jthread` that executes targets one after the other; a
target executes its tasks on that thread, while REST threads may cancel and edit
them. The script service submits Python tasks to the interpreter pool and waits
for their futures. Device commands call the device manager from several threads,
and its health monitor is a thread of its own.

## Modules

| module | models | kind |
|---|---|---|
| `Sublists` | the elements of a list that are in a set, in the order of the list | operator |
| `TaskManager` | `server/task_manager.cpp` without periodic tasks, and the status callback of `server/main_server.hpp` | state machine |
| `MCTaskManager` | symmetry for TLC | MC |
| `TaskManager_proofs` | theorems | TLAPS |
| `EventLoop` | `server/eventloop.{hpp,cpp}` | state machine |
| `PeriodicTasks` | `schedulePeriodicTask`, `cancelPeriodicTask`, `runPeriodicTask`, composed with `EventLoop` | composition |
| `PeriodicTasks_proofs` | theorems, also about `EventLoop` | TLAPS |
| `TargetGraph` | what `findCyclicDependency` and `updateTargetReadyStatus` compute | operators |
| `SequenceLife` | what `executeAll` and `stop` promise to their callers | abstract specification |
| `Sequencer` | `task/core/sequencer.cpp` and the status changes of `Target::execute` | state machine, implements `SequenceLife` |
| `MCSequencer` | the names of the targets, symmetry and view for TLC | MC |
| `Sequencer_proofs` | theorems: types, rest, joins, dependencies | TLAPS |
| `SequencerRuns_proofs` | theorems: lists of targets, failures, runs, `stop()`, the refinement | TLAPS |
| `TargetOutcome` | what `Target::execute` promises to the sequence | abstract specification |
| `TargetExecution` | `task/core/target.cpp`, `task.cpp`, `task/components/common/task_base.hpp` | state machine, implements `TargetOutcome` |
| `MCTargetExecution` | which tasks have post-tasks | MC |
| `TargetExecution_proofs` | theorems | TLAPS |
| `TaskExecutor` | what the pool promises to whoever submits a task | abstract specification |
| `InterpreterPool` | `script/interpreter_pool.cpp` | state machine, implements `TaskExecutor` |
| `MCInterpreterPool` | priorities | MC |
| `InterpreterPool_proofs` | theorems | TLAPS |
| `DeviceManager` | `device/manager/manager.cpp`, `manager_impl.cpp` | state machine |
| `DeviceManager_proofs` | theorems | TLAPS |
| `ListLemmas` | lemmas on lists, used by five of the proof modules | TLAPS |

A definition whose comment begins with `slip:` is a plausible mistake in the
definition after it. No specification uses it; it is there to show that a
property notices (see *Mutants*).

### TaskManager

The status of a task, its cancellation flag and its age are three functions of
the task. A closure is a little program counter, because it reads and writes
`status` without `mutex_`: the load of `cancelRequested` (`ClosureCheck`),
`status = Running` (`ClosureStart`), the stamp, the call of the runner
(`ClosureRun`), the reads after it (`ClosureDecide`), the final write
(`ClosureFinish`), its counting (`ClosureCount`) and the stamp. A runner that
throws something other than a `std::exception` leaves the closure where it is
(`escaped`). A notification is three steps of the thread that makes it
(`callback`): the callback is copied under `mutex_`, reads the status without it,
and broadcasts what it read, so that broadcasts of two threads may overtake each
other. `cancelTask`
is two steps although it holds the mutex, because the closure does not
(`CancelRequest`, `CancelWrite`); the mutex is a variable for that reason.
`failTask`, `updateProgress` and `setResult` look the task up under the mutex and
write without it. `cleanupOldTasks` is one step under the mutex. Time is reduced
to one bit per task: older than `max_age` or not.

A closure that was posted is run at most once, by some worker, while the loop
lives; that it is run at all is not assumed, because the default build of the loop
never does (see `EventLoop` below, and the run `loop_posted`). Liveness is
therefore stated of what has begun: `WhatBeganEnds` starts where a closure has found
its task cancelled or its runner has come back.

Left out: the contents of results, progress and errors, the order of equal
priorities, and runners that set `task->status` themselves (none does).

### EventLoop

`useAsio` is the macro `USE_ASIO`, chosen once from `Builds`. Without it (no build file defines it) `post*`
fill `legacy_tasks_`, and `workerThread` empties `task_queue_`: nothing ever
arrives there, so the module has no variable for it and a worker only looks at
`stop_flag_`. With it the workers run an `io_context` (external): a handler runs
once, on one worker, and the context stops for good when nothing is pending and
no handler is at work. `emitEvent` with a subscriber keeps `queue_mutex_` for
ever, which is `emitting`. A job may be posted again once its function was
called, which is what periodic tasks do.

### PeriodicTasks

A periodic task is a chain: `runPeriodicTask` looks the task up, tests
`cancelled`, locks its `weak_ptr` to the loop, posts a closure with a delay, lets
the pointer go; the closure tests `cancelled`, calls the runner and calls
`runPeriodicTask` again, on the worker that runs it. Each of these is a step. The
module extends `EventLoop`: posting is the loop's `PostDelayed`, the closure is
called by the loop's `AsioHandler`, other users post, stop, run and emit, and the
application may let the loop go at any time. Ownership is explicit, because the
loop is destroyed by whoever lets the last `shared_ptr` go: the application
(`owned`) or a thread inside `runPeriodicTask` (`held`). If that thread is a
worker, `~EventLoop` joins its own thread and the process ends (`terminated`);
TLC reaches it, and nothing is said of such a state afterwards.

### Sequencer

Threads are `Clients` (REST threads; `Controllers` are those that call
`executeAll` and `stop`) and one sequence thread per run. `executeAll` is three
steps and the join of the old thread: compare_exchange (`ExecuteAll`), reset and
notification (`ExecuteReset`), the new jthread (`ExecuteSpawn`), the join of the
thread it replaces (`JoinOld`). `stop` is six: load, store of Stopping, join,
joined, store of Idle, notification. The sequence thread picks a target under
the lock (`GetNextExecutableTarget`), looks at Stopping once more, executes the
target (`StartTarget`, `FinishTarget`), accounts for it, and ends with the store
of Idle and the notification. A target that is destroyed while the thread points
to it becomes `Freed`; using it, or joining a thread twice, sets `fault`, after
which nothing is said. `retryFailedTargets` and `skipFailedTargets` take the list
under the lock and reset the targets one lock at a time.

A target is an object, told apart from others by its UUID; `NameOf` gives its name,
which other targets may have too, since `addTarget` only refuses a UUID that is
there. What the code finds by name is the first one in the list (`IsFirst`):
`removeTarget`, `modifyTarget`, retry and skip. `reorderTargetsByDependencies`
visits every name once, so it takes over the first target of each name, in reverse
order, and destroys the others (`Keep`).

Persistence is modelled by what is written: `saveSequence` names and enabled
flags, `saveToDatabase` state, targets, statuses and dependencies but not the
list of failures. Every save inserts a row and `loadFromDatabase` gets the first,
so only the first is kept.
`Crash` loses everything but the file and the row.

`SequenceLife` is what a caller sees of this, without the stored state, the list of
targets and the joins: runs that follow one another, each of them between targets,
committed to one, executing it or settling its result; and calls of `stop()` that are
asked, heard and answered. Once a `stop()` is heard no run commits itself to another
target; it is answered, and returns, only while no run is under way, and no run
begins before. A crash may happen in any stage. `ImplementsLife` maps the threads
(`StageAt`) and the calls (`StopAt`) to it. A `stop()` is heard when Stopping is
stored, not from the call; a target picked before and looked at after the store is
given up, and one that the thread had committed itself to before is finished.

Abstractions: `failedTargets_`, statistics, callbacks and macros are left out; `joinable()` and
`join()` are one step; `maxConcurrentTargets_` is a constant; the tasks of a
target are reduced to Completed or Failed. `handleTargetError` is not reached,
because `Target::execute` catches what its tasks throw; neither are
`executeSequential`, `executeParallel` and their kind, which `executeSequence`
does not call.

### TargetExecution and TargetOutcome

One thread is inside `Target::execute`; its position is the record `exec`: the
loop it is in, the tasks and groups still to come, the task whose `execute` it is
in and, for a post-task, the task it belongs to. `Task::execute` is the refusals
(`Refused`), the store of InProgress (`ActionBegins`), an exception
(`ActionThrows`), the load of `cancelled_` (`Decide`) and the store of Completed
(`Store`), because `Task::cancel` does its three accesses (`Cancel`, `CancelFlag`,
`CancelFail`) without a lock in between. `Bases` are the tasks of class
`TaskBase`, whose `execute` rethrows and does not store a status when cancelled.
`mutex_` is held shared over the loop of the ungrouped tasks and over each task of
a group (`MutexFree`); the mutexes of groups and dependencies are held for one
step at a time, so both may be edited in the middle of an execution. Init is any
target that `addTask`, `addTaskToGroup` and `addTaskDependency` can have built,
within `MaxLinks`.

`TargetOutcome` says what the sequence may rely on: one look at `enabled`,
Skipped, or InProgress and then one outcome, and a return, while others may store
statuses of their own. `Sequencer` executes a target in the same steps
(`SkipTarget`, `StartTarget`, `FinishTarget`). That `TargetExecution` implements it is
the property `ImplementsOutcome`.

Left out: parameters, error texts, history, times, progress, JSON. Pre-tasks are
executed by nobody and only appear as a reason to refuse.

### InterpreterPool and TaskExecutor

What the pool does under `mutex_` is one step; `notify_one` and `notify_all`,
which it calls without the mutex, are steps of their own, and a worker in
`wait()` goes on only when notified or spuriously. The queue is the set of queued
tasks with, for each, the number of tasks submitted after it, which orders them as
`submitTime` does. A future is pending, has a value, or is broken when its promise
is destroyed with its task. `shutdown` is five steps (flag, notification, join,
clear, `initialized_`), the destructor `shutdown(false)` and the members after
it: a worker that was not joined ends the process. `initialize` may fail when one of
its threads cannot be started; those before it keep running although the pool is not
initialized (`InitializeFails`).

The body of a task takes the GIL (`EnterPython`), runs, gives it back and sets the
value (`RunTask`). The GIL starts out with the thread that made the
`scoped_interpreter`, the `Host`. No line of the repository releases it; CPython
hands it to other threads while the host runs Python code, which is external here
(`HostYields`, `HostTakes`). Inside a call of the pool the host keeps it.

`TaskExecutor` is the pool without threads: it opens and closes at most once,
accepts while open, starts nothing while something more urgent, or as urgent and
earlier, waits, drops what waits at once or not at all, and never drops what runs.
The code orders equal priorities by `submitTime` (the `sequenceNumber` is never
compared); that two submissions have different time stamps is assumed.

### DeviceManager

Devices of one type. `state` is the manager's record, `driver` what the driver
would answer, which also changes by itself. A call that uses a driver has two
steps, the driver (`act`) and the record (`write`), because the record is written
outside the exclusive lock; sweeps over all devices keep other calls from
changing the list. The monitor thread waits, locks, and goes through the devices,
each again in two steps. A driver that throws in `isConnected()` is left out. The
manager keeps an entry for the primary device that may be `Null`.

## Runs

| run | instance | shows |
|---|---|---|
| `task_races` | 1 task, 2 client threads, the closure and cleanup, 1 `failTask`, fair | cancellation before the check never runs; in time never Completed; every status is broadcast after it was stored; cleanup drops no open task; a finished status only turns Failed; a call, and an outcome that is due, come to their end |
| `task_registry` | 2 tasks, 1 thread | map, order and `listActiveTasks` agree; counters bracket the tasks |
| `periodic` | 1 periodic task, 1 other job, 2 workers, both builds, fair | whoever has a pointer has a living loop; cancellation cuts the chain after at most one run and nothing else does; the destructor of the loop returns |
| `sequence_single` | 2 targets, 2 clients, 1 controller, 2 runs, fair | `stop()` stops; one run at a time; implements `SequenceLife`; runs end, calls return |
| `sequence_races` | 2 controllers, 2 runs | no failure lost; Idle at rest |
| `sequence_edits` | 3 targets, two of them with one name, 1 client, 1 run, reorder, remove, file, database, crash | the target list is complete and without doubles; of every name that is not removed a target is left |
| `target` | 2 tasks, 1 post-task, 2 groups, 2 executions, 1 edit, 1 cancellation, fair | dependencies completed before; a confirmed cancellation is final; a failing ungrouped task fails the target; every task has its turn, once; implements `TargetOutcome` |
| `script_pool` | 2 tasks, 2 priorities, 2 workers and a third left by a failed `initialize`, the host of the GIL, 1 controller, 2 initialisations, fair | one thread at a time in Python; a future is pending exactly while its task is queued or on one worker; statistics add up; `shutdown(true)` waits; calls return unless the host keeps the GIL for good; implements `TaskExecutor` |
| `devices` | 2 devices, 1 client, 1 monitor controller, 1 retry, fair | a removed device is not primary; the monitor brings the record back to the drivers; calls return |

Two clients on one task, with its closure and cleanup, put a cancellation, a failure
and the closure's end between any two steps of each other; two tasks show what tasks
share, the registry and the counters. Two targets give an order, a dependency and
a failure beside a success; two runs give the race of an old and a new thread;
`MaxCalls` bounds retries, removals and loads, `MaxConcurrentTargets` is 1, the
default of the code. Symmetry is declared in `task_registry`, `sequence_races`
and `sequence_edits` only, which check no liveness; in `Sequencer` the sets Clients and Controllers are equal or clients are one, so
that a permutation respects both. The latter two also identify states that differ in
`completedTargets_` and `totalTargets_` only (`WithoutCounts`), which no operation reads
and neither run's properties name. In `target` the bounds cut whole calls, never
steps inside one: two executions show what a retry meets, one entry in a group or
one dependency already separates the two loops, and one edit or abort lands at
every point of an execution. In `script_pool` two tasks of two priorities meet in the queue and on the workers; a
second initialisation after a shutdown is the case in which `shuttingDown_` is stale,
and one after a failed `initialize` that in which workers of both are there. That a
full queue refuses is in the model but not reached with two tasks; the theorems cover
it. In `devices` nothing but the length of the list and the retries is
bounded: calls and changes of the drivers go on for ever.

### Disagreements

Each of these runs checks what a comment or a test says and TLC finds it violated
by what the code does.

| run | statement | what happens |
|---|---|---|
| `loop_posted` | a posted closure runs (`tests/server/test_eventloop.cpp:53`) | it lies in a queue nobody pops |
| `sequence_stop` | `stop` stops (`sequencer.hpp:120`) | not between the compare_exchange and the thread of `executeAll` |
| `pool_destructor` | the destructor "waits for pending tasks" (`interpreter_pool.hpp:217`) | called by the thread that has the GIL it joins a worker whose task waits for the GIL: neither goes on |

Building the model showed more that no run states, because the model's action
would only repeat the statement or because one run per question is enough:

- `executeAll` "executes all targets" (`sequencer.hpp:115`), but targets without
  any dependency operation are never marked ready: a sequence built with
  `addTarget` alone is over without executing anything.
- A sequence saved while Running is Running after a load, without a thread, and
  `executeAll` refuses for ever (`sequencer.hpp:647` calls it the current state).
- `setPrimaryDevice` accepts any device; `tests/device/test_device_manager.cpp:138`
  expects an exception for one that is not registered.
- Removing the last device of a type leaves a null entry in `primaryDevices`, which
  `addDevice` takes for a primary device: later devices never become primary, against
  `manager.cpp:51` ("Set as primary if first device of this type").
- Two threads that start and stop the health monitor can assign over a joinable
  thread, which ends the process (`manager_impl.cpp:142`).
- `connectAllDevices` records devices as connected whatever `connect()` returned.
- `shutdown(false)` of the interpreter pool waits for all tasks as `shutdown(true)`
  does (`interpreter_pool.hpp:239` says that the argument decides): workers leave
  only when the queue is empty. `ShutdownWaits` speaks of `shutdown(true)` only.
- `shutdown` of the pool never takes `shuttingDown_` back: a pool initialized again
  refuses every task, and destroying it ends the process. So does destroying a pool
  whose `initialize` failed after it had started a worker (`interpreter_pool.cpp:145`),
  because `shutdown` does nothing while `initialized_` is false. The destructor is said
  to wait (`interpreter_pool.hpp:217`).
- Status events may overtake each other (`main_server.hpp:524` reads the status, `:571`
  sends it, without a lock): an observer that takes the last event for the current
  status may be wrong for good.
- `Target::abort` during an execution is overwritten by its outcome; `aborted_` and
  `paused_` are never read. `cancelled_` of a task is never cleared, so a task that
  was cancelled fails in every later execution.
- A failure in a group never fails the target. A cancelled `TaskBase` whose
  `cancel()` has yet to store Failed does not fail it either. A post-task of class
  `TaskBase` that throws turns its Completed task Failed.
- `Target::fromJson` gives the tasks new uuids while the groups and dependencies it
  restores name the old ones. `completedTasks_` is never reset.
- The last pointer to the event loop may be released by `runPeriodicTask` on a
  worker of the loop, which then joins itself.
- `emitEvent` (`eventloop.hpp:200`) calls `post` under the mutex `post` locks: with
  a subscriber it never returns, and nobody can post afterwards.
- `pause` (`sequencer.hpp:125`) stores Paused, and the sequence thread looks for
  Stopping only: it takes up further targets.
- `updateTargetReadyStatus` marks a target ready when its dependencies exist, not
  when they ran; `tests/task/test_enhanced_system.cpp:121` says "Target3 should not be
  ready initially" where the code says that it is.
- `deserializeFromJson` restores failed targets but not the list that
  `retryFailedTargets` (`sequencer.hpp:394`) goes through.
- `removeTarget` during a run lowers the total but not the completed count, so the
  progress may exceed the 100 of `sequencer.hpp:209`, and so may a load of a shorter
  sequence. The counters are in the model; no property is stated of them.
- `removeTarget`, a reordering with repeated names and the loads destroy targets while
  the sequence thread may be executing one (`sequencer.cpp:89`, `:234`, `:751`,
  `:1169`). The model reaches the use of a destroyed target (`UseAfterFree`) and says
  nothing after it.
- `retryFailedTargets` (`sequencer.hpp:394`, "Retries all failed targets") looks names
  up: of two failed targets with one name only the first is reset. `FailedIsListed` is
  checked and proved for distinct names.
- `saveToDatabase` (`sequencer.hpp:438`) inserts a further row under a `uuid_` that
  nothing sets, and the load asks for one row and gets the first: later saves are
  never loaded. The transaction object returned by `beginTransaction` is dropped
  and rolls back at once, the insert commits by itself, and the explicit COMMIT
  and ROLLBACK throw: the call fails although it has saved.
- `reorderTargetsByDependencies` (`sequencer.hpp:746`) looks dependencies up in a
  vector it has moved from, finds none and reverses the list. Of targets with one name
  it keeps the first and destroys the others (`:740`).

Other places that no interleaving is needed to get wrong, or that the modules
leave out: closures that the loop still holds use a task manager that may be gone
(`task_manager.cpp:62`); `postDelayed` with `USE_ASIO`
appends to `timers_` without a lock, and `schedulePeriodic` captures a local by
reference (`eventloop.cpp:239`); `executeAll` may assign over a jthread that a
`stop()` of another controller is joining (`sequencer.cpp:130`); a target restored
as InProgress keeps every run from taking up another (`:606`);
`getNextExecutableTarget` and `checkDependencies` lock a `std::shared_mutex` shared
that their thread already holds shared (`sequencer.cpp:806`, `target.cpp:321`); a
cancellation between the load of the flag and the store of Completed is confirmed
and overwritten (`task.cpp:98`); the timeout of a task is looked at when its action
has returned (`task.cpp:88`); the record of connected devices is a map written with
the lock shared or not at all (`manager_impl.cpp:176`), and a connection that ends
after a removal makes an entry for a device that is gone; `addDevice` and
`resetDevice` call subscribers under the exclusive lock (`manager.cpp:70`);
`acquire` of the pool takes the GIL while it holds the mutex
(`interpreter_pool.cpp:225`).

## Fairness

`TaskManager`: a thread inside a call goes on, and so does a closure that is being
executed: weak fairness of the steps of each client and each closure. Nothing is
assumed about calls being made, about the loop taking up a queued closure, or about a
runner coming back. `PeriodicTasks`: workers,
threads inside `runPeriodicTask` and the joining thread are scheduled and timers
expire; strong fairness of calling a pending closure, because `io_context` is a
queue and other jobs do not overtake it for ever. `Sequencer`: the sequence thread
and threads inside calls are scheduled, and the tasks of a target end.
`TargetExecution`: the executing thread goes on, actions end. `InterpreterPool`:
workers, threads inside `shutdown` or the destructor, and the notifications that
submitters owe; a worker that asks for the GIL gets it if it is free again and again
(strong fairness of `Enter`: CPython's hand-over); that the host ever gives it up is
not assumed, and spurious wakeups are possible and never assumed. `DeviceManager`:
threads inside calls, the controller and the monitor; drivers answer, and the
monitor's wait has a timeout. Elsewhere the code has no step that waits for
another thread other than mutexes (one step each) and joins (guards), so weak
fairness is what a preemptive scheduler gives.

## Proofs

`TaskManager_proofs`, from `ConstantsAssumption` only (finitely many tasks, a
value for the free mutex), for any number of tasks and threads:

- `Typing`: types, with the mutex conjunct that `cancelWrite` is where it is held.
- `Inductive`: `IInv`, which adds to the properties where a closure can be. It
  relates the closure's program counter to `status` and the calls (a task that
  was not submitted has no closure; a task cancelled early has its flag set
  before the check; a final program counter has a final status). None of the properties is inductive by itself:
  for instance that an early cancellation prevents the run needs that the flag is
  never taken back and that the program counter is still before the check.
- `EarlyCancel`, `InTimeCancel`, `Vanished`, `DoneStable` follow.
- `Notified`: `HeardInv` says of every task that its status was broadcast since it was
  stored or that some thread will broadcast it: one that has not read the status yet,
  or has read this very one. Whoever stores a status becomes such a thread.
- `RegistryKept`: `task_order_` lists `tasks_`, each id once (`RegistryInv`), because
  a submission adds an id that is in neither and `cleanupOldTasks` takes the same
  ids out of both; that a task at work is found by `listActiveTasks` then follows
  from `IInv`.
- `CountersHold`: `CountersBracketTasks` is not inductive. `CountersInv` bounds the
  completions by the tasks whose run has ended (`RunsEnded`) and the cancellations by
  those that `cancelTask` and those that the closure can have counted
  (`CountedByCall`, `CountedByClosure`), and from below by the tasks in a final status
  whose closure is not between the store and the count. `ClosureSaw` says what a closure
  at a given point has seen.

`Sequencer_proofs`, from `SequencerAssumption` only, for any targets, clients,
controllers and runs:

- `Typing`: types, through loads and crashes.
- `Owned`: a run that was created and has no thread yet belongs to exactly one
  client inside `executeAll`; a run not begun has no thread; only retries and
  skips hold names.
- `ComesToRest`: the sequence at rest is Idle. The strengthening is that whenever the
  state is not Idle some thread or some `stop()` is still to store Idle
  (`SomebodyStoresIdle`).
- `JoinsEnd`: the jthread holds a thread that was started, and so does every call that
  waits in a join (`JoinsStarted`), for any number of controllers. A sequence thread
  waits for nobody, so no cycle of waiting can arise between `executeAll`, `stop` and
  the threads; that the joins return is the liveness that `RunsEnd` checks.
- `DependenciesHold`: no cycle of dependencies, in the sequence or in what was saved,
  and the targets marked ready are closed under dependencies, although adding,
  removing and reordering targets leave the marks as they are.

The hypotheses of these and the next theorems that are not about constants are on what
a step of the behaviour may do, `Spec /\ [][A]_vars => ...`: all operations are called,
and `A` rules out single calls in single states. `FailuresListed` (below) rules out loads of a
row with a failure that is not in the list (`LoadsNoFailure`), `ComesToRest` loads of a
row that was not saved Idle (`LoadsIdle`). Both are necessary: a sequence saved while
Running is loaded as Running without a thread, and the list of failures is not saved.

`SequencerRuns_proofs`, from the same assumption:

- `TargetsStay`, without any further hypothesis, for every operation, crash and load
  and any names: `Listed` is its invariant `ListInv`, which extends `ListedOnce` to what
  was saved and to the file, since a load takes its list from there, and says that a
  thread points at an existing target or at none. That a reordering leaves an earlier
  target of the name in place of one it drops needs that every listed target has a first
  one of its name (`FirstOfName`).
- `FailuresListed`: no failure is lost, if names are distinct. The step from Failed to
  listed is covered by the accounting thread, the step from taken to reset by the
  client that holds the name. With two targets of one name it is false.
- `RunsFollow`, for one controller and loads from the database that are made while no
  run is live (`LoadsAtRest`): `OrderInv` says that only
  the last run is live and then the state is not Idle, that the jthread holds it,
  that `stop()` joins the thread that the jthread holds, and that no run is live
  between `stop()`'s store of Idle and its return. `StopEndsRuns` follows: it is false
  with two controllers (`sequence_stop`), and a load during a run may store Idle under
  it. `SingleRun` adds that what is InProgress is on a thread (`Executed`), and needs
  that there is no load from the database at all, since one brings back an InProgress
  target without a thread.
- `LivesAsPromised`, under the hypotheses of `RunsFollow`: the refinement of
  `SequenceLife`. Runs and answers come from `OrderInv`; that a run which is live while
  `stop()` waits will find Stopping (`Heeded`) is an invariant of its own, because
  `pause` and `resume` (they compare first), another `executeAll` (refused) and the
  `stop()` of an earlier run (it has returned) could all have stored over it.

`PeriodicTasks_proofs`, from `LoopAssumption` and `PeriodicAssumption` (periodic
tasks are jobs of the loop, and no job is called as a worker's own states are), for
any periodic tasks, jobs and workers and both builds:

- `LoopTyping`: the loop by itself.
- `UsesLoop`: the composition implements `EventLoop`'s own specification, so that
  what holds of the loop holds of it under periodic tasks. A step of a periodic
  task is one operation of the loop or none.
- `Typing`, `LoopKept`, `CancelBounds`, from `Inductive`. `CancelStopsRuns` alone is
  not inductive: that a run is possible at all after `cancelPeriodicTask` needs a
  closure past its check, and that there is at most one needs that the chain looks
  the task up again in a map it has left (`CancelInv`).

`TargetExecution_proofs`, from `TargetAssumption`, for any tasks, post-tasks, groups, executions, edits and
cancelling threads:

- `CancelHolds`: `CancelInv` says that `cancel()` sets the flag before it stores
  Failed, that a task cancelled in time keeps flag and status, and that nobody is
  about to store Completed for it.
- `FailureCounts`: `FailureInv` follows a failure on its way from the task to
  `anyTaskFailed`, through a post-task that fails its parent.
- `Typing`: in three parts (`TypeParts`), with the conjunct that the thread has a
  parent task exactly while it is inside a post-task.
- `EveryTaskInTurn`, from `TurnsKept`. `TasksInTurn` speaks of the end of an
  execution and of sums; what is inductive is a balance for each task that nobody
  regroups (`InTurn`): in the loop over the tasks an ungrouped task has run or is
  still listed and a grouped one has not run; in the loop over the groups the runs of
  a task, its groups to come and its place in the list at hand do not exceed its
  groups. `LeftInv` is the other direction: a task that depends on nothing has run,
  was refused, or has a turn to come. Both need that no list names a task twice
  (`ListInv`). `NeedsInv` is about the dependencies.
- `OneOutcome`: every step of an execution is a step of `TargetOutcome` or a
  stutter; the refinement up to liveness.

`InterpreterPool_proofs`, from `PoolAssumption`, for any tasks, priorities, workers and controllers:

- `Typing`: with the conjunct that one thread at most has the GIL.
- `NoFutureLost`, from `Inductive`, whose parts are that at most one thread is
  inside `shutdown` past its flag and what it has done to the workers (`CallInv`).
- `Waited`, whatever calls of `initialize` failed before: a worker leaves only when the
  queue is empty and nothing is accepted any more (`GoneInv`), and an initialized pool
  has a worker until its shutdown has joined them.
- `StatisticsAccount`: `StatisticsAddUp` is inductive relative to `Inductive`. Each
  operation moves a task from one number to another, and only an accepted submission
  changes the sum; that clearing the queue breaks open futures only, and that a
  worker's task has an open future, come from `PendingIsHeld`.
- `ExecutesSafely`: the refinement of `TaskExecutor`. The mapping is `Phase` (what has
  become of a task, read off the queue, the workers and its future), `Gate` (whether the
  pool accepts) and `Before` (which of two queued tasks came first).

`DeviceManager_proofs`, from `DeviceAssumption`, for any devices, clients and
retries:

- `Typing`, with the bound on the attempts to connect.
- `PrimaryNeverStale`: the action property `RemovedNotPrimary`, from what taking the
  first entry of a device out of the list leaves in it.

`ListLemmas` has what these proofs need of lists: what `RemoveFirst`, `Append`,
`Tail`, `Reverse`, `SetToSeqs` and the choice of a sublist by rank return of a list
that names every element of a set once (`Lists`).

Every invariant and action property that a passing run checks is a theorem, under the
hypotheses named above. Model-checked only: liveness (fairness is out of the prover's
reach), also that of the refinement of `TargetOutcome`; `SequenceLife` and
`TaskExecutor` have none. The hypotheses `LoadsIdle`, `LoadsNoFailure` and `LoadsAtRest`
were first tried with TLC on small instances with every operation, constrained to steps
that satisfy them. That the two graph algorithms compute what `TargetGraph` says
(`Acyclic`, `Supported`) is by reading: it takes induction over data, which the
provers at hand cannot do.

## Mutants

For every property of every passing run `PROJECT.json` names a `slip:` definition
that makes TLC report that property when it takes the place of the code's.

## Plan

Done: the task manager with the event loop, the sequencer and its abstract life, targets and tasks, the
interpreter pool, the device manager. Next, in this order:

1. Rate limiters (limits, refill, rounding), the device event bus, the process
   pool of the isolated script runner.
2. An abstract specification of the task manager for its WebSocket clients: the
   statuses that are notified, in their order.

## Not modelled

`components` of `PROJECT.json` lists every part with its reason. Most of the
repository is wrappers of drivers and libraries, network and process I/O, REST
handlers that parse and forward, catalogues and astronomical arithmetic in floating
point, and logging and terminal code: there is little state in them that several
actors share, and what there is lies in the libraries.
