---------------------------- MODULE InterpreterPool ----------------------------
(***************************************************************************)
(* script/interpreter_pool.cpp: worker threads that take Python tasks from *)
(* a priority queue.  What happens under mutex_ is one step; the           *)
(* notifications, which the code makes after unlocking, are steps of their *)
(* own, and a worker in wait() goes on only when it is notified.           *)
(*                                                                         *)
(* The body of every task takes the GIL.  It starts out with the thread    *)
(* that made the PythonWrapper, and that thread gives it up only while it  *)
(* runs Python code.  acquire() and release(), which nothing in the        *)
(* repository calls, are left out.                                         *)
(***************************************************************************)
EXTENDS Naturals, FiniteSets

CONSTANTS Tasks,        \* submitted callables, each submitted once
          Priority,     \* TaskPriority of each
          NoTask,       \* the task of a worker without one
          MaxThreads,   \* bound: threads in workers_
          NumWorkers,   \* how many of them a call of initialize() starts
          Controllers,  \* threads that call initialize, shutdown, the destructor
          Host,         \* the thread of the scoped_interpreter, perhaps one of them
          MaxQueuedTasks, \* config_.maxQueuedTasks
          MaxInits,     \* bound: successful calls of initialize
          MaxFails,     \* bound: calls that could not start all workers
          MaxResets     \* bound: calls of resetStatistics

ASSUME PoolAssumption ==
  /\ IsFiniteSet(Tasks) /\ NoTask \notin Tasks /\ Priority \in [Tasks -> Nat]
  /\ MaxThreads \in Nat /\ NumWorkers \in Nat \ {0}
  /\ MaxQueuedTasks \in Nat /\ MaxInits \in Nat /\ MaxFails \in Nat /\ MaxResets \in Nat

Workers == 1..MaxThreads

VARIABLES
  initialized_, shuttingDown_,
  taskQueue_,     \* how many tasks were submitted after each queued one, which is
                  \* what submitTime says of the order: the clock goes on from one
                  \* critical section to the next
  future,         \* what the future of a task holds
  unnotified,     \* tasks whose submitter has yet to call notify_one
  worker,         \* what a worker thread does, and its task
  hostGil,        \* the host has the GIL; otherwise a worker in "python", or nobody
  stats_,         \* totalTasks and cancelledTasks
  caller,         \* where a controller is, and its argument waitForTasks
  pool,           \* the object: "alive", "destroying", "destroyed", "terminated"
  inits, fails, resets,  \* bounded calls so far
  forgotten       \* history: tasks counted by statistics that were reset

life == <<pool, inits, fails, resets>>
vars == <<initialized_, shuttingDown_, taskQueue_, future, unnotified, worker,
          hostGil, stats_, caller, life, forgotten>>

WorkerPc == {"none", "lock", "wait", "run", "python", "count", "gone"}
CallerPc == {"idle", "notify", "join", "clear", "down", "destruct"}
Futures  == {"none", "refused", "pending", "value", "broken"}

AtWork(pc, t) == [pc |-> pc, task |-> t]
InCall(pc, wait) == [pc |-> pc, wait |-> wait]

Queued == DOMAIN taskQueue_
Empty == [t \in {} |-> 0]

NoStats == [total |-> 0, cancelled |-> 0]

Init ==
  /\ initialized_ = FALSE /\ shuttingDown_ = FALSE
  /\ taskQueue_ = Empty
  /\ future = [t \in Tasks |-> "none"]
  /\ unnotified = {}
  /\ worker = [w \in Workers |-> AtWork("none", NoTask)]
  /\ stats_ = NoStats
  /\ caller = [c \in Controllers |-> InCall("idle", FALSE)]
  /\ hostGil = TRUE
  /\ pool = "alive" /\ inits = 0 /\ fails = 0 /\ resets = 0
  /\ forgotten = 0

Usable == pool = "alive"

-----------------------------------------------------------------------------
\* the host calls from C++ code, with the GIL
MayCall(c) == caller[c].pc = "idle" /\ (c = Host => hostGil)

\* k times emplace_back: the threads that follow the n that are there
StartWorkers(k) ==
  \E n \in 0..(MaxThreads - k) :
    /\ \A w \in Workers : w <= n <=> worker[w].pc # "none"
    /\ worker' = [w \in Workers |-> IF w \in (n + 1)..(n + k) THEN AtWork("lock", NoTask)
                                                            ELSE worker[w]]

\* the flag shuttingDown_ is not taken back
Initialize(c) ==
  /\ Usable /\ MayCall(c) /\ inits < MaxInits
  /\ ~initialized_
  /\ StartWorkers(NumWorkers)
  /\ initialized_' = TRUE
  /\ inits' = inits + 1
  /\ UNCHANGED <<shuttingDown_, taskQueue_, future, unnotified, hostGil, stats_, caller,
                 pool, fails, resets, forgotten>>

\* emplace_back throws: what was started goes on, and nobody remembers it
InitializeFails(c) ==
  /\ Usable /\ MayCall(c) /\ fails < MaxFails
  /\ ~initialized_
  /\ \E k \in 0..(NumWorkers - 1) : StartWorkers(k)
  /\ fails' = fails + 1
  /\ UNCHANGED <<initialized_, shuttingDown_, taskQueue_, future, unnotified, hostGil,
                 stats_, caller, pool, inits, resets, forgotten>>

QueueFull == Cardinality(Queued) >= MaxQueuedTasks

Accepting == initialized_ /\ ~shuttingDown_ /\ ~QueueFull

\* submitTask up to the unlock; the time is read under the lock
SubmitTask(t) ==
  /\ Usable /\ future[t] = "none"
  /\ IF Accepting
     THEN /\ future' = [future EXCEPT ![t] = "pending"]
          /\ taskQueue_' = [u \in Queued \cup {t} |->
                               IF u = t THEN 0 ELSE taskQueue_[u] + 1]
          /\ unnotified' = unnotified \cup {t}
     ELSE /\ future' = [future EXCEPT ![t] = "refused"]
          /\ UNCHANGED <<taskQueue_, unnotified>>
  /\ UNCHANGED <<initialized_, shuttingDown_, worker, hostGil, stats_,
                 caller, life, forgotten>>

Wake(w) == worker' = [worker EXCEPT ![w] = AtWork("lock", NoTask)]
Waiting == {w \in Workers : worker[w].pc = "wait"}

\* the notify_one after it
NotifyOne(t) ==
  /\ t \in unnotified
  /\ unnotified' = unnotified \ {t}
  /\ \/ Waiting = {} /\ UNCHANGED worker
     \/ \E w \in Waiting : Wake(w)
  /\ UNCHANGED <<initialized_, shuttingDown_, taskQueue_,
                 future, hostGil, stats_, caller, life, forgotten>>

\* promises that go with their task leave a future that throws broken_promise
Broken(S) == [t \in Tasks |-> IF t \in S THEN "broken" ELSE future[t]]

\* slip: what was cancelled is not counted
CancelUncounted ==
  /\ Usable
  /\ future' = Broken(Queued)
  /\ taskQueue_' = Empty
  /\ UNCHANGED <<initialized_, shuttingDown_, unnotified, worker, hostGil, stats_, caller,
                 life, forgotten>>

CancelAllTasks ==
  /\ Usable
  /\ future' = Broken(Queued)
  /\ stats_' = [stats_ EXCEPT !.cancelled = @ + Cardinality(Queued)]
  /\ taskQueue_' = Empty
  /\ UNCHANGED <<initialized_, shuttingDown_, unnotified, worker, hostGil, caller, life,
                 forgotten>>

ResetStatistics ==
  /\ Usable /\ resets < MaxResets
  /\ resets' = resets + 1
  /\ stats_' = NoStats
  /\ forgotten' = forgotten + stats_.total + stats_.cancelled
  /\ UNCHANGED <<initialized_, shuttingDown_, taskQueue_,
                 future, unnotified, worker, hostGil, caller, pool, inits, fails>>

-----------------------------------------------------------------------------
(* workerThread *)

WorkUnchanged ==
  UNCHANGED <<initialized_, shuttingDown_, unnotified, caller, life, forgotten>>

\* slip: the comparison of the priorities is the wrong way round
LeastUrgent(t, u) ==
  \/ Priority[t] < Priority[u]
  \/ Priority[t] = Priority[u] /\ taskQueue_[t] >= taskQueue_[u]

\* operator<: u does not come before t
NotAfter(t, u) ==
  \/ Priority[t] > Priority[u]
  \/ Priority[t] = Priority[u] /\ taskQueue_[t] >= taskQueue_[u]

\* top() and pop()
TakeTask(w) ==
  /\ worker[w].pc = "lock"
  /\ \E t \in Queued :
       /\ \A u \in Queued : NotAfter(t, u)
       /\ taskQueue_' = [u \in Queued \ {t} |-> taskQueue_[u]]
       /\ worker' = [worker EXCEPT ![w] = AtWork("run", t)]
  /\ UNCHANGED <<hostGil, future, stats_>> /\ WorkUnchanged

\* wait(): the predicate is tested under the lock, which wait() gives up
WaitForTask(w) ==
  /\ worker[w].pc = "lock" /\ Queued = {} /\ ~shuttingDown_
  /\ worker' = [worker EXCEPT ![w] = AtWork("wait", NoTask)]
  /\ UNCHANGED <<hostGil, taskQueue_, future, stats_>> /\ WorkUnchanged

\* wait() may return without a notification
SpuriousWakeup(w) ==
  /\ worker[w].pc = "wait" /\ Wake(w)
  /\ UNCHANGED <<hostGil, taskQueue_, future, stats_>> /\ WorkUnchanged

\* slip: the queue is not looked at
LeaveAtOnce(w) ==
  /\ worker[w].pc = "lock" /\ shuttingDown_
  /\ worker' = [worker EXCEPT ![w] = AtWork("gone", NoTask)]
  /\ UNCHANGED <<hostGil, taskQueue_, future, stats_>> /\ WorkUnchanged

LeaveLoop(w) ==
  /\ worker[w].pc = "lock" /\ shuttingDown_ /\ Queued = {}
  /\ worker' = [worker EXCEPT ![w] = AtWork("gone", NoTask)]
  /\ UNCHANGED <<hostGil, taskQueue_, future, stats_>> /\ WorkUnchanged

GilFree == ~hostGil /\ \A w \in Workers : worker[w].pc # "python"

\* slip: the task does not take the GIL
EnterUnlocked(w) ==
  /\ worker[w].pc = "run"
  /\ worker' = [worker EXCEPT ![w] = AtWork("python", worker[w].task)]
  /\ UNCHANGED <<hostGil, taskQueue_, future, stats_>> /\ WorkUnchanged

\* gil_scoped_acquire in the task
EnterPython(w) ==
  /\ worker[w].pc = "run" /\ GilFree
  /\ worker' = [worker EXCEPT ![w] = AtWork("python", worker[w].task)]
  /\ UNCHANGED <<hostGil, taskQueue_, future, stats_>> /\ WorkUnchanged

\* slip: an exception leaves without set_value
RunUnresolved(w) ==
  /\ worker[w].pc = "python"
  /\ worker' = [worker EXCEPT ![w] = AtWork("count", worker[w].task)]
  /\ UNCHANGED <<hostGil, taskQueue_, future, stats_>> /\ WorkUnchanged

\* the Python code, the GIL given back, and the wrapper built by submitTask:
\* set_value, whatever was thrown
RunTask(w) ==
  /\ worker[w].pc = "python"
  /\ future' = [future EXCEPT ![worker[w].task] = "value"]
  /\ worker' = [worker EXCEPT ![w] = AtWork("count", worker[w].task)]
  /\ UNCHANGED <<hostGil, taskQueue_, stats_>> /\ WorkUnchanged

\* the statistics, which tell success and failure apart as the model does not
CountTask(w) ==
  /\ worker[w].pc = "count"
  /\ stats_' = [stats_ EXCEPT !.total = @ + 1]
  /\ worker' = [worker EXCEPT ![w] = AtWork("lock", NoTask)]
  /\ UNCHANGED <<hostGil, taskQueue_, future>> /\ WorkUnchanged

-----------------------------------------------------------------------------
(* shutdown and ~Impl.  A shutdown that finds the pool not initialized, or    *)
(* one already begun, returns without doing anything.                        *)

CallUnchanged == UNCHANGED <<unnotified, hostGil, inits, fails, resets, forgotten>>
Goto(c, pc) == caller' = [caller EXCEPT ![c] = InCall(pc, caller[c].wait)]

Shutdown(c) ==
  /\ Usable /\ MayCall(c)
  /\ initialized_ /\ ~shuttingDown_
  /\ shuttingDown_' = TRUE
  /\ \E wait \in BOOLEAN : caller' = [caller EXCEPT ![c] = InCall("notify", wait)]
  /\ UNCHANGED <<initialized_, taskQueue_, future, worker, stats_, pool>>
  /\ CallUnchanged

\* slip: one worker is notified, not all
ShutdownNotifyOne(c) ==
  /\ caller[c].pc = "notify"
  /\ \/ Waiting = {} /\ UNCHANGED worker
     \/ \E w \in Waiting : Wake(w)
  /\ Goto(c, "join")
  /\ UNCHANGED <<initialized_, shuttingDown_, taskQueue_, future, stats_, pool>>
  /\ CallUnchanged

ShutdownNotify(c) ==
  /\ caller[c].pc = "notify"
  /\ worker' = [w \in Workers |-> IF w \in Waiting THEN AtWork("lock", NoTask)
                                                   ELSE worker[w]]
  /\ Goto(c, "join")
  /\ UNCHANGED <<initialized_, shuttingDown_, taskQueue_, future, stats_, pool>>
  /\ CallUnchanged

\* slip: the threads are left to themselves
ShutdownWithoutJoin(c) ==
  /\ caller[c].pc = "join"
  /\ Goto(c, IF caller[c].wait THEN "down" ELSE "clear")
  /\ UNCHANGED <<initialized_, shuttingDown_, taskQueue_, future, worker, stats_, pool>>
  /\ CallUnchanged

ShutdownJoin(c) ==
  /\ caller[c].pc = "join"
  /\ \A w \in Workers : worker[w].pc \in {"none", "gone"}
  /\ worker' = [w \in Workers |-> AtWork("none", NoTask)]
  /\ Goto(c, IF caller[c].wait THEN "down" ELSE "clear")
  /\ UNCHANGED <<initialized_, shuttingDown_, taskQueue_, future, stats_, pool>>
  /\ CallUnchanged

ShutdownClear(c) ==
  /\ caller[c].pc = "clear"
  /\ stats_' = [stats_ EXCEPT !.cancelled = @ + Cardinality(Queued)]
  /\ future' = Broken(Queued)
  /\ taskQueue_' = Empty
  /\ Goto(c, "down")
  /\ UNCHANGED <<initialized_, shuttingDown_, worker, pool>> /\ CallUnchanged

ShutdownDown(c) ==
  /\ caller[c].pc = "down"
  /\ initialized_' = FALSE
  /\ Goto(c, IF pool = "alive" THEN "idle" ELSE "destruct")
  /\ UNCHANGED <<shuttingDown_, taskQueue_, future, worker, stats_, pool>>
  /\ CallUnchanged

\* ~Impl, when nobody else uses the pool: shutdown(false) ...
Destroy(c) ==
  /\ Usable /\ unnotified = {} /\ MayCall(c)
  /\ \A d \in Controllers : caller[d].pc = "idle"
  /\ pool' = "destroying"
  /\ IF initialized_ /\ ~shuttingDown_
     THEN shuttingDown_' = TRUE /\ caller' = [caller EXCEPT ![c] = InCall("notify", FALSE)]
     ELSE UNCHANGED shuttingDown_ /\ Goto(c, "destruct")
  /\ UNCHANGED <<initialized_, taskQueue_, future, worker, stats_>> /\ CallUnchanged

\* ... then the members: a thread that was not joined ends the process
Destruct(c) ==
  /\ caller[c].pc = "destruct"
  /\ pool' = IF \E w \in Workers : worker[w].pc # "none" THEN "terminated" ELSE "destroyed"
  /\ future' = Broken(Queued)
  /\ taskQueue_' = Empty
  /\ Goto(c, "idle")
  /\ UNCHANGED <<initialized_, shuttingDown_, worker, stats_>> /\ CallUnchanged

-----------------------------------------------------------------------------
(* The host.  CPython lets other threads have the GIL while the host runs     *)
(* Python code, and nothing in the repository does so elsewhere.             *)

HostYields ==
  /\ hostGil /\ hostGil' = FALSE
  /\ Host \in Controllers => caller[Host].pc = "idle"
  /\ UNCHANGED <<taskQueue_, future, worker, stats_>> /\ WorkUnchanged

HostTakes ==
  /\ GilFree /\ hostGil' = TRUE
  /\ UNCHANGED <<taskQueue_, future, worker, stats_>> /\ WorkUnchanged

-----------------------------------------------------------------------------
Up == pool # "terminated"

WorkerStep(w) == /\ Up
                 /\ \/ TakeTask(w) \/ WaitForTask(w) \/ LeaveLoop(w)
                    \/ RunTask(w) \/ CountTask(w)
Enter == Up /\ \E w \in Workers : EnterPython(w)
CallStep(c) == /\ Up
               /\ \/ ShutdownNotify(c) \/ ShutdownJoin(c) \/ ShutdownClear(c)
                  \/ ShutdownDown(c) \/ Destruct(c)

Next ==
  \/ \E c \in Controllers : \/ Initialize(c) \/ InitializeFails(c) \/ Shutdown(c)
                            \/ Destroy(c) \/ CallStep(c)
  \/ \E t \in Tasks : SubmitTask(t) \/ NotifyOne(t)
  \/ CancelAllTasks \/ ResetStatistics
  \/ \E w \in Workers : WorkerStep(w) \/ (Up /\ SpuriousWakeup(w))
  \/ Enter
  \/ Up /\ (HostYields \/ HostTakes)

Spec == Init /\ [][Next]_vars

\* threads keep running, tasks return, a call that has begun goes on, and a GIL
\* that is free again and again goes to a worker that asks for it; nothing is said
\* of spurious wakeups, nor of the host ever giving the GIL up
Fairness == /\ \A w \in Workers : WF_vars(WorkerStep(w))
            /\ SF_vars(Enter)
            /\ \A c \in Controllers : WF_vars(CallStep(c))
            /\ \A t \in Tasks : WF_vars(NotifyOne(t))
FairSpec == Spec /\ Fairness

-----------------------------------------------------------------------------
(* Properties *)

\* Types, and one thread at most has the GIL.
TypeOK ==
  /\ initialized_ \in BOOLEAN /\ shuttingDown_ \in BOOLEAN
  /\ Queued \subseteq Tasks /\ taskQueue_ \in [Queued -> Nat] /\ unnotified \subseteq Tasks
  /\ future \in [Tasks -> Futures]
  /\ worker \in [Workers -> [pc : WorkerPc, task : Tasks \cup {NoTask}]]
  /\ stats_ \in [total : Nat, cancelled : Nat]
  /\ caller \in [Controllers -> [pc : CallerPc, wait : BOOLEAN]]
  /\ pool \in {"alive", "destroying", "destroyed", "terminated"}
  /\ inits \in 0..MaxInits /\ fails \in 0..MaxFails /\ resets \in 0..MaxResets
  /\ forgotten \in Nat /\ hostGil \in BOOLEAN
  /\ \A v, w \in Workers :
       worker[v].pc = "python" => ~hostGil /\ (worker[w].pc = "python" => v = w)

AtTask == {"run", "python"}
Carrying(t) == \E w \in Workers : worker[w].pc \in AtTask /\ worker[w].task = t
Uncounted == {w \in Workers : worker[w].pc \in AtTask \cup {"count"}}

\* A future is unresolved exactly while its task is queued or on one worker.
PendingIsHeld ==
  /\ \A t \in Tasks : future[t] = "pending" <=> t \in Queued \/ Carrying(t)
  /\ \A v, w \in Workers : worker[v].pc \in AtTask /\ worker[w].pc \in AtTask
       /\ worker[v].task = worker[w].task => v = w
  /\ \A w \in Workers : worker[w].pc \in AtTask => worker[w].task \notin Queued

\* The statistics account for every task that was accepted: it is queued, on a
\* worker, executed or cancelled, across cancelAllTasks, shutdown and reset.
StatisticsAddUp ==
  Up /\ pool # "destroyed" =>
    Cardinality({t \in Tasks : future[t] \notin {"none", "refused"}})
      = Cardinality(Queued) + Cardinality(Uncounted)
        + stats_.total + stats_.cancelled + forgotten

\* shutdown(true) waits for pending tasks: it comes to its end with no task queued
\* or on a worker, those of an initialize() that failed half way included.
ShutdownWaits ==
  \A c \in Controllers : caller[c].pc = "down" /\ caller[c].wait =>
    Queued = {} /\ \A t \in Tasks : ~Carrying(t)

\* Every call of shutdown and the destructor returns, and every task that was accepted
\* gets an outcome, unless the host has the GIL for good: no worker sleeps through a
\* notification.
CallsReturn ==
  \/ /\ \A c \in Controllers : caller[c].pc # "idle" ~> caller[c].pc = "idle"
     /\ \A t \in Tasks : future[t] = "pending" ~> future[t] # "pending"
  \/ <>[]hostGil

\* The destructor comes to its end: interpreter_pool.hpp says that it "shuts down pool
\* and waits for pending tasks".
DestructorEnds == pool = "destroying" ~> pool = "destroyed"

\* What became of a task, as its submitter sees it, and whether the pool accepts.
Phase == [t \in Tasks |->
            CASE future[t] = "none"    -> "none"
              [] future[t] = "refused" -> "refused"
              [] future[t] = "value"   -> "ready"
              [] future[t] = "broken"  -> "cancelled"
              [] OTHER -> IF t \in Queued THEN "waiting" ELSE "running"]
Gate == IF inits = 0 THEN "new" ELSE IF shuttingDown_ THEN "closed" ELSE "open"

Before == {p \in Queued \X Queued : taskQueue_[p[1]] > taskQueue_[p[2]]}

\* The pool implements TaskExecutor: no task is lost, run twice or cancelled while
\* it runs, nothing is accepted after the shutdown began, and a task starts only when
\* nothing more urgent, and nothing as urgent that came earlier, is queued.
Executor == INSTANCE TaskExecutor WITH phase <- Phase, gate <- Gate, before <- Before
ImplementsExecutor == Executor!ExecSpec
=============================================================================
