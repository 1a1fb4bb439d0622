------------------------------ MODULE EventLoop ------------------------------
(***************************************************************************)
(* server/eventloop.{hpp,cpp}: the thread pool that TaskManager and the    *)
(* command dispatcher post to.  useAsio is the macro USE_ASIO, which no    *)
(* build file of the repository defines: the default build is FALSE.       *)
(*                                                                         *)
(* In the default build post* put jobs into legacy_tasks_ while            *)
(* workerThread pops task_queue_, which nothing but workerThread pushes    *)
(* to.  task_queue_ is therefore always empty and has no variable here; a  *)
(* worker only polls stop_flag_.  With USE_ASIO the workers run            *)
(* io_context_ (external), which stops for good once it is out of work;    *)
(* stop() does not stop it.  PeriodicTasks composes the periodic tasks of  *)
(* the task manager with this module.                                      *)
(***************************************************************************)
EXTENDS Naturals

CONSTANTS Jobs,           \* closures handed to post, postDelayed, ...
          Workers,        \* thread_pool_
          Builds,         \* values of the macro USE_ASIO
          MaxSubscribers  \* bound: subscriptions to the event

ASSUME LoopAssumption == /\ Builds \subseteq BOOLEAN /\ MaxSubscribers \in Nat
                         /\ "running" \notin Jobs /\ "exited" \notin Jobs

VARIABLES
  useAsio,        \* the build
  posted,         \* jobs handed to the loop whose function was not called yet
  legacy_tasks_,  \* jobs in the queue nobody pops
  io,             \* handlers and timers pending in io_context_
  ioStopped,      \* io_context_ ran out of work and is stopped
  stop_flag_,
  worker,         \* a worker is "running", inside a job, or has "exited"
  subscribers,    \* callbacks of the event
  emitting,       \* a thread is inside emitEvent, holding queue_mutex_
  loop            \* the object: "alive", "destroying", "destroyed"

loopVars == <<useAsio, posted, legacy_tasks_, io, ioStopped, stop_flag_, worker,
              subscribers, emitting, loop>>

LoopInit ==
  /\ useAsio \in Builds
  /\ posted = {} /\ legacy_tasks_ = {} /\ io = {}
  /\ ioStopped = FALSE /\ stop_flag_ = FALSE
  /\ worker = [w \in Workers |-> "running"]
  /\ subscribers = 0 /\ emitting = FALSE
  /\ loop = "alive"

\* queue_mutex_ can be locked: only a thread stuck in emitEvent keeps it
MutexFree == ~emitting

-----------------------------------------------------------------------------
Post(j) ==
  /\ loop = "alive" /\ j \notin posted /\ MutexFree
  /\ posted' = posted \cup {j}
  /\ legacy_tasks_' = legacy_tasks_ \cup {j}
  /\ io' = IF useAsio THEN io \cup {j} ELSE io
  /\ UNCHANGED <<useAsio, ioStopped, stop_flag_, worker,
                 subscribers, emitting, loop>>

\* with USE_ASIO a timer that takes no lock; setTimeout is the same call
PostDelayed(j) ==
  /\ loop = "alive" /\ j \notin posted
  /\ posted' = posted \cup {j}
  /\ IF useAsio
     THEN io' = io \cup {j} /\ UNCHANGED legacy_tasks_
     ELSE MutexFree /\ legacy_tasks_' = legacy_tasks_ \cup {j} /\ UNCHANGED io
  /\ UNCHANGED <<useAsio, ioStopped, stop_flag_, worker,
                 subscribers, emitting, loop>>

\* only ever queued in legacy_tasks_, with either build
PostCancelable(j) ==
  /\ loop = "alive" /\ j \notin posted /\ MutexFree
  /\ posted' = posted \cup {j}
  /\ legacy_tasks_' = legacy_tasks_ \cup {j}
  /\ UNCHANGED <<useAsio, io, ioStopped, stop_flag_, worker,
                 subscribers, emitting, loop>>

SubscribeEvent ==
  /\ loop = "alive" /\ MutexFree
  /\ subscribers < MaxSubscribers
  /\ subscribers' = subscribers + 1
  /\ UNCHANGED <<useAsio, posted, legacy_tasks_, io, ioStopped, stop_flag_,
                 worker, emitting, loop>>

\* with a subscriber the thread calls post(), which waits for the mutex the
\* thread itself holds: it never gets any further
EmitEvent ==
  /\ loop = "alive" /\ MutexFree
  /\ subscribers > 0
  /\ emitting' = TRUE
  /\ UNCHANGED <<useAsio, posted, legacy_tasks_, io, ioStopped, stop_flag_,
                 worker, subscribers, loop>>

-----------------------------------------------------------------------------
(* The worker threads. *)

\* default build: the test of the while loop in workerThread
WorkerThread(w) ==
  /\ ~useAsio /\ worker[w] = "running"
  /\ stop_flag_
  /\ worker' = [worker EXCEPT ![w] = "exited"]
  /\ UNCHANGED <<useAsio, posted, legacy_tasks_, io, ioStopped, stop_flag_,
                 subscribers, emitting, loop>>

\* slip: a handler stays pending after it ran
AsioHandlerKept(w, j) ==
  /\ useAsio /\ worker[w] = "running" /\ ~ioStopped
  /\ j \in io
  /\ posted' = posted \ {j}
  /\ worker' = [worker EXCEPT ![w] = j]
  /\ UNCHANGED <<useAsio, legacy_tasks_, io, ioStopped, stop_flag_,
                 subscribers, emitting, loop>>

\* USE_ASIO: io_context_.run() calls a pending handler
AsioHandler(w, j) ==
  /\ useAsio /\ worker[w] = "running" /\ ~ioStopped
  /\ j \in io
  /\ io' = io \ {j} /\ posted' = posted \ {j}
  /\ worker' = [worker EXCEPT ![w] = j]
  /\ UNCHANGED <<useAsio, legacy_tasks_, ioStopped, stop_flag_,
                 subscribers, emitting, loop>>

HandlerReturns(w) ==
  /\ worker[w] \in Jobs
  /\ worker' = [worker EXCEPT ![w] = "running"]
  /\ UNCHANGED <<useAsio, posted, legacy_tasks_, io, ioStopped, stop_flag_,
                 subscribers, emitting, loop>>

\* USE_ASIO: run() returns, and the context stops, when there is no work:
\* nothing pending and no handler at work
AsioExit(w) ==
  /\ useAsio /\ worker[w] = "running"
  /\ ioStopped \/ (io = {} /\ \A v \in Workers : worker[v] \notin Jobs)
  /\ ioStopped' = TRUE
  /\ worker' = [worker EXCEPT ![w] = "exited"]
  /\ UNCHANGED <<useAsio, posted, legacy_tasks_, io, stop_flag_,
                 subscribers, emitting, loop>>

-----------------------------------------------------------------------------
Stop ==
  /\ loop = "alive" /\ ~stop_flag_
  /\ stop_flag_' = TRUE
  /\ UNCHANGED <<useAsio, posted, legacy_tasks_, io, ioStopped, worker, subscribers, emitting, loop>>

\* run() takes the flag back; in the default build its caller then polls too
Run ==
  /\ loop = "alive" /\ stop_flag_
  /\ stop_flag_' = FALSE
  /\ UNCHANGED <<useAsio, posted, legacy_tasks_, io, ioStopped, worker, subscribers, emitting, loop>>

\* slip: the destructor joins without stop()
DestructWithoutStop ==
  /\ loop = "alive" /\ ~emitting
  /\ loop' = "destroying"
  /\ UNCHANGED <<useAsio, posted, legacy_tasks_, io, ioStopped, stop_flag_,
                 worker, subscribers, emitting>>

\* ~EventLoop: stop(), then join every worker
Destruct ==
  /\ loop = "alive" /\ ~emitting
  /\ loop' = "destroying"
  /\ stop_flag_' = TRUE
  /\ UNCHANGED <<useAsio, posted, legacy_tasks_, io, ioStopped, worker, subscribers, emitting>>

Joined ==
  /\ loop = "destroying"
  /\ \A w \in Workers : worker[w] = "exited"
  /\ loop' = "destroyed"
  /\ UNCHANGED <<useAsio, posted, legacy_tasks_, io, ioStopped, stop_flag_,
                 worker, subscribers, emitting>>

LoopWorkerStep(w) == WorkerThread(w) \/ AsioExit(w)

-----------------------------------------------------------------------------
(* The loop by itself, with closures that use nothing else. *)

LoopStep(w) == \/ LoopWorkerStep(w) \/ HandlerReturns(w)
               \/ \E j \in Jobs : AsioHandler(w, j)

Request(j) == Post(j) \/ PostDelayed(j) \/ PostCancelable(j)
Others == SubscribeEvent \/ EmitEvent \/ Stop \/ Run

LoopNext == \/ \E j \in Jobs : Request(j)
            \/ Others \/ Destruct \/ Joined
            \/ \E w \in Workers : LoopStep(w)

LoopSpec == LoopInit /\ [][LoopNext]_loopVars

\* the worker threads keep being scheduled, and so does the joining thread
LoopFairSpec == /\ LoopSpec
                /\ WF_loopVars(Joined) /\ \A w \in Workers : WF_loopVars(LoopStep(w))

-----------------------------------------------------------------------------
(* Properties *)

\* Types, and: what io_context_ holds was posted in a USE_ASIO build and has not
\* run yet, so a posted closure runs at most once; in the default build no worker
\* is ever inside a job.
LoopTypeOK ==
  /\ useAsio \in Builds
  /\ posted \subseteq Jobs /\ legacy_tasks_ \subseteq Jobs
  /\ io \subseteq posted /\ (io # {} => useAsio)
  /\ ioStopped \in BOOLEAN /\ stop_flag_ \in BOOLEAN /\ emitting \in BOOLEAN
  /\ worker \in [Workers -> Jobs \cup {"running", "exited"}]
  /\ \A w \in Workers : worker[w] \in Jobs => useAsio
  /\ subscribers \in 0..MaxSubscribers
  /\ loop \in {"alive", "destroying", "destroyed"}

\* What the tests expect of post(): the closure runs, unless the loop stops.
PostedJobsRun == \A j \in Jobs : j \in posted ~> j \notin posted \/ stop_flag_
=============================================================================
