---------------------------- MODULE PeriodicTasks ----------------------------
(***************************************************************************)
(* The periodic tasks of the task manager (schedulePeriodicTask,           *)
(* cancelPeriodicTask and runPeriodicTask in server/task_manager.cpp) on   *)
(* the event loop.  Each run of a task posts the next one, so a task is a  *)
(* chain of closures that cancellation, or the end of the loop, must cut.  *)
(*                                                                         *)
(* The task manager has a weak_ptr to the loop and locks it to post; the   *)
(* loop is destroyed by the thread that lets the last shared_ptr go, which *)
(* may be a worker of the loop itself.  Others use the loop too.           *)
(***************************************************************************)
EXTENDS EventLoop

CONSTANTS Periodic  \* the ids generateId() will hand out; their closures are jobs

ASSUME PeriodicAssumption == Periodic \subseteq Jobs

VARIABLES
  periodic_tasks_,  \* the ids in the map
  cancelled,        \* PeriodicTaskInfo::cancelled
  chain,            \* where the chain of closures of a task is, and on which
                    \* thread: a worker, or (the id) the one that scheduled it
  owned,            \* the application has a shared_ptr to the loop
  held,             \* threads whose runPeriodicTask has one
  terminated,       \* std::terminate: a worker destroyed the loop and joined itself
  runsAfterCancel,  \* history: runner calls begun after cancelPeriodicTask
  pastCheck         \* history: tasks cancelled between the closure's check and
                    \* its call of the runner

periodicVars == <<periodic_tasks_, cancelled, chain, held, runsAfterCancel, pastCheck>>
vars == <<loopVars, periodicVars, owned, terminated>>

ChainPc == {"none", "arm", "armCheck", "armLock", "armPost", "queued", "checked",
            "running", "ended"}
At(pc, by) == [pc |-> pc, by |-> by]

Init ==
  /\ LoopInit
  /\ periodic_tasks_ = {}
  /\ cancelled = [p \in Periodic |-> FALSE]
  /\ chain = [p \in Periodic |-> At("none", p)]
  /\ owned = TRUE /\ held = {} /\ terminated = FALSE
  /\ runsAfterCancel = [p \in Periodic |-> 0]
  /\ pastCheck = {}

Move(p, from, to) == chain[p].pc = from /\ chain' = [chain EXCEPT ![p].pc = to]
LoopUnchanged == UNCHANGED <<loopVars, owned, terminated>>
MapUnchanged == UNCHANGED <<periodic_tasks_, cancelled, pastCheck>>

\* registers the task; its thread goes on to call runPeriodicTask
SchedulePeriodicTask(p) ==
  /\ Move(p, "none", "arm")
  /\ periodic_tasks_' = periodic_tasks_ \cup {p}
  /\ UNCHANGED <<cancelled, held, runsAfterCancel, pastCheck>> /\ LoopUnchanged

\* slips: the map entry is erased but the closures are not told; the flag is
\* set but the entry stays
CancelErasesOnly(p) ==
  /\ p \in periodic_tasks_
  /\ periodic_tasks_' = periodic_tasks_ \ {p}
  /\ UNCHANGED <<cancelled, chain, held, runsAfterCancel, pastCheck>> /\ LoopUnchanged
CancelFlagsOnly(p) ==
  /\ p \in periodic_tasks_
  /\ cancelled' = [cancelled EXCEPT ![p] = TRUE]
  /\ UNCHANGED <<periodic_tasks_, chain, held, runsAfterCancel, pastCheck>>
  /\ LoopUnchanged

CancelPeriodicTask(p) ==
  /\ p \in periodic_tasks_
  /\ cancelled' = [cancelled EXCEPT ![p] = TRUE]
  /\ periodic_tasks_' = periodic_tasks_ \ {p}
  /\ pastCheck' = IF chain[p].pc = "checked" THEN pastCheck \cup {p} ELSE pastCheck
  /\ UNCHANGED <<chain, held, runsAfterCancel>> /\ LoopUnchanged

-----------------------------------------------------------------------------
(* runPeriodicTask: look up under the mutex, test the flag, lock the loop, post *)

ArmLookUp(p) ==
  /\ Move(p, "arm", IF p \in periodic_tasks_ THEN "armCheck" ELSE "ended")
  /\ UNCHANGED <<held, runsAfterCancel>> /\ MapUnchanged /\ LoopUnchanged

ArmCheck(p) ==
  /\ Move(p, "armCheck", IF cancelled[p] THEN "ended" ELSE "armLock")
  /\ UNCHANGED <<held, runsAfterCancel>> /\ MapUnchanged /\ LoopUnchanged

\* slip: what lock() returns is not looked at
ArmLockUnchecked(p) ==
  /\ Move(p, "armLock", "armPost") /\ held' = held \cup {chain[p].by}
  /\ UNCHANGED runsAfterCancel /\ MapUnchanged /\ LoopUnchanged

ArmLock(p) ==
  /\ IF loop = "alive"
     THEN Move(p, "armLock", "armPost") /\ held' = held \cup {chain[p].by}
     ELSE Move(p, "armLock", "ended") /\ UNCHANGED held
  /\ UNCHANGED runsAfterCancel /\ MapUnchanged /\ LoopUnchanged

\* from here on the chain may go on elsewhere, while this thread has yet to
\* let its pointer go
ArmPost(p) ==
  /\ Move(p, "armPost", "queued")
  /\ PostDelayed(p)
  /\ UNCHANGED <<held, owned, terminated, runsAfterCancel>> /\ MapUnchanged

\* the end of runPeriodicTask; the last pointer takes the loop with it
Release(x) ==
  /\ x \in held /\ \A p \in Periodic : ~(chain[p] = At("armPost", x))
  /\ held' = held \ {x}
  /\ IF owned \/ held' # {} THEN UNCHANGED <<loopVars, terminated>>
     ELSE IF x \in Workers THEN terminated' = TRUE /\ UNCHANGED loopVars
     ELSE Destruct /\ UNCHANGED terminated
  /\ UNCHANGED <<periodic_tasks_, cancelled, chain, owned, runsAfterCancel, pastCheck>>

-----------------------------------------------------------------------------
(* The posted closure, once interval has passed, on a worker of the loop. *)

Fire(w, p) ==
  /\ AsioHandler(w, p)
  /\ chain' = [chain EXCEPT ![p] = At(IF cancelled[p] THEN "ended" ELSE "checked", w)]
  /\ UNCHANGED <<held, owned, terminated, runsAfterCancel>> /\ MapUnchanged

RunnerBegins(p) ==
  /\ Move(p, "checked", "running")
  /\ runsAfterCancel' =
       [runsAfterCancel EXCEPT ![p] = IF p \in periodic_tasks_ THEN @ ELSE @ + 1]
  /\ UNCHANGED held /\ MapUnchanged /\ LoopUnchanged


\* the runner returns or throws a std::exception: both lead to runPeriodicTask
RunnerEnds(p) ==
  /\ Move(p, "running", "arm")
  /\ UNCHANGED <<held, runsAfterCancel>> /\ MapUnchanged /\ LoopUnchanged

InClosure(w) ==
  \/ w \in held
  \/ \E p \in Periodic : chain[p].by = w /\ chain[p].pc \notin {"queued", "ended"}

\* the application lets the loop go
LetGo ==
  /\ owned /\ owned' = FALSE
  /\ IF held = {} THEN Destruct ELSE ~emitting /\ UNCHANGED loopVars
  /\ UNCHANGED <<periodicVars, terminated>>

-----------------------------------------------------------------------------
ChainStep(p) == \/ ArmLookUp(p) \/ ArmCheck(p) \/ ArmLock(p) \/ ArmPost(p)
                \/ RunnerBegins(p) \/ RunnerEnds(p)

LoopThread(w) ==
  \/ /\ UNCHANGED <<periodicVars, owned, terminated>>
     /\ \/ LoopWorkerStep(w)
        \/ HandlerReturns(w) /\ ~InClosure(w)
        \/ \E j \in Jobs \ Periodic : AsioHandler(w, j)
  \/ \E p \in Periodic : Fire(w, p)
LoopJoined == Joined /\ UNCHANGED <<periodicVars, owned, terminated>>

Next ==
  /\ ~terminated
  /\ \/ \E p \in Periodic : \/ SchedulePeriodicTask(p) \/ CancelPeriodicTask(p)
                            \/ ChainStep(p)
     \/ \E x \in Workers \cup Periodic : Release(x)
     \/ \E w \in Workers : LoopThread(w)
     \/ LoopJoined \/ LetGo
     \/ /\ UNCHANGED <<periodicVars, owned, terminated>>
        /\ owned
        /\ \E j \in Jobs \ Periodic : Request(j)
     \/ /\ UNCHANGED <<periodicVars, owned, terminated>>
        /\ owned
        /\ Others

Spec == Init /\ [][Next]_vars

\* workers and callers keep running and runners return; timers expire, and
\* io_context_ is a queue, so that other jobs do not keep a closure waiting for ever
Fairness == /\ \A p \in Periodic : WF_vars(~terminated /\ ChainStep(p))
            /\ \A x \in Workers \cup Periodic : WF_vars(~terminated /\ Release(x))
            /\ \A w \in Workers : WF_vars(~terminated /\ LoopThread(w))
            /\ \A p \in Periodic : SF_vars(~terminated /\ \E w \in Workers : Fire(w, p))
            /\ WF_vars(~terminated /\ LoopJoined)
FairSpec == Spec /\ Fairness

-----------------------------------------------------------------------------
(* Properties *)

\* Types, and a registered task is never marked cancelled.
TypeOK ==
  /\ LoopTypeOK
  /\ periodic_tasks_ \subseteq Periodic
  /\ cancelled \in [Periodic -> BOOLEAN]
  /\ chain \in [Periodic -> [pc : ChainPc, by : Workers \cup Periodic]]
  /\ owned \in BOOLEAN /\ held \subseteq Workers \cup Periodic /\ terminated \in BOOLEAN
  /\ runsAfterCancel \in [Periodic -> Nat]
  /\ pastCheck \subseteq Periodic
  /\ \A p \in periodic_tasks_ : ~cancelled[p] /\ chain[p].pc # "none"

\* The loop lives as long as somebody has a pointer to it, and a task whose
\* closure is pending is pending in the loop.
LoopOutlivesUsers ==
  /\ owned \/ held # {} => loop = "alive"
  /\ \A p \in Periodic : chain[p].pc = "queued" <=> p \in posted

\* After cancelPeriodicTask the runner is called again at most once, and only if
\* the closure had already made its check.
CancelStopsRuns ==
  \A p \in Periodic : runsAfterCancel[p] <= (IF p \in pastCheck THEN 1 ELSE 0)


\* ~EventLoop returns: stop_flag_, or the end of the timers and of the chains they
\* continue, reaches every worker, although run() may have taken an earlier stop()
\* back.  (That it begins once the application lets go is not promised: with two
\* workers a chain can lock the loop before the closure before it lets go.)
DestructionEnds == loop = "destroying" ~> loop = "destroyed"
=============================================================================
