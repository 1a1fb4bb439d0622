----------------------------- MODULE TaskManager -----------------------------
(***************************************************************************)
(* The server's asynchronous task manager (server/task_manager.cpp): the   *)
(* REST threads submit, cancel, fail, update and clean up tasks while the  *)
(* closures handed to the EventLoop run on its worker threads.             *)
(*                                                                         *)
(* TaskInfo::status and updatedAt are plain fields that the closures and   *)
(* failTask write without mutex_, so a read and the write that depends on  *)
(* it, and a store and its counting, are separate steps here.  Sections    *)
(* under mutex_ are one step, except that of cancelTask, which races with  *)
(* the unlocked writers.                                                   *)
(***************************************************************************)
EXTENDS Sublists, Naturals, FiniteSets, Sequences, SequencesExt

CONSTANTS Tasks,        \* the ids generateId() will hand out
          Clients,      \* the threads that call the manager
          NoClient,     \* mutex_ is free
          MaxFailCalls  \* bound: calls of failTask on one task

ASSUME ConstantsAssumption == /\ IsFiniteSet(Tasks) /\ Tasks # {}
                              /\ NoClient \notin Clients
                              /\ Clients \cap Tasks = {}
                              /\ MaxFailCalls \in Nat

VARIABLES
  status,          \* TaskInfo::status, "None" before the task is created
  cancelRequested, \* TaskInfo::cancelRequested (atomic)
  old,             \* now - TaskInfo::updatedAt > max_age
  tasks_,          \* the ids in the tasks_ map
  task_order_,     \* the ids in submission order
  totals,          \* total_submitted_, _completed_, _failed_, _cancelled_
  loopAlive,       \* event_loop_.lock() yields a loop
  closure,         \* where the closure of a task is
  client,          \* what a client thread is doing, and to which task
  mutex,           \* the client inside cancelTask's critical section
  callback,        \* how far a thread (a client, or the closure of a task) is
                   \* in the status callback, and the status it read there
  heard,           \* the tasks whose status was broadcast since it was stored
  failCalls,       \* calls of failTask so far, by task
  cancelledEarly,  \* history: cancelTask came before the closure's check
  cancelledInTime, \* history: cancelTask came before the final decision
  started          \* history: the runner was invoked

registry == <<tasks_, task_order_>>
early    == <<cancelledEarly, cancelledInTime>>
vars == <<status, cancelRequested, old, registry, totals, loopAlive, closure,
          client, mutex, callback, heard, failCalls, early, started>>

Status     == {"Pending", "Running", "Completed", "Failed", "Cancelled"}
Active     == {"Pending", "Running"}
Counters   == {"submitted", "completed", "failed", "cancelled"}
Counting   == {"cancelStamp", "cancelCount", "countCancelled", "countCompleted",
               "countFailed"}
ClosurePc  == {"none", "queued", "cancelling", "starting", "startStamp",
               "startNotify", "running", "returned", "failing", "escaped",
               "finCancel", "finComplete", "stamp", "endNotify", "done"}
              \cup Counting
BeforeCheck    == {"none", "queued"}
BeforeDecision == BeforeCheck \cup {"starting", "startStamp", "startNotify",
                                    "running", "returned"}
Written        == Counting \cup {"stamp", "endNotify", "done"}
ClientPc   == {"idle", "submitCount", "submitNotify", "submitPost",
               "cancelWrite", "fail", "failStamp", "failCount", "touch", "notify"}
CallbackPc == {"out", "in"} \cup Status

Init ==
  /\ status          = [t \in Tasks |-> "None"]
  /\ cancelRequested = [t \in Tasks |-> FALSE]
  /\ old             = [t \in Tasks |-> FALSE]
  /\ tasks_ = {} /\ task_order_ = <<>>
  /\ totals = [n \in Counters |-> 0]
  /\ loopAlive = TRUE
  /\ closure = [t \in Tasks |-> "none"]
  /\ \E t \in Tasks : client = [c \in Clients |-> [pc |-> "idle", task |-> t]]
  /\ mutex = NoClient
  /\ callback = [x \in Clients \cup Tasks |-> "out"]
  /\ heard = {}
  /\ failCalls = [t \in Tasks |-> 0]
  /\ cancelledEarly = {} /\ cancelledInTime = {} /\ started = {}

-----------------------------------------------------------------------------
(* What several operations share. *)

Unlocked == mutex = NoClient

\* slip: cancellations are not counted
BumpButCancelled(counter) ==
  totals' = [totals EXCEPT ![counter] = IF counter = "cancelled" THEN @ ELSE @ + 1]

Bump(counter) == totals' = [totals EXCEPT ![counter] = @ + 1]

\* updatedAt = now()
Stamp(t) == old' = [old EXCEPT ![t] = FALSE]

\* nobody has heard of a status that was just stored
SetStatus(t, s) == /\ status' = [status EXCEPT ![t] = s]
                   /\ heard'  = heard \ {t}

\* a client thread moves on in its call; it touches neither of these
Goto(c, pc, t) ==
  /\ client' = [client EXCEPT ![c] = [pc |-> pc, task |-> t]]
  /\ UNCHANGED <<loopAlive, started>>

\* the closure of t moves on; it touches none of these
Step(t, from, to) ==
  /\ closure[t] = from
  /\ closure' = [closure EXCEPT ![t] = to]
  /\ UNCHANGED <<cancelRequested, registry, loopAlive, client, mutex,
                 failCalls, early>>

-----------------------------------------------------------------------------
(* notifyStatus, called by a client or a closure x for its task t: it copies *)
(* the callback under mutex_ and calls it without; the callback reads the    *)
(* status into an event and broadcasts that event.                           *)

CopyCallback(x) ==
  /\ callback[x] = "out" /\ Unlocked
  /\ callback' = [callback EXCEPT ![x] = "in"]

\* slip: the event is filled in with the status the task was submitted with
ReadPending(x, t) ==
  /\ callback[x] = "in"
  /\ callback' = [callback EXCEPT ![x] = "Pending"]

ReadStatus(x, t) ==
  /\ callback[x] = "in"
  /\ callback' = [callback EXCEPT ![x] = status[t]]

Broadcast(x, t) ==
  /\ callback[x] \in Status
  /\ heard' = IF callback[x] = status[t] THEN heard \cup {t} ELSE heard
  /\ callback' = [callback EXCEPT ![x] = "out"]

NotifyStatus(x, t) ==
  /\ CopyCallback(x) \/ ReadStatus(x, t)
  /\ UNCHANGED <<status, heard, cancelRequested, old, registry, totals, loopAlive,
                 closure, client, mutex, failCalls, early, started>>

-----------------------------------------------------------------------------
(* submitTask and submitDelayedTask; the delay only postpones the closure.  *)

SubmitInsert(c, t) ==
  /\ client[c].pc = "idle" /\ Unlocked
  /\ status[t] = "None"
  /\ SetStatus(t, "Pending") /\ Stamp(t)
  /\ tasks_' = tasks_ \cup {t}
  /\ task_order_' = Append(task_order_, t)
  /\ Goto(c, "submitCount", t)
  /\ UNCHANGED <<cancelRequested, totals, closure, mutex, callback, failCalls, early>>

SubmitCount(c) ==
  /\ client[c].pc = "submitCount"
  /\ Bump("submitted")
  /\ Goto(c, "submitNotify", client[c].task)
  /\ UNCHANGED <<status, heard, cancelRequested, old, registry, closure, mutex,
                 callback, failCalls, early>>

SubmitPost(c) ==
  /\ client[c].pc = "submitPost"
  /\ loopAlive
  /\ closure' = [closure EXCEPT ![client[c].task] = "queued"]
  /\ Goto(c, "idle", client[c].task)
  /\ UNCHANGED <<status, heard, cancelRequested, old, registry, totals, mutex,
                 callback, failCalls, early>>

SubmitWithoutLoop(c) ==
  /\ client[c].pc = "submitPost"
  /\ ~loopAlive
  /\ SetStatus(client[c].task, "Failed")
  /\ Goto(c, "failCount", client[c].task)
  /\ UNCHANGED <<cancelRequested, old, registry, totals, closure, mutex, callback,
                 failCalls, early>>

-----------------------------------------------------------------------------
(* The closure submitTask posts, run by a worker of the EventLoop.          *)

\* slip: the closure starts without looking at cancelRequested
StartAlways(t) == "starting"

\* the load of cancelRequested that decides whether the runner runs
StartOrCancel(t) == IF cancelRequested[t] THEN "cancelling" ELSE "starting"

\* a worker calls the closure
ClosureCheck(t) ==
  /\ loopAlive
  /\ Step(t, "queued", StartOrCancel(t))
  /\ UNCHANGED <<status, heard, old, totals, callback, started>>

ClosureStart(t) ==
  /\ Step(t, "starting", "startStamp")
  /\ SetStatus(t, "Running")
  /\ UNCHANGED <<old, totals, callback, started>>

ClosureStamp(t) ==
  /\ \/ Step(t, "startStamp", "startNotify")
     \/ Step(t, "cancelStamp", "cancelCount")
     \/ Step(t, "stamp", "endNotify")
  /\ Stamp(t)
  /\ UNCHANGED <<status, heard, totals, callback, started>>

\* after the first notification the runner is called
ClosureRun(t) ==
  /\ Step(t, "startNotify", "running")
  /\ Broadcast(t, t)
  /\ started' = started \cup {t}
  /\ UNCHANGED <<status, old, totals>>

\* the runner returns, throws a std::exception, or throws something else, which
\* leaves the closure with the task as it is (the worker catches it, or, with
\* USE_ASIO, the process ends)
RunnerEnds(t) ==
  /\ \E to \in {"returned", "failing", "escaped"} : Step(t, "running", to)
  /\ UNCHANGED <<status, heard, old, totals, callback, started>>

\* slip: a cancellation during the run is not honoured
OutcomeIgnoringCancel(t) == IF status[t] \in Active THEN "finComplete" ELSE "stamp"

\* the reads of cancelRequested and status after the runner returned
Outcome(t) == IF cancelRequested[t] /\ status[t] # "Failed" THEN "finCancel"
              ELSE IF status[t] \in Active THEN "finComplete"
              ELSE "stamp"

ClosureDecide(t) ==
  /\ Step(t, "returned", Outcome(t))
  /\ UNCHANGED <<status, heard, old, totals, callback, started>>

\* a final status is stored; "cancelling" is the path on which the runner was
\* never called
ClosureFinish(t) ==
  /\ \/ Step(t, "cancelling", "cancelStamp")   /\ SetStatus(t, "Cancelled")
     \/ Step(t, "finCancel", "countCancelled") /\ SetStatus(t, "Cancelled")
     \/ Step(t, "finComplete", "countCompleted") /\ SetStatus(t, "Completed")
     \/ Step(t, "failing", "countFailed")      /\ SetStatus(t, "Failed")
  /\ UNCHANGED <<old, totals, callback, started>>

\* it is counted by a later statement
ClosureCount(t) ==
  /\ \/ Step(t, "cancelCount", "endNotify")    /\ Bump("cancelled")
     \/ Step(t, "countCancelled", "stamp")     /\ Bump("cancelled")
     \/ Step(t, "countCompleted", "stamp")     /\ Bump("completed")
     \/ Step(t, "countFailed", "stamp")        /\ Bump("failed")
  /\ UNCHANGED <<status, heard, old, callback, started>>

ClosureNotify(t) ==
  /\ closure[t] \in {"startNotify", "endNotify"}
  /\ NotifyStatus(t, t)

ClosureDone(t) ==
  /\ Step(t, "endNotify", "done")
  /\ Broadcast(t, t)
  /\ UNCHANGED <<status, old, totals, started>>

-----------------------------------------------------------------------------
(* cancelTask.  The status read and the write it guards are two steps: the  *)
(* closure writes status without the mutex.                                 *)

\* slip: cancelTask marks a task Cancelled whatever its status
AlwaysCancellable(t) == TRUE

NotStarted(t) == status[t] = "Pending"

CancelRequest(c, t) ==
  /\ client[c].pc = "idle" /\ Unlocked
  /\ t \in tasks_
  /\ cancelRequested' = [cancelRequested EXCEPT ![t] = TRUE]
  /\ Goto(c, IF NotStarted(t) THEN "cancelWrite" ELSE "notify", t)
  /\ mutex' = IF NotStarted(t) THEN c ELSE NoClient
  /\ cancelledEarly' = IF closure[t] \in BeforeCheck
                       THEN cancelledEarly \cup {t} ELSE cancelledEarly
  /\ cancelledInTime' = IF closure[t] \in BeforeDecision
                        THEN cancelledInTime \cup {t} ELSE cancelledInTime
  /\ UNCHANGED <<status, heard, old, registry, totals, closure, callback, failCalls>>

\* slip: the lock is kept
KeepLock == UNCHANGED mutex

Unlock == mutex' = NoClient

CancelWrite(c) ==
  /\ client[c].pc = "cancelWrite"
  /\ SetStatus(client[c].task, "Cancelled")
  /\ Stamp(client[c].task) /\ Bump("cancelled")
  /\ Unlock
  /\ Goto(c, "notify", client[c].task)
  /\ UNCHANGED <<cancelRequested, registry, closure, callback, failCalls, early>>

-----------------------------------------------------------------------------
(* failTask, updateProgress and setResult look the task up under mutex_ and *)
(* then write to it without the mutex.                                      *)

LookUp(c, t, pc) ==
  /\ client[c].pc = "idle" /\ Unlocked
  /\ t \in tasks_
  /\ Goto(c, pc, t)
  /\ UNCHANGED <<status, heard, cancelRequested, old, registry, totals, closure,
                 mutex, callback, early>>

FailTask(c, t) ==
  /\ failCalls[t] < MaxFailCalls
  /\ LookUp(c, t, "fail")
  /\ failCalls' = [failCalls EXCEPT ![t] = @ + 1]

FailWrite(c) ==
  /\ client[c].pc = "fail"
  /\ SetStatus(client[c].task, "Failed")
  /\ Goto(c, "failStamp", client[c].task)
  /\ UNCHANGED <<cancelRequested, old, registry, totals, closure, mutex,
                 callback, failCalls, early>>

FailStamp(c) ==
  /\ client[c].pc = "failStamp"
  /\ Stamp(client[c].task)
  /\ Goto(c, "failCount", client[c].task)
  /\ UNCHANGED <<status, heard, cancelRequested, registry, totals, closure, mutex,
                 callback, failCalls, early>>

FailCount(c) ==
  /\ client[c].pc = "failCount"
  /\ Bump("failed")
  /\ Goto(c, "notify", client[c].task)
  /\ UNCHANGED <<status, heard, cancelRequested, old, registry, closure, mutex,
                 callback, failCalls, early>>

\* updateProgress and setResult; what they store is not modelled
TouchTask(c, t) == LookUp(c, t, "touch") /\ UNCHANGED failCalls

TouchWrite(c) ==
  /\ client[c].pc = "touch"
  /\ Stamp(client[c].task)
  /\ Goto(c, "notify", client[c].task)
  /\ UNCHANGED <<status, heard, cancelRequested, registry, totals, closure, mutex,
                 callback, failCalls, early>>

ClientNotify(c) ==
  /\ client[c].pc \in {"submitNotify", "notify"}
  /\ NotifyStatus(c, client[c].task)

ClientBroadcast(c) ==
  /\ \/ client[c].pc = "submitNotify" /\ Goto(c, "submitPost", client[c].task)
     \/ client[c].pc = "notify"       /\ Goto(c, "idle", client[c].task)
  /\ Broadcast(c, client[c].task)
  /\ UNCHANGED <<status, cancelRequested, old, registry, totals, closure, mutex,
                 failCalls, early>>

-----------------------------------------------------------------------------
(* cleanupOldTasks, run by the periodic task or by a command.               *)

\* slip: tasks that are still active are cleaned up too
ExpiredAnyStatus == {t \in tasks_ : old[t]}

Expired == {t \in tasks_ : status[t] \notin Active /\ old[t]}

\* slip: the ids stay in task_order_
EraseFromMap(gone) == tasks_' = tasks_ \ gone /\ UNCHANGED task_order_

Erase(gone) ==
  /\ tasks_' = tasks_ \ gone
  /\ task_order_' = Found(task_order_, tasks_ \ gone)

CleanupOldTasks ==
  /\ Unlocked
  /\ Expired # {}
  /\ Erase(Expired)
  /\ UNCHANGED <<status, heard, cancelRequested, old, totals, loopAlive, closure,
                 client, mutex, callback, failCalls, early, started>>

\* time passes: more than max_age since updatedAt
GrowOld(t) ==
  /\ status[t] # "None" /\ ~old[t]
  /\ old' = [old EXCEPT ![t] = TRUE]
  /\ UNCHANGED <<status, heard, cancelRequested, registry, totals, loopAlive, closure,
                 client, mutex, callback, failCalls, early, started>>

\* the last owner of the EventLoop drops it; queued closures go with it
LoopGone ==
  /\ loopAlive
  /\ loopAlive' = FALSE
  /\ UNCHANGED <<status, heard, cancelRequested, old, registry, totals, closure,
                 client, mutex, callback, failCalls, early, started>>

\* what listActiveTasks returns, and how many tasks getStats finds in a status
ListActiveTasks == Found(task_order_, {t \in tasks_ : status[t] \in Active})
CountIn(s) == Cardinality({t \in tasks_ : status[t] = s})

-----------------------------------------------------------------------------
ClosureStep(t) ==
  \/ ClosureCheck(t) \/ ClosureStart(t)
  \/ ClosureStamp(t) \/ ClosureRun(t) \/ RunnerEnds(t) \/ ClosureDecide(t)
  \/ ClosureFinish(t) \/ ClosureCount(t) \/ ClosureNotify(t) \/ ClosureDone(t)

\* the steps a call takes once it has begun
CallStep(c) ==
  \/ SubmitCount(c) \/ SubmitPost(c) \/ SubmitWithoutLoop(c)
  \/ CancelWrite(c) \/ FailWrite(c) \/ FailStamp(c) \/ FailCount(c)
  \/ TouchWrite(c) \/ ClientNotify(c) \/ ClientBroadcast(c)

Call(c, t) ==
  \/ SubmitInsert(c, t) \/ CancelRequest(c, t) \/ FailTask(c, t)
  \/ TouchTask(c, t)

Next ==
  \/ \E t \in Tasks : ClosureStep(t) \/ GrowOld(t)
  \/ \E c \in Clients : CallStep(c) \/ \E t \in Tasks : Call(c, t)
  \/ CleanupOldTasks
  \/ LoopGone

Spec == Init /\ [][Next]_vars

\* A thread that is inside a call goes on, and so does a closure that is being
\* executed.  Neither that the loop ever calls a queued closure nor that a
\* runner ever comes back is assumed.
Fairness == /\ \A c \in Clients : WF_vars(CallStep(c))
            /\ \A t \in Tasks : WF_vars(/\ closure[t] \notin {"queued", "running"}
                                        /\ ClosureStep(t))
FairSpec == Spec /\ Fairness

-----------------------------------------------------------------------------
(* Properties *)

\* Types, and: mutex_ stays locked between steps exactly while a client is
\* about to write the status inside cancelTask.
TypeOK ==
  /\ status \in [Tasks -> Status \cup {"None"}]
  /\ cancelRequested \in [Tasks -> BOOLEAN]
  /\ old \in [Tasks -> BOOLEAN]
  /\ tasks_ \subseteq Tasks
  /\ totals \in [Counters -> Nat]
  /\ loopAlive \in BOOLEAN
  /\ closure \in [Tasks -> ClosurePc]
  /\ client \in [Clients -> [pc : ClientPc, task : Tasks]]
  /\ mutex \in Clients \cup {NoClient}
  /\ callback \in [Clients \cup Tasks -> CallbackPc]
  /\ heard \subseteq Tasks
  /\ failCalls \in [Tasks -> 0..MaxFailCalls]
  /\ cancelledEarly \subseteq Tasks
  /\ cancelledInTime \subseteq Tasks
  /\ started \subseteq Tasks
  /\ \A c \in Clients : client[c].pc = "cancelWrite" <=> mutex = c

\* tasks_ and task_order_ always hold the same ids, each once: what
\* listAllTasks, which walks task_order_, can show is what getTask can find.  A
\* task whose runner is at work, or was left by an exception nobody catches, and
\* which nobody cancelled or failed is found by listActiveTasks, however long it
\* stays so and however often cleanup comes by.
RegistryConsistent ==
  /\ task_order_ \in Seq(Tasks)
  /\ ToSet(task_order_) = tasks_
  /\ Len(task_order_) = Cardinality(tasks_)
  /\ \A t \in Tasks :
       /\ closure[t] \in {"startStamp", "startNotify", "running", "returned",
                          "escaped"}
       /\ ~cancelRequested[t] /\ failCalls[t] = 0
       => t \in ToSet(ListActiveTasks)

\* A task cancelled before its closure has looked at cancelRequested is never
\* run, whatever else is called on it meanwhile.
EarlyCancelNeverRuns == cancelledEarly \cap started = {}

\* A task cancelled before its runner's outcome is decided never ends up (or
\* is ever shown) as Completed.
InTimeCancelNotCompleted ==
  \A t \in cancelledInTime : status[t] # "Completed"

\* A thread that will still broadcast the status of t.
NotifyOwed(t) ==
  \/ closure[t] \in {"startStamp", "startNotify", "stamp", "endNotify"} \cup Counting
  \/ \E c \in Clients : /\ client[c].task = t
                        /\ client[c].pc \in {"submitCount", "submitNotify",
                                             "failStamp", "failCount", "notify"}

\* No status is lost on observers: once nobody is left who will notify, the
\* status of a task was broadcast after it was stored, although storing it,
\* reading it into the event and sending the event are steps of several threads
\* without a lock.  (Events may overtake each other: that the current status is
\* the last one broadcast does not hold.)
StatusHeard ==
  \A t \in Tasks : status[t] # "None" /\ ~NotifyOwed(t) => t \in heard

\* A task leaves the map before its closure has written a final status only if
\* somebody cancelled or failed it, or it could not be posted at all.
VanishedOnlyIfEnded ==
  \A t \in Tasks :
    status[t] # "None" /\ t \notin tasks_ =>
      \/ closure[t] \in Written
      \/ cancelRequested[t] \/ failCalls[t] > 0
      \/ closure[t] = "none" /\ status[t] = "Failed"

\* closures between the store of a final status and the counter's increment
Uncounted(pcs) == Cardinality({t \in Tasks : closure[t] \in pcs})

\* The counters of getStats bracket the tasks it finds: the completed and the
\* cancelled ones exceed the totals by no more than the closures that have
\* stored the status and not yet counted it, a completion needs a run of its
\* own, and one cancelled task is counted at most twice (by cancelTask and again
\* by its closure).
CountersBracketTasks ==
  /\ CountIn("Completed") <= totals["completed"] + Uncounted({"countCompleted"})
  /\ totals["completed"] <= Cardinality(started)
  /\ CountIn("Cancelled") <= totals["cancelled"] +
       Uncounted({"cancelStamp", "cancelCount", "countCancelled"})
  /\ totals["cancelled"] <= 2 * Cardinality({t \in Tasks : cancelRequested[t]})

\* Once its closure is done a task's status can only be turned into Failed, by
\* failTask: a late cancelTask does not rewrite it.
DoneOnlyFails ==
  [][\A t \in Tasks : closure[t] = "done" /\ status'[t] # status[t]
                         => status'[t] = "Failed"]_vars

\* A closure that found the task cancelled, or whose runner came back with or
\* without a std::exception, stores a final status, announces it and is done, and
\* a client's call returns, whatever the other threads do meanwhile with mutex_
\* and the task; unless a runner throws something that is no std::exception,
\* which with USE_ASIO ends the process.
WhatBeganEnds ==
  LET crashed == \E u \in Tasks : closure[u] = "escaped"
  IN  /\ \A t \in Tasks :
           closure[t] \in {"cancelling", "returned", "failing"}
             ~> crashed \/ (closure[t] = "done" /\ status[t] \notin Active)
      /\ \A c \in Clients : client[c].pc # "idle" ~> crashed \/ client[c].pc = "idle"
=============================================================================
