---------------------------- MODULE TargetExecution ----------------------------
(***************************************************************************)
(* task/core/target.cpp and task.cpp: one thread executes a target, its    *)
(* ungrouped tasks in order and then its groups, while other threads       *)
(* cancel tasks, abort the target and edit groups and dependencies.        *)
(*                                                                         *)
(* status_ and cancelled_ of a task are written without any lock, so the   *)
(* steps of Task::execute and Task::cancel interleave.  mutex_ is held     *)
(* shared over the loop of the ungrouped tasks and over each task of a     *)
(* group; groups and dependencies have mutexes of their own, held for one  *)
(* step at a time.                                                         *)
(*                                                                         *)
(* Parameters, errors, history and times are left out; pre-tasks, which    *)
(* nothing executes, only appear as a reason to refuse.  A timeout is      *)
(* looked at when the action has returned and changes nothing.             *)
(***************************************************************************)
EXTENDS Naturals, Sequences, FiniteSets, SequencesExt

CONSTANTS Tasks,         \* tasks of the target
          Posts,         \* post-tasks
          PostOf,        \* the post-tasks of each task
          Bases,         \* tasks of class TaskBase, whose execute() rethrows
          Groups,        \* names in taskGroups_
          NoTask,
          Clients,       \* threads that call cancel()
          MaxExecutions, MaxEdits, MaxCancels,  \* bounds on calls
          MaxLinks       \* bound: entries of groups and dependencies at first

All == Tasks \cup Posts

ASSUME TargetAssumption ==
  /\ IsFiniteSet(All) /\ IsFiniteSet(Groups) /\ Tasks \cap Posts = {} /\ NoTask \notin All
  /\ PostOf \in [Tasks -> SUBSET Posts] /\ Bases \subseteq All
  /\ MaxExecutions \in Nat /\ MaxEdits \in Nat /\ MaxCancels \in Nat
  /\ MaxLinks \in Nat

VARIABLES
  status_, enabled_,   \* of the target
  tasks_,              \* in order of addition
  taskGroups_, taskDependencies_,
  status, cancelled_,  \* of the tasks
  exec,                \* the thread inside Target::execute
  client,              \* a thread inside Task::cancel
  executions, edits, cancels,  \* bounded calls so far
  atStart,        \* history: the tasks this execution found
  ran,            \* history: actions begun in this execution
  bad,            \* history: ungrouped tasks that threw, were refused or were
                  \* cancelled in time in this execution
  inTime,         \* history: tasks whose cancel() returned true while the
                  \* execution was yet to look at the flag
  touched,        \* history: tasks regrouped or given dependencies meanwhile
  everCompleted   \* history: tasks that were Completed at some time

target == <<status_, enabled_, tasks_, taskGroups_, taskDependencies_>>
history == <<atStart, ran, bad, inTime, touched, everCompleted>>
bounds == <<executions, edits, cancels>>
vars == <<target, status, cancelled_, exec, client, bounds, history>>

TargetStatus == {"Pending", "InProgress", "Completed", "Failed", "Skipped"}
TaskStatus == {"Pending", "InProgress", "Completed", "Failed"}

\* phase: the loop over tasks_ or over the groups; task and parent: the task in
\* Task::execute, and the task it is a post-task of; needs: what task depended on
Idle == [pc |-> "idle", phase |-> "tasks", todo |-> <<>>, groups |-> {},
         failed |-> FALSE, task |-> NoTask, parent |-> NoTask, posts |-> {},
         needs |-> {}]
Resting == [pc |-> "idle", task |-> NoTask]

\* entries of groups and dependencies
Links == SumFunction([g \in Groups |-> Len(taskGroups_[g])])
         + SumFunction([t \in Tasks |-> Cardinality(taskDependencies_[t])])

\* a target as addTask, addTaskToGroup and addTaskDependency may have built it
Init ==
  /\ status_ = "Pending" /\ enabled_ = TRUE
  /\ tasks_ \in SetToAllKPermutations(Tasks)
  /\ taskGroups_ \in [Groups -> SetToAllKPermutations(Tasks)]
  /\ taskDependencies_ \in [Tasks -> SUBSET Tasks]
  /\ Links <= MaxLinks
  /\ status = [t \in All |-> "Pending"] /\ cancelled_ = {}
  /\ exec = Idle /\ client = [c \in Clients |-> Resting]
  /\ executions = 0 /\ edits = 0 /\ cancels = 0
  /\ atStart = {} /\ ran = [t \in Tasks |-> 0] /\ bad = {} /\ inTime = {}
  /\ touched = {} /\ everCompleted = {}

-----------------------------------------------------------------------------
(* Target::execute *)

Executed == UNCHANGED <<tasks_, taskGroups_, taskDependencies_, enabled_, client,
                        edits, cancels>>

\* the histories of an execution end with it
Forget == /\ atStart' = {} /\ ran' = [t \in Tasks |-> 0] /\ bad' = {} /\ touched' = {}
          /\ UNCHANGED <<inTime, everCompleted>>

Execute ==
  /\ exec.pc = "idle" /\ executions < MaxExecutions
  /\ executions' = executions + 1
  /\ exec' = [Idle EXCEPT !.pc = IF enabled_ THEN "begin" ELSE "skip"]
  /\ UNCHANGED <<status_, status, cancelled_, history>> /\ Executed

SkipDisabled ==
  /\ exec.pc = "skip"
  /\ status_' = "Skipped" /\ exec' = Idle /\ Forget
  /\ UNCHANGED <<status, cancelled_, executions>> /\ Executed

Begin ==
  /\ exec.pc = "begin"
  /\ status_' = "InProgress"
  /\ exec' = [exec EXCEPT !.pc = "pick", !.todo = tasks_]
  /\ atStart' = ToSet(tasks_)
  /\ UNCHANGED <<status, cancelled_, executions, ran, bad, inTime, touched,
                 everCompleted>>
  /\ Executed

LoopUnchanged ==
  UNCHANGED <<status_, status, cancelled_, executions, history>> /\ Executed

InGroup(t) == \E g \in Groups : t \in ToSet(taskGroups_[g])

\* slip: dependencies are not looked at
CheckNothing(t) == TRUE

CheckDependencies(t) ==
  \A d \in taskDependencies_[t] : d \in ToSet(tasks_) /\ status[d] = "Completed"

Wanted(t) == /\ CheckDependencies(t)
             /\ IF exec.phase = "tasks" THEN ~InGroup(t) ELSE t \in ToSet(tasks_)

\* slip: break, not continue
PassOverRest == exec' = [exec EXCEPT !.todo = <<>>]

PassOver == exec' = [exec EXCEPT !.todo = Tail(@)]

Pick ==
  /\ exec.pc = "pick" /\ exec.todo # <<>>
  /\ LET t == Head(exec.todo) IN
       IF Wanted(t)
       THEN exec' = [exec EXCEPT !.pc = "enter", !.todo = Tail(@), !.task = t,
                                 !.parent = NoTask, !.needs = taskDependencies_[t]]
       ELSE PassOver
  /\ LoopUnchanged

\* the end of the first loop; the names of the groups are copied
TasksDone ==
  /\ exec.pc = "pick" /\ exec.phase = "tasks" /\ exec.todo = <<>>
  /\ exec' = IF exec.failed THEN [exec EXCEPT !.pc = "finish"]
             ELSE [exec EXCEPT !.phase = "groups", !.groups = Groups]
  /\ LoopUnchanged

\* executeGroup copies the list of the group
ExecuteGroup(g) ==
  /\ exec.pc = "pick" /\ exec.phase = "groups" /\ exec.todo = <<>>
  /\ g \in exec.groups
  /\ exec' = [exec EXCEPT !.groups = @ \ {g}, !.todo = taskGroups_[g]]
  /\ LoopUnchanged

GroupsDone ==
  /\ exec.pc = "pick" /\ exec.phase = "groups" /\ exec.todo = <<>> /\ exec.groups = {}
  /\ exec' = [exec EXCEPT !.pc = "finish"]
  /\ LoopUnchanged

Continue == exec' = [exec EXCEPT !.pc = "pick", !.task = NoTask, !.needs = {}]

\* hasFailure and break; a failure in a group counts for nothing
Failure == IF exec.phase = "tasks"
           THEN exec' = [exec EXCEPT !.pc = "pick", !.failed = TRUE, !.todo = <<>>,
                                     !.task = NoTask, !.needs = {}]
           ELSE Continue

\* slip: the status of a task that did not throw is not looked at
TaskReturnedUnseen ==
  /\ exec.pc = "returned"
  /\ Continue
  /\ LoopUnchanged

\* Task::execute came back
TaskReturned ==
  /\ exec.pc = "returned"
  /\ IF status[exec.task] = "Failed" THEN Failure ELSE Continue
  /\ LoopUnchanged

\* slip: a failure is not stored
FinishCompletedOnly ==
  /\ exec.pc = "finish"
  /\ status_' = IF exec.failed THEN status_ ELSE "Completed"
  /\ exec' = Idle /\ Forget
  /\ UNCHANGED <<status, cancelled_, executions>> /\ Executed

Finish ==
  /\ exec.pc = "finish"
  /\ status_' = IF exec.failed THEN "Failed" ELSE "Completed"
  /\ exec' = Idle /\ Forget
  /\ UNCHANGED <<status, cancelled_, executions>> /\ Executed

-----------------------------------------------------------------------------
(* Task::execute and TaskBase::execute, of a task or of one of its post-tasks *)

TaskUnchanged == /\ UNCHANGED <<status_, cancelled_, executions, atStart, inTime, touched>>
                 /\ Executed
SetStatus(t, s) == status' = [status EXCEPT ![t] = s]

Bad(t) == bad' = IF exec.phase = "tasks" /\ t \in Tasks THEN bad \cup {t} ELSE bad

\* slip: the parent is taken for a post-task of itself
LeaveToParent ==
  exec' = IF exec.parent = NoTask THEN [exec EXCEPT !.pc = "returned"]
          ELSE [exec EXCEPT !.pc = "posts", !.task = exec.parent]

\* the end of a task: back to the loop, or to the post-tasks of the parent
Leave ==
  exec' = IF exec.parent = NoTask THEN [exec EXCEPT !.pc = "returned"]
          ELSE [exec EXCEPT !.pc = "posts", !.task = exec.parent, !.parent = NoTask]

\* cancelled before, parameters that are not valid, or pre-tasks not completed
Refused ==
  /\ exec.pc = "enter"
  /\ SetStatus(exec.task, "Failed") /\ Bad(exec.task)
  /\ Leave
  /\ UNCHANGED <<ran, everCompleted>> /\ TaskUnchanged

ActionBegins ==
  /\ exec.pc = "enter" /\ exec.task \notin cancelled_
  /\ SetStatus(exec.task, "InProgress")
  /\ exec' = [exec EXCEPT !.pc = "action"]
  /\ ran' = IF exec.task \in Tasks THEN [ran EXCEPT ![exec.task] = @ + 1] ELSE ran
  /\ UNCHANGED <<bad, everCompleted>> /\ TaskUnchanged

\* Task swallows what the action throws, TaskBase passes it on; a parent whose
\* post-task throws turns Failed after it was Completed
ActionThrows ==
  /\ exec.pc = "action"
  /\ IF exec.task \notin Bases
     THEN SetStatus(exec.task, "Failed") /\ Bad(exec.task) /\ Leave
     ELSE IF exec.parent = NoTask
     THEN SetStatus(exec.task, "Failed") /\ Bad(exec.task) /\ Failure
     ELSE /\ status' = [status EXCEPT ![exec.task] = "Failed", ![exec.parent] = "Failed"]
          /\ Bad(exec.parent)
          /\ exec' = [exec EXCEPT !.pc = "returned", !.task = exec.parent,
                                  !.parent = NoTask, !.posts = {}]
  /\ UNCHANGED <<ran, everCompleted>> /\ TaskUnchanged

\* slip: the flag is not looked at
DecideIgnoringCancel ==
  /\ exec.pc = "action"
  /\ exec' = [exec EXCEPT !.pc = "store"]
  /\ UNCHANGED <<status, ran, bad, everCompleted>> /\ TaskUnchanged

\* the action returns: the load of cancelled_; TaskBase leaves the status to cancel()
Decide ==
  /\ exec.pc = "action"
  /\ IF exec.task \in cancelled_
     THEN /\ status' = IF exec.task \in Bases THEN status
                       ELSE [status EXCEPT ![exec.task] = "Failed"]
          /\ IF exec.task \in inTime THEN Bad(exec.task) ELSE UNCHANGED bad
          /\ Leave
     ELSE exec' = [exec EXCEPT !.pc = "store"] /\ UNCHANGED <<status, bad>>
  /\ UNCHANGED <<ran, everCompleted>> /\ TaskUnchanged

\* the store of Completed; a plain Task goes on to triggerPostTasks
Store ==
  /\ exec.pc = "store"
  /\ SetStatus(exec.task, "Completed")
  /\ everCompleted' = everCompleted \cup {exec.task}
  /\ IF exec.task \in Tasks \ Bases
     THEN exec' = [exec EXCEPT !.pc = "posts", !.posts = PostOf[exec.task]]
     ELSE Leave
  /\ UNCHANGED <<ran, bad>> /\ TaskUnchanged

\* a post-task is executed if it is Pending
TriggerPostTask(p) ==
  /\ exec.pc = "posts" /\ p \in exec.posts
  /\ exec' = IF status[p] = "Pending"
             THEN [exec EXCEPT !.pc = "enter", !.posts = @ \ {p}, !.task = p,
                               !.parent = exec.task]
             ELSE [exec EXCEPT !.posts = @ \ {p}]
  /\ UNCHANGED <<status, ran, bad, everCompleted>> /\ TaskUnchanged

PostTasksDone ==
  /\ exec.pc = "posts" /\ exec.posts = {}
  /\ exec' = [exec EXCEPT !.pc = "returned"]
  /\ UNCHANGED <<status, ran, bad, everCompleted>> /\ TaskUnchanged

-----------------------------------------------------------------------------
(* Task::cancel: three unsynchronised accesses *)

CancelUnchanged == UNCHANGED <<target, exec, executions, edits, atStart, ran, bad,
                               touched, everCompleted>>

Cancel(c, t) ==
  /\ client[c].pc = "idle" /\ cancels < MaxCancels
  /\ status[t] = "InProgress"
  /\ client' = [client EXCEPT ![c] = [pc |-> "flag", task |-> t]]
  /\ cancels' = cancels + 1
  /\ UNCHANGED <<status, cancelled_, inTime>> /\ CancelUnchanged

CancelFlag(c) ==
  /\ client[c].pc = "flag"
  /\ cancelled_' = cancelled_ \cup {client[c].task}
  /\ client' = [client EXCEPT ![c].pc = "fail"]
  /\ UNCHANGED <<status, cancels, inTime>> /\ CancelUnchanged

CancelFail(c) ==
  LET t == client[c].task IN
  /\ client[c].pc = "fail"
  /\ SetStatus(t, "Failed")
  /\ client' = [client EXCEPT ![c] = Resting]
  /\ inTime' = IF exec.task = t /\ exec.pc = "action"
               THEN inTime \cup {t} ELSE inTime
  /\ UNCHANGED <<cancelled_, cancels>> /\ CancelUnchanged

-----------------------------------------------------------------------------
(* Calls on the target by other threads *)

EditUnchanged == UNCHANGED <<status, cancelled_, exec, client, executions, cancels,
                             atStart, ran, bad, inTime, everCompleted>>
Edit == edits < MaxEdits /\ edits' = edits + 1

\* mutex_ can be locked exclusively
MutexFree == \/ exec.pc \in {"idle", "skip", "begin", "finish"}
             \/ exec.pc = "pick" /\ exec.phase = "groups"

\* abort(), or the sequence's setStatus; execute() looks at neither
StoreStatus ==
  /\ Edit
  /\ status_' \in {"Failed", "Pending", "Skipped"}
  /\ UNCHANGED <<enabled_, tasks_, taskGroups_, taskDependencies_, touched>>
  /\ EditUnchanged

SetEnabled ==
  /\ Edit /\ MutexFree
  /\ enabled_' = ~enabled_
  /\ UNCHANGED <<status_, tasks_, taskGroups_, taskDependencies_, touched>>
  /\ EditUnchanged

AddTask(t) ==
  /\ Edit /\ MutexFree /\ t \notin ToSet(tasks_)
  /\ tasks_' = Append(tasks_, t)
  /\ UNCHANGED <<status_, enabled_, taskGroups_, taskDependencies_, touched>>
  /\ EditUnchanged

Touch(t) == touched' = IF exec.pc = "idle" THEN touched ELSE touched \cup {t}

\* addTaskToGroup and removeTaskFromGroup; a group has a task at most once
EditGroup(g, t) ==
  /\ Edit
  /\ taskGroups_' = [taskGroups_ EXCEPT ![g] =
       IF t \in ToSet(@) THEN RemoveFirst(@, t) ELSE Append(@, t)]
  /\ Touch(t)
  /\ UNCHANGED <<status_, enabled_, tasks_, taskDependencies_>>
  /\ EditUnchanged

\* addTaskDependency and removeTaskDependency
EditDependency(t, d) ==
  /\ Edit
  /\ taskDependencies_' = [taskDependencies_ EXCEPT ![t] =
       IF d \in @ THEN @ \ {d} ELSE @ \cup {d}]
  /\ Touch(t)
  /\ UNCHANGED <<status_, enabled_, tasks_, taskGroups_>>
  /\ EditUnchanged

-----------------------------------------------------------------------------
ExecStep == \/ SkipDisabled \/ Begin \/ Pick \/ TasksDone \/ GroupsDone
            \/ \E g \in Groups : ExecuteGroup(g)
            \/ TaskReturned \/ Finish
            \/ Refused \/ ActionBegins \/ ActionThrows
            \/ Decide \/ Store \/ PostTasksDone
            \/ \E p \in Posts : TriggerPostTask(p)
CancelStep(c) == CancelFlag(c) \/ CancelFail(c)

Next ==
  \/ Execute \/ ExecStep
  \/ \E c \in Clients : CancelStep(c) \/ \E t \in All : Cancel(c, t)
  \/ StoreStatus \/ SetEnabled
  \/ \E t \in Tasks : \/ AddTask(t)
                      \/ \E g \in Groups : EditGroup(g, t)
                      \/ \E d \in Tasks : EditDependency(t, d)

Spec == Init /\ [][Next]_vars

\* the executing thread goes on and actions come to an end
Fairness == WF_vars(ExecStep)
FairSpec == Spec /\ Fairness

-----------------------------------------------------------------------------
(* Properties *)

\* Types, and a task is on the executing thread exactly inside Task::execute.
TypeOK ==
  /\ status_ \in TargetStatus /\ enabled_ \in BOOLEAN
  /\ tasks_ \in Seq(Tasks) /\ taskGroups_ \in [Groups -> Seq(Tasks)]
  /\ taskDependencies_ \in [Tasks -> SUBSET Tasks]
  /\ status \in [All -> TaskStatus] /\ cancelled_ \subseteq All
  /\ exec.pc \in {"idle", "skip", "begin", "pick", "enter", "action", "store",
                  "posts", "returned", "finish"}
  /\ exec.phase \in {"tasks", "groups"} /\ exec.todo \in Seq(Tasks)
  /\ exec.groups \subseteq Groups /\ exec.failed \in BOOLEAN
  /\ exec.task \in All \cup {NoTask} /\ exec.parent \in Tasks \cup {NoTask}
  /\ exec.posts \subseteq Posts /\ exec.needs \subseteq Tasks
  /\ (exec.parent # NoTask) = (exec.task \in Posts)
  /\ client \in [Clients -> [pc : {"idle", "flag", "fail"}, task : All \cup {NoTask}]]
  /\ executions \in 0..MaxExecutions /\ edits \in 0..MaxEdits /\ cancels \in 0..MaxCancels
  /\ atStart \subseteq Tasks /\ ran \in [Tasks -> Nat] /\ bad \subseteq Tasks
  /\ inTime \subseteq All /\ touched \subseteq Tasks /\ everCompleted \subseteq All

Inside == {"enter", "action", "store"}

\* Once cancel() has returned true before the execution looked at the flag, the
\* task is never Completed, in this or any later execution.
CancelledNeverCompletes == \A t \in inTime : status[t] # "Completed"

\* A target that becomes Completed had no ungrouped task that threw, was refused
\* or was cancelled in time.
FailureFailsTarget == exec.pc = "finish" /\ ~exec.failed => bad = {}

Holding(t) == {g \in Groups : t \in ToSet(taskGroups_[g])}
Turns(t) == IF Holding(t) = {} THEN 1 ELSE Cardinality(Holding(t))
Free(t) == t \notin touched /\ taskDependencies_[t] = {}

\* Every task has its turn.  Its action is entered only when everything it depended
\* on had completed, in this execution or an earlier one, ungrouped or in a group.
\* Unless somebody regroups it while the target is executed, it runs at most once
\* for every group it is in, or once without a group; and a target that becomes
\* Completed has left out no task it found that depends on nothing and was not
\* refused.
TasksInTurn ==
  /\ exec.pc \in Inside /\ exec.parent = NoTask => exec.needs \subseteq everCompleted
  /\ \A t \in Tasks : t \notin touched => ran[t] <= Turns(t)
  /\ exec.pc = "finish" /\ ~exec.failed =>
       \A t \in atStart : Free(t) => ran[t] > 0 \/ status[t] = "Failed"

\* To the sequence the execution is what TargetOutcome says: one look at enabled_,
\* one outcome, and it returns.
Outcome == INSTANCE TargetOutcome WITH
  status <- status_, enabled <- enabled_,
  phase <- CASE exec.pc \in {"idle", "skip"} -> exec.pc
             [] exec.pc = "begin" -> "start"
             [] OTHER -> "end"
ImplementsOutcome == Outcome!OutcomeFairSpec
=============================================================================
