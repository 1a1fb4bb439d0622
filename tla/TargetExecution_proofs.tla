------------------------ MODULE TargetExecution_proofs ------------------------
(* Theorems about TargetExecution for any tasks, post-tasks, groups and threads  *)
(* that cancel, and any number of executions, edits and cancellations.           *)
EXTENDS TargetExecution, ListLemmas

USE DEF vars, target, history, bounds

\* The record of the executing thread has its fields in every state, and status
\* an entry for every task.
Shape ==
  /\ DOMAIN exec = {"pc", "phase", "todo", "groups", "failed", "task", "parent",
                    "posts", "needs"}
  /\ DOMAIN status = All

\* A cancellation sets the flag before it stores Failed, and Completed is about to
\* be stored only for a task whose cancellation did not come in time.
CancelInv ==
  /\ client \in [Clients -> [pc : {"idle", "flag", "fail"}, task : All \cup {NoTask}]]
  /\ \A c \in Clients : client[c].pc # "idle" => client[c].task \in All
  /\ \A c \in Clients : client[c].pc = "fail" => client[c].task \in cancelled_
  /\ inTime \subseteq cancelled_ /\ inTime \subseteq All
  /\ exec.pc = "store" => exec.task \notin inTime
  /\ \A t \in inTime : status[t] = "Failed"

\* A failure that counts is on its way to the target: the loop has noted it, or is
\* about to find the task Failed.  A post-task is never one of the target's own.
FailureInv ==
  /\ exec.failed \in BOOLEAN
  /\ exec.parent # NoTask =>
       exec.pc \in Inside /\ exec.parent \in Tasks /\ exec.task \notin Tasks
  /\ exec.pc = "posts" => exec.task \in Tasks
  /\ exec.pc \in {"idle", "skip", "begin"} => bad = {}
  /\ bad # {} => \/ exec.failed
                 \/ /\ exec.phase = "tasks" /\ exec.pc = "returned"
                    /\ exec.task \in Tasks /\ status[exec.task] = "Failed"

IInv == Shape /\ CancelInv /\ FailureInv

-----------------------------------------------------------------------------
\* Every step of the executing thread keeps the shape of its record.
LEMMA ShapeStep ==
  ASSUME Shape, [Next]_vars PROVE Shape'
<1> USE DEF Shape, Idle, Executed, LoopUnchanged, TaskUnchanged, CancelUnchanged,
        EditUnchanged, SetStatus, Leave, Continue, Failure, PassOver
<1>1. CASE Execute
  BY <1>1 DEF Execute
<1>2. CASE SkipDisabled \/ Begin \/ Finish
  BY <1>2 DEF SkipDisabled, Begin, Finish
<1>3. CASE Pick
  BY <1>3 DEF Pick
<1>4. CASE TasksDone \/ GroupsDone
  BY <1>4 DEF TasksDone, GroupsDone
<1>5. ASSUME NEW g \in Groups, ExecuteGroup(g) PROVE Shape'
  BY <1>5 DEF ExecuteGroup
<1>6. CASE TaskReturned
  BY <1>6 DEF TaskReturned
<1>7. CASE Refused \/ ActionBegins
  BY <1>7 DEF Refused, ActionBegins
<1>8. CASE ActionThrows
  BY <1>8 DEF ActionThrows
<1>9. CASE Decide
  BY <1>9 DEF Decide
<1>10. CASE Store \/ PostTasksDone
  BY <1>10 DEF Store, PostTasksDone
<1>11. ASSUME NEW p \in Posts, TriggerPostTask(p) PROVE Shape'
  BY <1>11 DEF TriggerPostTask
<1>12. ASSUME NEW c \in Clients, CancelStep(c) \/ \E t \in All : Cancel(c, t) PROVE Shape'
  BY <1>12 DEF CancelStep, CancelFlag, CancelFail, Cancel
<1>13. CASE StoreStatus \/ SetEnabled
  BY <1>13 DEF StoreStatus, SetEnabled
<1>14. ASSUME NEW t \in Tasks, \/ AddTask(t) \/ \E g \in Groups : EditGroup(g, t)
                               \/ \E d \in Tasks : EditDependency(t, d)
       PROVE Shape'
  BY <1>14 DEF AddTask, EditGroup, EditDependency
<1>15. CASE UNCHANGED vars
  BY <1>15
<1>q. QED
  BY <1>1, <1>2, <1>3, <1>4, <1>5, <1>6, <1>7, <1>8, <1>9, <1>10, <1>11, <1>12, <1>13,
     <1>14, <1>15 DEF Next, ExecStep

\* Every operation preserves CancelInv.
LEMMA CancelStepInv ==
  ASSUME Shape, CancelInv, [Next]_vars PROVE CancelInv'
<1> USE DEF Shape, CancelInv, Idle, Resting, Executed, LoopUnchanged,
        TaskUnchanged, CancelUnchanged, EditUnchanged, SetStatus, Forget,
        Leave, Continue, Failure, PassOver
<1>1. CASE Execute
  BY <1>1 DEF Execute
<1>2. CASE SkipDisabled \/ Begin \/ Finish
  <2>1. CASE SkipDisabled
    BY <2>1 DEF SkipDisabled
  <2>2. CASE Begin
    BY <2>2 DEF Begin
  <2>3. CASE Finish
    BY <2>3 DEF Finish
  <2>4. QED
    BY <1>2, <2>1, <2>2, <2>3
<1>3. CASE Pick
  BY <1>3 DEF Pick
<1>4. CASE TasksDone \/ GroupsDone
  BY <1>4 DEF TasksDone, GroupsDone
<1>5. ASSUME NEW g \in Groups, ExecuteGroup(g) PROVE CancelInv'
  BY <1>5 DEF ExecuteGroup
<1>6. CASE TaskReturned
  BY <1>6 DEF TaskReturned
<1>7. CASE Refused \/ ActionBegins
  <2>1. CASE Refused
    BY <2>1 DEF Refused
  <2>2. CASE ActionBegins
    BY <2>2 DEF ActionBegins
  <2>3. QED
    BY <1>7, <2>1, <2>2
<1>8. CASE ActionThrows
  <2>1. UNCHANGED <<client, cancelled_, inTime>> /\ exec'.pc # "store"
    <3>1. CASE exec.task \notin Bases
      BY <1>8, <3>1 DEF ActionThrows
    <3>2. CASE exec.task \in Bases /\ exec.parent = NoTask
      BY <1>8, <3>2 DEF ActionThrows
    <3>3. CASE exec.task \in Bases /\ exec.parent # NoTask
      BY <1>8, <3>3 DEF ActionThrows
    <3>4. QED
      BY <3>1, <3>2, <3>3
  <2>2. \A t \in inTime : status'[t] = "Failed"
    BY <1>8 DEF ActionThrows
  <2>3. QED
    BY <2>1, <2>2
<1>9. CASE Decide
  BY <1>9 DEF Decide
<1>10. CASE Store \/ PostTasksDone
  BY <1>10 DEF Store, PostTasksDone
<1>11. ASSUME NEW p \in Posts, TriggerPostTask(p) PROVE CancelInv'
  BY <1>11 DEF TriggerPostTask
<1>12. ASSUME NEW c \in Clients, NEW t \in All, Cancel(c, t) PROVE CancelInv'
  BY <1>12 DEF Cancel
<1>13. ASSUME NEW c \in Clients, CancelFlag(c) PROVE CancelInv'
  BY <1>13 DEF CancelFlag
<1>14. ASSUME NEW c \in Clients, CancelFail(c) PROVE CancelInv'
  BY <1>14 DEF CancelFail
<1>15. CASE StoreStatus \/ SetEnabled
  BY <1>15 DEF StoreStatus, SetEnabled
<1>16. ASSUME NEW t \in Tasks, \/ AddTask(t) \/ \E g \in Groups : EditGroup(g, t)
                               \/ \E d \in Tasks : EditDependency(t, d)
       PROVE CancelInv'
  BY <1>16 DEF AddTask, EditGroup, EditDependency
<1>17. CASE UNCHANGED vars
  BY <1>17
<1>q. QED
  BY <1>1, <1>2, <1>3, <1>4, <1>5, <1>6, <1>7, <1>8, <1>9, <1>10, <1>11, <1>12, <1>13,
     <1>14, <1>15, <1>16, <1>17 DEF Next, ExecStep, CancelStep

\* Every operation preserves FailureInv.
LEMMA FailureStep ==
  ASSUME Shape, CancelInv, FailureInv, [Next]_vars PROVE FailureInv'
<1> USE DEF Shape, FailureInv, Inside, Bad, SetStatus, LoopUnchanged, TaskUnchanged,
        CancelUnchanged, EditUnchanged, Leave, Continue, Failure, PassOver
<1>1. CASE Execute
  BY <1>1 DEF Execute, Idle
<1>2. CASE SkipDisabled \/ Begin \/ Finish
  <2>1. CASE SkipDisabled
    BY <2>1 DEF SkipDisabled, Idle, Forget
  <2>2. CASE Begin
    BY <2>2 DEF Begin
  <2>3. CASE Finish
    BY <2>3 DEF Finish, Idle, Forget
  <2>4. QED
    BY <1>2, <2>1, <2>2, <2>3
<1>3. CASE Pick
  <2>1. UNCHANGED bad /\ exec.parent = NoTask /\ (bad # {} => exec.failed)
    BY <1>3 DEF Pick
  <2>2. exec'.pc \in {"pick", "enter"} /\ exec'.failed = exec.failed /\ exec'.parent = NoTask
    <3>1. CASE Wanted(Head(exec.todo))
      BY <1>3, <2>1, <3>1 DEF Pick
    <3>2. CASE ~Wanted(Head(exec.todo))
      BY <1>3, <2>1, <3>2 DEF Pick
    <3>3. QED
      BY <3>1, <3>2
  <2>3. QED
    BY <2>1, <2>2
<1>4. CASE TasksDone \/ GroupsDone
  BY <1>4 DEF TasksDone, GroupsDone
<1>5. ASSUME NEW g \in Groups, ExecuteGroup(g) PROVE FailureInv'
  BY <1>5 DEF ExecuteGroup
<1>6. CASE TaskReturned
  <2>1. UNCHANGED bad /\ exec.parent = NoTask /\ exec'.pc = "pick" /\ exec'.parent = NoTask
    BY <1>6 DEF TaskReturned
  <2>2. CASE status[exec.task] = "Failed" /\ exec.phase = "tasks"
    <3>1. exec' = [exec EXCEPT !.pc = "pick", !.failed = TRUE, !.todo = <<>>,
                               !.task = NoTask, !.needs = {}]
      BY <1>6, <2>2 DEF TaskReturned
    <3>2. exec'.failed = TRUE
      BY <3>1
    <3>3. QED
      BY <2>1, <3>2
  <2>3. CASE ~(status[exec.task] = "Failed" /\ exec.phase = "tasks")
    <3>1. exec'.failed = exec.failed
      BY <1>6, <2>3 DEF TaskReturned
    <3>2. QED
      BY <2>1, <2>3, <3>1
  <2>4. QED
    BY <2>2, <2>3
<1>7. CASE Refused \/ ActionBegins
  <2>1. CASE Refused
    BY <2>1 DEF Refused, All
  <2>2. CASE ActionBegins
    BY <2>2 DEF ActionBegins
  <2>3. QED
    BY <1>7, <2>1, <2>2
<1>8. CASE ActionThrows
  <2> USE <1>8 DEF ActionThrows
  <2>1. CASE exec.task \notin Bases
    <3>1. exec'.failed = exec.failed /\ exec'.phase = exec.phase /\ exec'.parent = NoTask
      BY <2>1
    <3>2. bad # {} => exec.failed
      OBVIOUS
    <3>3. CASE exec.parent = NoTask
      <4>1. exec'.pc = "returned" /\ exec'.task = exec.task
        BY <2>1, <3>3
      <4>2. exec.task \in Tasks => status'[exec.task] = "Failed"
        BY <2>1 DEF All
      <4>3. bad' # bad => exec.phase = "tasks" /\ exec.task \in Tasks
        BY <2>1
      <4>4. QED
        BY <3>1, <3>2, <4>1, <4>2, <4>3
    <3>4. CASE exec.parent # NoTask
      <4>1. exec'.pc = "posts" /\ exec'.task = exec.parent
        BY <2>1, <3>4
      <4>2. bad' = bad
        BY <2>1, <3>4
      <4>3. QED
        BY <3>1, <3>2, <3>4, <4>1, <4>2
    <3>5. QED
      BY <3>3, <3>4
  <2>2. CASE exec.task \in Bases /\ exec.parent = NoTask /\ exec.phase = "tasks"
    <3>1. exec' = [exec EXCEPT !.pc = "pick", !.failed = TRUE, !.todo = <<>>,
                               !.task = NoTask, !.needs = {}]
      BY <2>2
    <3>2. exec'.failed = TRUE /\ exec'.pc = "pick" /\ exec'.parent = NoTask
      BY <2>2, <3>1
    <3>3. QED
      BY <3>2
  <2>3. CASE exec.task \in Bases /\ exec.parent = NoTask /\ exec.phase # "tasks"
    <3>1. UNCHANGED bad /\ exec'.failed = exec.failed /\ exec'.pc = "pick"
          /\ exec'.parent = NoTask
      BY <2>3
    <3>2. bad # {} => exec.failed
      BY <2>3
    <3>3. QED
      BY <3>1, <3>2
  <2>4. CASE exec.task \in Bases /\ exec.parent # NoTask
    <3>1. exec'.pc = "returned" /\ exec'.task = exec.parent /\ exec'.parent = NoTask
          /\ exec'.failed = exec.failed /\ exec'.phase = exec.phase
      BY <2>4
    <3>2. status'[exec.parent] = "Failed" /\ exec.parent \in Tasks
      BY <2>4 DEF All
    <3>3. bad # {} => exec.failed
      BY <2>4
    <3>4. bad' # {} => exec.failed \/ exec.phase = "tasks"
      BY <2>4, <3>3
    <3>5. QED
      BY <3>1, <3>2, <3>4
  <2>5. QED
    BY <2>1, <2>2, <2>3, <2>4
<1>9. CASE Decide
  <2>1. CASE exec.task \in cancelled_
    <3>1. /\ exec'.failed = exec.failed /\ exec'.phase = exec.phase /\ exec'.parent = NoTask
          /\ exec.parent = NoTask => exec'.pc = "returned" /\ exec'.task = exec.task
          /\ exec.parent # NoTask => exec'.pc = "posts" /\ exec'.task = exec.parent
      <4>1. CASE exec.parent = NoTask
        BY <1>9, <2>1, <4>1 DEF Decide
      <4>2. CASE exec.parent # NoTask
        <5>1. exec' = [exec EXCEPT !.pc = "posts", !.task = exec.parent, !.parent = NoTask]
          BY <1>9, <2>1, <4>2 DEF Decide
        <5>2. QED
          BY <4>2, <5>1
      <4>3. QED
        BY <4>1, <4>2
    <3>2. bad # {} => exec.failed
      BY <1>9 DEF Decide
    <3>3. CASE exec.task \in inTime /\ exec.task \in Tasks /\ exec.phase = "tasks"
      <4>1. status'[exec.task] = "Failed" /\ exec.parent = NoTask
        BY <1>9, <2>1, <3>3 DEF Decide, CancelInv
      <4>2. QED
        BY <3>1, <3>3, <4>1
    <3>4. CASE ~(exec.task \in inTime /\ exec.task \in Tasks /\ exec.phase = "tasks")
      <4>1. bad' = bad
        BY <1>9, <2>1, <3>4 DEF Decide
      <4>2. QED
        BY <3>1, <3>2, <4>1
    <3>5. QED
      BY <3>3, <3>4
  <2>2. CASE exec.task \notin cancelled_
    BY <1>9, <2>2 DEF Decide
  <2>3. QED
    BY <2>1, <2>2
<1>10. CASE Store \/ PostTasksDone
  <2>1. CASE Store
    <3>1. UNCHANGED bad /\ (bad # {} => exec.failed) /\ exec'.failed = exec.failed
      BY <2>1 DEF Store
    <3>2. CASE exec.task \in Tasks \ Bases
      BY <2>1, <3>1, <3>2 DEF Store
    <3>3. CASE exec.task \notin Tasks \ Bases
      BY <2>1, <3>1, <3>3 DEF Store
    <3>4. QED
      BY <3>2, <3>3
  <2>2. CASE PostTasksDone
    BY <2>2 DEF PostTasksDone
  <2>3. QED
    BY <1>10, <2>1, <2>2
<1>11. ASSUME NEW p \in Posts, TriggerPostTask(p) PROVE FailureInv'
  BY <1>11, TargetAssumption DEF TriggerPostTask, All
<1>12. ASSUME NEW c \in Clients, NEW t \in All, Cancel(c, t) PROVE FailureInv'
  BY <1>12 DEF Cancel
<1>13. ASSUME NEW c \in Clients, CancelFlag(c) PROVE FailureInv'
  BY <1>13 DEF CancelFlag
<1>14. ASSUME NEW c \in Clients, CancelFail(c) PROVE FailureInv'
  BY <1>14 DEF CancelFail, CancelInv
<1>15. CASE StoreStatus \/ SetEnabled
  BY <1>15 DEF StoreStatus, SetEnabled
<1>16. ASSUME NEW t \in Tasks, \/ AddTask(t) \/ \E g \in Groups : EditGroup(g, t)
                               \/ \E d \in Tasks : EditDependency(t, d)
       PROVE FailureInv'
  BY <1>16 DEF AddTask, EditGroup, EditDependency
<1>17. CASE UNCHANGED vars
  BY <1>17
<1>q. QED
  BY <1>1, <1>2, <1>3, <1>4, <1>5, <1>6, <1>7, <1>8, <1>9, <1>10, <1>11, <1>12, <1>13,
     <1>14, <1>15, <1>16, <1>17 DEF Next, ExecStep, CancelStep

\* The inductive invariant: the flag of a task whose cancellation came in time is
\* set and nobody is about to store Completed for it.
THEOREM Inductive == Spec => []IInv
<1>1. Init => IInv
  BY DEF Init, IInv, Shape, CancelInv, FailureInv, Idle, Resting, Inside
<1>2. IInv /\ [Next]_vars => IInv'
  BY ShapeStep, CancelStepInv, FailureStep DEF IInv
<1>3. QED
  BY <1>1, <1>2, PTL DEF Spec

\* A task whose cancel() returned true before the execution looked at its flag is
\* never Completed, whatever executions, post-tasks and edits follow.
THEOREM CancelHolds == Spec => []CancelledNeverCompletes
<1>1. IInv => CancelledNeverCompletes
  BY DEF IInv, CancelInv, CancelledNeverCompletes
<1>2. QED
  BY <1>1, Inductive, PTL

\* A target that becomes Completed had no ungrouped task that threw, was refused or
\* was cancelled in time, its own or through a post-task.
THEOREM FailureCounts == Spec => []FailureFailsTarget
<1>1. IInv => FailureFailsTarget
  BY DEF IInv, FailureInv, FailureFailsTarget
<1>2. QED
  BY <1>1, Inductive, PTL

-----------------------------------------------------------------------------
(* Types *)

\* TypeOK, in three parts: the executing thread, which inside Task::execute has a
\* task, ...
ExecOK ==
  /\ exec.pc \in {"idle", "skip", "begin", "pick", "enter", "action", "store",
                  "posts", "returned", "finish"}
  /\ exec.phase \in {"tasks", "groups"} /\ exec.todo \in Seq(Tasks)
  /\ exec.groups \subseteq Groups
  /\ exec.task \in All \cup {NoTask} /\ exec.parent \in Tasks \cup {NoTask}
  /\ exec.posts \subseteq Posts /\ exec.needs \subseteq Tasks
  /\ exec.parent # NoTask <=> exec.task \in Posts
  /\ exec.pc \in Inside => exec.task \in All

\* ... what other threads change too, ...
SharedOK ==
  /\ status_ \in TargetStatus
  /\ tasks_ \in Seq(Tasks) /\ taskGroups_ \in [Groups -> Seq(Tasks)]
  /\ taskDependencies_ \in [Tasks -> SUBSET Tasks]
  /\ status \in [All -> TaskStatus] /\ cancelled_ \subseteq All
  /\ executions \in 0..MaxExecutions /\ edits \in 0..MaxEdits /\ cancels \in 0..MaxCancels

\* ... and the histories.
HistoryOK ==
  /\ atStart \subseteq Tasks /\ ran \in [Tasks -> Nat] /\ bad \subseteq Tasks
  /\ inTime \subseteq All /\ touched \subseteq Tasks /\ everCompleted \subseteq All

TypeInv == ExecOK /\ SharedOK /\ HistoryOK /\ enabled_ \in BOOLEAN

\* Every step of the executing thread preserves ExecOK.
LEMMA ExecTypeStep ==
  ASSUME IInv, TypeInv, [Next]_vars PROVE ExecOK'
<1> USE TargetAssumption DEF IInv, Shape, TypeInv, ExecOK, Inside
<1>1. CASE Execute
  <2>1. PICK pc \in {"begin", "skip"} : exec' = [Idle EXCEPT !.pc = pc]
    BY <1>1 DEF Execute
  <2>2. QED
    BY <2>1 DEF Idle, All
<1>2. CASE SkipDisabled \/ Finish
  <2>1. exec' = Idle
    BY <1>2 DEF SkipDisabled, Finish
  <2>2. QED
    BY <2>1 DEF Idle, All
<1>3. CASE Begin
  <2>1. exec' = [exec EXCEPT !.pc = "pick", !.todo = tasks_]
    BY <1>3 DEF Begin
  <2>2. QED
    BY <2>1 DEF SharedOK
<1>5. CASE Pick
  <2> DEFINE t == Head(exec.todo)
  <2>1. t \in Tasks /\ Tail(exec.todo) \in Seq(Tasks)
    BY <1>5 DEF Pick
  <2>2. CASE Wanted(t)
    <3>1. exec' = [exec EXCEPT !.pc = "enter", !.todo = Tail(@), !.task = t,
                               !.parent = NoTask, !.needs = taskDependencies_[t]]
      BY <1>5, <2>2 DEF Pick
    <3>2. taskDependencies_[t] \subseteq Tasks
      BY <2>1 DEF SharedOK
    <3>3. QED
      BY <2>1, <3>1, <3>2 DEF All
  <2>3. CASE ~Wanted(t)
    <3>1. exec' = [exec EXCEPT !.todo = Tail(@)]
      BY <1>5, <2>3 DEF Pick, PassOver
    <3>2. QED
      BY <2>1, <3>1
  <2>4. QED
    BY <2>2, <2>3
<1>6. CASE TasksDone \/ GroupsDone
  <2>1. CASE exec' = [exec EXCEPT !.pc = "finish"]
    BY <2>1
  <2>2. CASE exec' = [exec EXCEPT !.phase = "groups", !.groups = Groups] /\ exec.pc = "pick"
    BY <2>2
  <2>3. QED
    BY <1>6, <2>1, <2>2 DEF TasksDone, GroupsDone
<1>7. ASSUME NEW g \in Groups, ExecuteGroup(g) PROVE ExecOK'
  BY <1>7 DEF ExecuteGroup, SharedOK
<1>c. ASSUME exec.parent = NoTask, Continue \/ Failure PROVE ExecOK'
  <2>1. NoTask \notin Posts /\ <<>> \in Seq(Tasks)
    BY DEF All
  <2>2. CASE exec' = [exec EXCEPT !.pc = "pick", !.task = NoTask, !.needs = {}]
    BY <1>c, <2>1, <2>2
  <2>3. CASE exec' = [exec EXCEPT !.pc = "pick", !.failed = TRUE, !.todo = <<>>,
                                  !.task = NoTask, !.needs = {}]
    <3>1. exec'.todo = <<>> /\ exec'.task = NoTask /\ exec'.needs = {} /\ exec'.pc = "pick"
      BY <2>3
    <3>2. /\ exec'.phase = exec.phase /\ exec'.groups = exec.groups
          /\ exec'.parent = exec.parent /\ exec'.posts = exec.posts
      BY <2>3
    <3>3. QED
      BY <1>c, <2>1, <3>1, <3>2
  <2>4. QED
    BY <1>c, <2>2, <2>3 DEF Continue, Failure
<1>l. ASSUME Leave, exec.pc \in Inside PROVE ExecOK'
  <2>1. CASE exec.parent = NoTask
    <3>1. exec' = [exec EXCEPT !.pc = "returned"]
      BY <1>l, <2>1 DEF Leave
    <3>2. QED
      BY <3>1
  <2>2. CASE exec.parent # NoTask
    <3>1. exec' = [exec EXCEPT !.pc = "posts", !.task = exec.parent, !.parent = NoTask]
      BY <1>l, <2>2 DEF Leave
    <3>2. exec.parent \in Tasks
      BY <2>2
    <3>3. QED
      BY <3>1, <3>2 DEF All
  <2>3. QED
    BY <2>1, <2>2
<1>8. CASE TaskReturned
  <2>1. exec.parent = NoTask
    BY <1>8 DEF TaskReturned, FailureInv
  <2>2. QED
    BY <1>8, <1>c, <2>1 DEF TaskReturned
<1>9. CASE Refused
  BY <1>9, <1>l DEF Refused
<1>10. CASE ActionBegins
  BY <1>10 DEF ActionBegins
<1>11. CASE ActionThrows
  <2>1. CASE exec.task \notin Bases
    BY <1>11, <1>l, <2>1 DEF ActionThrows
  <2>2. CASE exec.task \in Bases /\ exec.parent = NoTask
    BY <1>11, <1>c, <2>2 DEF ActionThrows
  <2>3. CASE exec.task \in Bases /\ exec.parent # NoTask
    <3>1. exec' = [exec EXCEPT !.pc = "returned", !.task = exec.parent,
                               !.parent = NoTask, !.posts = {}]
      BY <1>11, <2>3 DEF ActionThrows
    <3>2. exec.parent \in Tasks
      BY <2>3
    <3>3. QED
      BY <3>1, <3>2 DEF All
  <2>4. QED
    BY <2>1, <2>2, <2>3
<1>12. CASE Decide
  <2>1. CASE exec.task \in cancelled_
    BY <1>12, <1>l, <2>1 DEF Decide
  <2>2. CASE exec.task \notin cancelled_
    <3>1. exec' = [exec EXCEPT !.pc = "store"] /\ exec.pc = "action"
      BY <1>12, <2>2 DEF Decide
    <3>2. QED
      BY <3>1
  <2>3. QED
    BY <2>1, <2>2
<1>13. CASE Store
  <2>1. CASE exec.task \in Tasks \ Bases
    <3>1. exec' = [exec EXCEPT !.pc = "posts", !.posts = PostOf[exec.task]]
      BY <1>13, <2>1 DEF Store
    <3>2. PostOf[exec.task] \subseteq Posts
      BY <2>1
    <3>3. QED
      BY <3>1, <3>2
  <2>2. CASE exec.task \notin Tasks \ Bases
    BY <1>13, <1>l, <2>2 DEF Store
  <2>3. QED
    BY <2>1, <2>2
<1>14. ASSUME NEW p \in Posts, TriggerPostTask(p) PROVE ExecOK'
  BY <1>14 DEF TriggerPostTask, FailureInv, All
<1>15. CASE PostTasksDone
  BY <1>15 DEF PostTasksDone
<1>16. ASSUME exec' = exec PROVE ExecOK'
  BY <1>16
<1>17. ASSUME NEW c \in Clients, CancelStep(c) \/ \E t \in All : Cancel(c, t) PROVE ExecOK'
  BY <1>16, <1>17 DEF CancelStep, CancelFlag, CancelFail, Cancel, CancelUnchanged
<1>18. ASSUME \/ StoreStatus \/ SetEnabled
              \/ \E t \in Tasks : \/ AddTask(t) \/ \E g \in Groups : EditGroup(g, t)
                                  \/ \E d \in Tasks : EditDependency(t, d)
              \/ UNCHANGED vars
       PROVE  ExecOK'
  BY <1>16, <1>18 DEF StoreStatus, SetEnabled, AddTask, EditGroup, EditDependency, EditUnchanged
<1>q. QED
  BY <1>1, <1>2, <1>3, <1>5, <1>6, <1>7, <1>8, <1>9, <1>10, <1>11, <1>12, <1>13,
     <1>14, <1>15, <1>17, <1>18 DEF Next, ExecStep

\* Every operation preserves SharedOK, HistoryOK and the type of enabled_.
LEMMA StateTypeStep ==
  ASSUME IInv, TypeInv, [Next]_vars PROVE SharedOK' /\ HistoryOK' /\ enabled_' \in BOOLEAN
<1> DEFINE Typed == SharedOK' /\ HistoryOK' /\ enabled_' \in BOOLEAN
<1> USE TargetAssumption DEF TypeInv, SharedOK, HistoryOK, Executed, LoopUnchanged,
        TaskUnchanged, TargetStatus, TaskStatus
<1>1. CASE Execute
  BY <1>1 DEF Execute
<1>2. CASE SkipDisabled \/ Finish
  <2>1. status_' \in TargetStatus
    BY <1>2 DEF SkipDisabled, Finish
  <2>2. HistoryOK'
    BY <1>2 DEF SkipDisabled, Finish, Forget
  <2>3. QED
    BY <1>2, <2>1, <2>2 DEF SkipDisabled, Finish
<1>3. CASE Begin
  BY <1>3 DEF Begin, ToSet
<1>4. CASE Pick \/ TasksDone \/ GroupsDone \/ TaskReturned \/ \E g \in Groups : ExecuteGroup(g)
  BY <1>4 DEF Pick, TasksDone, GroupsDone, TaskReturned, ExecuteGroup
<1>5. CASE Refused
  BY <1>5 DEF Refused, SetStatus, Bad
<1>6. CASE ActionBegins
  <2>1. CASE exec.task \in Tasks
    <3>1. ran' = [ran EXCEPT ![exec.task] = @ + 1]
      BY <1>6, <2>1 DEF ActionBegins
    <3>2. ran' \in [Tasks -> Nat]
      BY <2>1, <3>1
    <3>3. QED
      BY <1>6, <3>2 DEF ActionBegins, SetStatus
  <2>2. CASE exec.task \notin Tasks
    BY <1>6, <2>2 DEF ActionBegins, SetStatus
  <2>3. QED
    BY <2>1, <2>2
<1>7. CASE ActionThrows
  <2>1. /\ UNCHANGED <<status_, cancelled_, executions, atStart, inTime, touched, ran,
                       everCompleted>>
        /\ Executed
    BY <1>7 DEF ActionThrows
  <2>2. CASE exec.task \notin Bases \/ exec.parent = NoTask
    <3>1. SetStatus(exec.task, "Failed") /\ Bad(exec.task)
      BY <1>7, <2>2 DEF ActionThrows
    <3>2. QED
      BY <2>1, <3>1 DEF SetStatus, Bad
  <2>3. CASE exec.task \in Bases /\ exec.parent # NoTask
    <3>1. status' = [status EXCEPT ![exec.task] = "Failed", ![exec.parent] = "Failed"]
          /\ Bad(exec.parent)
      BY <1>7, <2>3 DEF ActionThrows
    <3>2. QED
      BY <2>1, <3>1 DEF Bad
  <2>4. QED
    BY <2>2, <2>3
<1>8. CASE Decide
  <2>1. status' \in [All -> TaskStatus]
    BY <1>8 DEF Decide
  <2>2. bad' \subseteq Tasks
    BY <1>8 DEF Decide, Bad
  <2>3. QED
    BY <1>8, <2>1, <2>2 DEF Decide
<1>9. CASE Store
  <2>1. exec.task \in All
    BY <1>9 DEF Store, ExecOK, Inside
  <2>2. QED
    BY <1>9, <2>1 DEF Store, SetStatus
<1>10. CASE PostTasksDone \/ \E p \in Posts : TriggerPostTask(p)
  BY <1>10 DEF PostTasksDone, TriggerPostTask
<1>11. ASSUME NEW c \in Clients, NEW t \in All, Cancel(c, t) PROVE Typed
  BY <1>11 DEF Cancel, CancelUnchanged
<1>12. ASSUME NEW c \in Clients, CancelFlag(c) PROVE Typed
  <2>1. client[c].task \in All
    BY <1>12 DEF IInv, CancelInv, CancelFlag
  <2>2. QED
    BY <1>12, <2>1 DEF CancelFlag, CancelUnchanged
<1>13. ASSUME NEW c \in Clients, CancelFail(c) PROVE Typed
  <2>1. client[c].task \in All
    BY <1>13 DEF IInv, CancelInv, CancelFail
  <2>2. QED
    BY <1>13, <2>1 DEF CancelFail, CancelUnchanged, SetStatus
<1> USE DEF Edit, EditUnchanged
<1>14. CASE StoreStatus
  BY <1>14 DEF StoreStatus
<1>15. CASE SetEnabled
  <2>1. enabled_' \in BOOLEAN
    BY <1>15, Zenon DEF SetEnabled
  <2>2. QED
    BY <1>15, <2>1 DEF SetEnabled
<1>16. ASSUME NEW t \in Tasks, AddTask(t) PROVE Typed
  BY <1>16 DEF AddTask
<1>17. ASSUME NEW t \in Tasks, NEW g \in Groups, EditGroup(g, t) PROVE Typed
  <2>1. taskGroups_' \in [Groups -> Seq(Tasks)]
    <3>1. CASE t \in ToSet(taskGroups_[g])
      BY <1>17, <3>1, OthersStay DEF EditGroup
    <3>2. CASE t \notin ToSet(taskGroups_[g])
      BY <1>17, <3>2 DEF EditGroup
    <3>3. QED
      BY <3>1, <3>2
  <2>2. touched' \subseteq Tasks
    BY <1>17 DEF EditGroup, Touch
  <2>3. QED
    BY <1>17, <2>1, <2>2 DEF EditGroup
<1>18. ASSUME NEW t \in Tasks, NEW d \in Tasks, EditDependency(t, d) PROVE Typed
  <2>1. taskDependencies_' \in [Tasks -> SUBSET Tasks]
    BY <1>18 DEF EditDependency
  <2>2. touched' \subseteq Tasks
    BY <1>18 DEF EditDependency, Touch
  <2>3. QED
    BY <1>18, <2>1, <2>2 DEF EditDependency
<1>19. CASE UNCHANGED vars
  BY <1>19
<1>q. QED
  BY <1>1, <1>2, <1>3, <1>4, <1>5, <1>6, <1>7, <1>8, <1>9, <1>10, <1>11, <1>12, <1>13,
     <1>14, <1>15, <1>16, <1>17, <1>18, <1>19 DEF Next, ExecStep, CancelStep

\* Each order that Init may find is a list of tasks, none of them twice.
LEMMA InitialLists ==
  ASSUME NEW s \in SetToAllKPermutations(Tasks)
  PROVE  s \in Seq(Tasks) /\ Lists(s, ToSet(s))
<1>1. PICK T \in SUBSET Tasks : s \in SetToSeqs(T)
  BY DEF SetToAllKPermutations
<1>2. IsFiniteSet(T)
  BY TargetAssumption, FS_Subset DEF All
<1>3. Lists(s, T)
  BY <1>1, <1>2, ListsOrder
<1>4. ToSet(s) = T
  BY <1>3, ListsCount
<1>5. QED
  BY <1>3, <1>4 DEF Lists

\* The parts of TypeOK hold in every state.
THEOREM TypeParts == Spec => []TypeInv
<1>1. Init => TypeInv
  <2> SUFFICES ASSUME Init PROVE TypeInv
    OBVIOUS
  <2>1. ExecOK
    BY TargetAssumption DEF Init, ExecOK, Idle, Inside, All
  <2>2. SharedOK
    BY TargetAssumption, InitialLists DEF Init, SharedOK, TargetStatus, TaskStatus
  <2>3. HistoryOK
    BY DEF Init, HistoryOK
  <2>4. QED
    BY <2>1, <2>2, <2>3, Zenon DEF Init, TypeInv
<1>2. IInv /\ TypeInv /\ [Next]_vars => TypeInv'
  BY ExecTypeStep, StateTypeStep DEF TypeInv
<1>3. QED
  BY <1>1, <1>2, Inductive, PTL DEF Spec

\* Types for any target, and the task on the executing thread is a post-task exactly
\* when it has a parent, whatever threw, was refused or was cancelled before.
THEOREM Typing == Spec => []TypeOK
<1>1. IInv /\ TypeInv => TypeOK
  BY DEF IInv, CancelInv, FailureInv, TypeInv, ExecOK, SharedOK, HistoryOK, TypeOK
<1>2. QED
  BY <1>1, Inductive, TypeParts, PTL

-----------------------------------------------------------------------------
(* Every task has its turn. *)

Running == exec.pc \notin {"idle", "skip", "begin"}
Entering(t) == exec.pc = "enter" /\ exec.task = t
Due(t) == t \in ToSet(exec.todo) \/ Entering(t)
Settled(t) == ran[t] > 0 \/ status[t] = "Failed"

\* no element twice
Single(list) == Lists(list, ToSet(list))

\* No list names a task twice, and the task that is entered was taken off the list.
ListInv ==
  /\ Single(tasks_) /\ Single(exec.todo)
  /\ \A g \in Groups : Single(taskGroups_[g])
  /\ exec.pc = "enter" => exec.task \notin ToSet(exec.todo)

\* What the task in Task::execute depends on had completed.
NeedsInv ==
  /\ exec.needs \subseteq everCompleted
  /\ \A t \in All : status[t] = "Completed" => t \in everCompleted

\* A task that nobody regroups has run at most as often as its turns that are over:
\* an ungrouped task has its turn in the loop over the tasks, a grouped one in each
\* of its groups, and the groups to come and the list at hand owe it the rest.
InTurn(t) ==
  /\ exec.phase = "tasks" /\ Holding(t) = {} => ran[t] <= 1 /\ (Due(t) => ran[t] = 0)
  /\ exec.phase = "tasks" /\ Holding(t) # {} => ran[t] = 0 /\ ~Entering(t)
  /\ exec.phase = "groups" /\ Holding(t) = {} => ran[t] <= 1 /\ ~Due(t)
  /\ exec.phase = "groups" /\ Holding(t) # {} =>
       /\ ran[t] + Cardinality(Holding(t) \cap exec.groups) <= Cardinality(Holding(t))
       /\ Due(t) => ran[t] + Cardinality(Holding(t) \cap exec.groups) + 1
                      <= Cardinality(Holding(t))

TurnInv ==
  /\ ~Running => exec.phase = "tasks" /\ ran = [t \in Tasks |-> 0]
  /\ Running => \A t \in Tasks \ touched : InTurn(t)

\* A task that depends on nothing has run, was refused, or has a turn to come.
ToCome(t) == \/ Settled(t) \/ Due(t)
             \/ exec.phase = "tasks" /\ Holding(t) # {}
             \/ exec.phase = "groups" /\ Holding(t) \cap exec.groups # {}

LeftInv ==
  /\ exec.pc \in {"action", "store"} /\ exec.task \in Tasks => ran[exec.task] > 0
  /\ Running => atStart \subseteq ToSet(tasks_)
  /\ Running /\ ~exec.failed => \A t \in atStart : Free(t) => ToCome(t)
  /\ exec.pc = "finish" /\ ~exec.failed =>
       exec.phase = "groups" /\ exec.todo = <<>> /\ exec.groups = {}

\* the steps of Task::execute and its return
TaskStep == \/ TaskReturned \/ Refused \/ ActionBegins \/ ActionThrows \/ Decide
            \/ Store \/ PostTasksDone \/ \E p \in Posts : TriggerPostTask(p)

\* What such a step does to the loop around it: nothing, or it ends the list.
LoopKept ==
  /\ exec'.phase = exec.phase /\ exec'.groups = exec.groups
  /\ \/ exec'.todo = exec.todo /\ exec'.failed = exec.failed
     \/ exec'.todo = <<>> /\ exec'.failed = TRUE
  /\ \/ exec'.pc \in {"pick", "action", "store", "posts", "returned"}
     \/ exec'.pc = "enter" /\ exec'.task \in Posts
  /\ exec'.pc \in {"action", "store"} =>
       /\ exec'.task = exec.task
       /\ (exec.pc = "enter" /\ exec'.pc = "action") \/ exec.pc = "action"

\* A step of Task::execute leaves the loop alone, or ends its list with a failure.
LEMMA LoopKeeps ==
  ASSUME IInv, TypeInv, TaskStep
  PROVE  LoopKept /\ exec.pc \notin {"idle", "skip", "begin", "pick"}
<1> USE DEF IInv, Shape, LoopKept
<1>l. ASSUME Leave PROVE LoopKept
  <2>1. CASE exec.parent = NoTask
    BY <1>l, <2>1 DEF Leave
  <2>2. CASE exec.parent # NoTask
    BY <1>l, <2>2 DEF Leave
  <2>3. QED
    BY <2>1, <2>2
<1>c. ASSUME Continue PROVE LoopKept
  BY <1>c DEF Continue
<1>f. ASSUME Failure PROVE LoopKept
  <2>1. CASE exec.phase = "tasks"
    <3>1. exec' = [exec EXCEPT !.pc = "pick", !.failed = TRUE, !.todo = <<>>,
                               !.task = NoTask, !.needs = {}]
      BY <1>f, <2>1 DEF Failure
    <3>2. exec'.failed = TRUE
      BY <3>1
    <3>3. exec'.todo = <<>> /\ exec'.pc = "pick" /\ exec'.phase = exec.phase
          /\ exec'.groups = exec.groups
      BY <3>1
    <3>4. QED
      BY <3>2, <3>3
  <2>2. CASE exec.phase # "tasks"
    BY <1>f, <1>c, <2>2 DEF Failure
  <2>3. QED
    BY <2>1, <2>2
<1>1. CASE TaskReturned
  BY <1>1, <1>c, <1>f DEF TaskReturned
<1>2. CASE Refused
  BY <1>2, <1>l DEF Refused
<1>3. CASE ActionBegins
  BY <1>3 DEF ActionBegins
<1>4. CASE ActionThrows
  <2>1. CASE exec.task \notin Bases
    BY <1>4, <1>l, <2>1 DEF ActionThrows
  <2>2. CASE exec.task \in Bases /\ exec.parent = NoTask
    BY <1>4, <1>f, <2>2 DEF ActionThrows
  <2>3. CASE exec.task \in Bases /\ exec.parent # NoTask
    BY <1>4, <2>3 DEF ActionThrows
  <2>4. QED
    BY <2>1, <2>2, <2>3
<1>5. CASE Decide
  <2>1. CASE exec.task \in cancelled_
    BY <1>5, <1>l, <2>1 DEF Decide
  <2>2. CASE exec.task \notin cancelled_
    BY <1>5, <2>2 DEF Decide
  <2>3. QED
    BY <2>1, <2>2
<1>6. CASE Store
  <2>1. CASE exec.task \in Tasks \ Bases
    BY <1>6, <2>1 DEF Store
  <2>2. CASE exec.task \notin Tasks \ Bases
    BY <1>6, <1>l, <2>2 DEF Store
  <2>3. QED
    BY <2>1, <2>2
<1>7. CASE PostTasksDone
  BY <1>7 DEF PostTasksDone
<1>8. ASSUME NEW p \in Posts, TriggerPostTask(p) PROVE LoopKept /\ exec.pc = "posts"
  BY <1>8 DEF TriggerPostTask
<1>9. QED
  BY <1>1, <1>2, <1>3, <1>4, <1>5, <1>6, <1>7, <1>8 DEF TaskStep

\* What such a step does to the numbers and statuses of tasks: entering a task
\* counts or refuses it, and a task is Completed only after it was counted.
TasksKept ==
  /\ UNCHANGED <<tasks_, taskGroups_, taskDependencies_, touched, atStart>>
  /\ \A t \in Tasks : Entering(t) \/ ran'[t] = ran[t]
  /\ \A t \in Tasks : Entering(t) => ran'[t] \in {ran[t], ran[t] + 1} /\ Settled(t)'
  /\ \A t \in Tasks : status'[t] = status[t] \/ Settled(t)'
  /\ exec.pc = "enter" /\ exec'.pc = "action" /\ exec.task \in Tasks => ran'[exec.task] > 0

\* A step of Task::execute counts or refuses the task it enters.
LEMMA TasksKeep ==
  ASSUME IInv, TypeInv, LeftInv, TaskStep PROVE TasksKept
<1> USE DEF TypeInv, TasksKept, LoopUnchanged, TaskUnchanged, Executed, Entering, Settled,
        SharedOK, HistoryOK, All
<1>1. CASE TaskReturned
  BY <1>1 DEF TaskReturned
<1>2. CASE Refused
  <2>1. exec'.pc # "action"
    BY <1>2 DEF Refused, Leave, IInv, Shape
  <2>2. QED
    BY <1>2, <2>1 DEF Refused, SetStatus
<1>3. CASE ActionBegins
  <2>1. exec.pc = "enter" /\ status' = [status EXCEPT ![exec.task] = "InProgress"]
        /\ UNCHANGED <<tasks_, taskGroups_, taskDependencies_, touched, atStart>>
    BY <1>3 DEF ActionBegins, SetStatus
  <2>2. CASE exec.task \in Tasks
    <3>1. ran' = [ran EXCEPT ![exec.task] = @ + 1]
      BY <1>3, <2>2 DEF ActionBegins
    <3>2. ran'[exec.task] = ran[exec.task] + 1 /\ ran[exec.task] \in Nat
          /\ \A t \in Tasks : t # exec.task => ran'[t] = ran[t] /\ status'[t] = status[t]
      BY <2>1, <2>2, <3>1
    <3>3. QED
      BY <2>1, <2>2, <3>2
  <2>3. CASE exec.task \notin Tasks
    BY <1>3, <2>1, <2>3 DEF ActionBegins
  <2>4. QED
    BY <2>2, <2>3
<1>4. CASE ActionThrows
  <2>1. \A t \in Tasks : status'[t] = status[t] \/ status'[t] = "Failed"
    BY <1>4 DEF ActionThrows, SetStatus
  <2>2. QED
    BY <1>4, <2>1 DEF ActionThrows
<1>5. CASE Decide
  <2>1. \A t \in Tasks : status'[t] = status[t] \/ status'[t] = "Failed"
    BY <1>5 DEF Decide
  <2>2. QED
    BY <1>5, <2>1 DEF Decide
<1>6. CASE Store
  BY <1>6 DEF Store, SetStatus, LeftInv
<1>7. CASE PostTasksDone
  BY <1>7 DEF PostTasksDone
<1>8. ASSUME NEW p \in Posts, TriggerPostTask(p) PROVE TasksKept
  BY <1>8 DEF TriggerPostTask
<1>9. QED
  BY <1>1, <1>2, <1>3, <1>4, <1>5, <1>6, <1>7, <1>8 DEF TaskStep

\* The groups of a task can be counted.
LEMMA HeldFinite ==
  ASSUME NEW t, NEW S
  PROVE  /\ IsFiniteSet(Holding(t)) /\ Cardinality(Holding(t)) \in Nat
         /\ IsFiniteSet(Holding(t) \cap S) /\ Cardinality(Holding(t) \cap S) \in Nat
<1>1. Holding(t) \subseteq Groups /\ Holding(t) \cap S \subseteq Groups
  BY DEF Holding
<1>2. QED
  BY <1>1, TargetAssumption, FS_Subset, FS_CardinalityType

\* The empty list has no doubles.
LEMMA EmptySingle == Single(<<>>) /\ ToSet(<<>>) = {}
<1>1. ToSet(<<>>) = {}
  BY DEF ToSet
<1>2. QED
  BY <1>1 DEF Single, Lists

\* The steps of Task::execute take no turn away and give none twice.
LEMMA TaskStepTurns ==
  ASSUME IInv, TypeInv, ListInv, TurnInv, LeftInv, TaskStep
  PROVE  ListInv' /\ TurnInv' /\ LeftInv'
<1>1. LoopKept /\ TasksKept /\ exec.pc \notin {"idle", "skip", "begin", "pick"}
  BY LoopKeeps, TasksKeep
<1>2. Running /\ Running' /\ \A t \in Tasks : ~Entering(t)'
  BY <1>1, TargetAssumption DEF LoopKept, Running, Entering
<1>3. \A t : Holding(t)' = Holding(t)
  BY <1>1 DEF TasksKept, Holding
<1>4. ToSet(exec'.todo) \subseteq ToSet(exec.todo) /\ Single(exec'.todo)
  BY <1>1, EmptySingle DEF LoopKept, ListInv
<1>5. ToSet(exec.todo) \subseteq Tasks
  BY DEF TypeInv, ExecOK, ToSet
<1>6. ListInv'
  <2>1. exec'.pc = "enter" => exec'.task \notin ToSet(exec'.todo)
    BY <1>1, <1>4, <1>5, TargetAssumption DEF LoopKept
  <2>2. Single(tasks_)' /\ \A g \in Groups : Single(taskGroups_[g])'
    BY <1>1 DEF ListInv, TasksKept
  <2>3. Single(exec.todo)'
    BY <1>4 DEF Single
  <2>4. QED
    BY <2>1, <2>2, <2>3 DEF ListInv
<1>7. ASSUME NEW t \in Tasks PROVE Due(t)' => Due(t) /\ ~Entering(t)
  BY <1>2, <1>4 DEF Due, Entering, ListInv
<1>8. ASSUME NEW t \in Tasks \ touched' PROVE InTurn(t)'
  <2>1. t \in Tasks \ touched /\ InTurn(t)
    BY <1>1, <1>2 DEF TasksKept, TurnInv
  <2>2. exec'.phase = exec.phase /\ exec'.groups = exec.groups
    BY <1>1 DEF LoopKept
  <2>3. ~Entering(t)' /\ (Due(t)' => Due(t) /\ ~Entering(t)) /\ (Entering(t) => Due(t))
    BY <1>2, <1>7 DEF Due
  <2>4. ran[t] \in Nat /\ (Entering(t) \/ ran'[t] = ran[t])
        /\ (Entering(t) => ran'[t] \in {ran[t], ran[t] + 1})
    BY <1>1 DEF TasksKept, TypeInv, HistoryOK
  <2>5. /\ Cardinality(Holding(t)) \in Nat
        /\ Cardinality(Holding(t) \cap exec.groups) \in Nat
    BY HeldFinite
  <2>6. Holding(t)' = Holding(t)
    BY <1>3
  <2>7. CASE Entering(t)
    <3>1. Due(t) /\ ~Due(t)' /\ ~Entering(t)'
      BY <2>3, <2>7
    <3>2. ran'[t] <= ran[t] + 1 /\ ran'[t] \in Nat
      BY <2>4, <2>7
    <3>3. QED
      BY <2>1, <2>2, <2>4, <2>5, <2>6, <2>7, <3>1, <3>2 DEF InTurn
  <2>8. CASE ~Entering(t)
    <3>1. ran'[t] = ran[t]
      BY <2>4, <2>8
    <3>2. QED
      BY <2>1, <2>2, <2>3, <2>4, <2>5, <2>6, <3>1 DEF InTurn
  <2>9. QED
    BY <2>7, <2>8
<1>9. TurnInv'
  BY <1>2, <1>8 DEF TurnInv
<1>10. ASSUME NEW t \in atStart', ~exec'.failed, Free(t)' PROVE ToCome(t)'
  <2>1. t \in Tasks /\ t \in atStart
    BY <1>1 DEF TasksKept, TypeInv, HistoryOK
  <2>2. exec'.todo = exec.todo /\ ~exec.failed
    BY <1>1, <1>10 DEF LoopKept
  <2>3. Free(t)
    BY <1>1, <1>10 DEF Free, TasksKept
  <2>4. ToCome(t)
    BY <1>2, <2>1, <2>2, <2>3 DEF LeftInv
  <2>5. Settled(t) => Settled(t)'
    <3>1. ran[t] \in Nat /\ (ran'[t] = ran[t] \/ ran'[t] = ran[t] + 1)
      BY <1>1, <2>1 DEF TasksKept, TypeInv, HistoryOK
    <3>2. status'[t] = status[t] \/ Settled(t)'
      BY <1>1, <2>1 DEF TasksKept
    <3>3. QED
      BY <3>1, <3>2 DEF Settled
  <2>6. Due(t) => Due(t)' \/ Settled(t)'
    BY <1>1, <2>1, <2>2 DEF Due, TasksKept
  <2>7. exec'.phase = exec.phase /\ exec'.groups = exec.groups
    BY <1>1 DEF LoopKept
  <2>8. QED
    BY <1>3, <2>4, <2>5, <2>6, <2>7 DEF ToCome
<1>11. ASSUME exec'.pc \in {"action", "store"}, exec'.task \in Tasks PROVE ran'[exec'.task] > 0
  <2>1. /\ exec'.task = exec.task
        /\ (exec.pc = "enter" /\ exec'.pc = "action") \/ exec.pc = "action"
    BY <1>1, <1>11 DEF LoopKept
  <2>2. CASE exec.pc = "action"
    <3>1. ~Entering(exec.task) /\ ran[exec.task] > 0
      BY <1>11, <2>1, <2>2 DEF Entering, LeftInv
    <3>2. QED
      BY <1>1, <1>11, <2>1, <3>1 DEF TasksKept
  <2>3. CASE exec.pc = "enter" /\ exec'.pc = "action"
    BY <1>1, <1>11, <2>1, <2>3 DEF TasksKept
  <2>4. QED
    BY <2>1, <2>2, <2>3
<1>12. atStart' \subseteq ToSet(tasks_')
  BY <1>1, <1>2 DEF TasksKept, LeftInv
<1>13. exec'.pc # "finish"
  BY <1>1 DEF LoopKept
<1>14. LeftInv'
  BY <1>10, <1>11, <1>12, <1>13 DEF LeftInv
<1>15. QED
  BY <1>6, <1>9, <1>14

\* the steps of other threads
OutsideStep ==
  \/ \E c \in Clients : CancelStep(c) \/ \E t \in All : Cancel(c, t)
  \/ StoreStatus \/ SetEnabled
  \/ \E t \in Tasks : \/ AddTask(t)
                      \/ \E g \in Groups : EditGroup(g, t)
                      \/ \E d \in Tasks : EditDependency(t, d)
  \/ UNCHANGED vars

\* Another thread leaves alone the loop and what a task that it does not touch
\* belongs to and depends on.
OutsideKept ==
  /\ UNCHANGED <<exec, ran, atStart>>
  /\ touched \subseteq touched' /\ ToSet(tasks_) \subseteq ToSet(tasks_')
  /\ \A t \in Tasks : status'[t] = status[t] \/ status'[t] = "Failed"
  /\ exec.pc # "idle" => \A t \in Tasks \ touched' :
       Holding(t)' = Holding(t) /\ taskDependencies_'[t] = taskDependencies_[t]

\* A task is put into a group or taken out of it; the others stay where they are.
LEMMA GroupEdited ==
  ASSUME TypeInv, ListInv, NEW g \in Groups, NEW t \in Tasks, EditGroup(g, t)
  PROVE  /\ \A h \in Groups : Single(taskGroups_'[h])
         /\ \A u \in Tasks : u # t => Holding(u)' = Holding(u)
<1> DEFINE list == taskGroups_[g]
<1>0. /\ list \in Seq(Tasks) /\ Lists(list, ToSet(list)) /\ DOMAIN taskGroups_ = Groups
      /\ DOMAIN taskGroups_' = Groups
      /\ \A h \in Groups : h # g => taskGroups_'[h] = taskGroups_[h]
  BY DEF TypeInv, SharedOK, ListInv, Single, EditGroup
<1>1. CASE t \in ToSet(list)
  <2>1. taskGroups_'[g] = RemoveFirst(list, t)
    BY <1>0, <1>1 DEF EditGroup
  <2>2. Lists(RemoveFirst(list, t), ToSet(list) \ {t})
    BY <1>0, <1>1, ListsRemove
  <2>3. ToSet(taskGroups_'[g]) = ToSet(list) \ {t} /\ Single(taskGroups_'[g])
    BY <2>1, <2>2, ListsCount DEF Single
  <2>4. QED
    BY <1>0, <2>3 DEF Holding, ListInv
<1>2. CASE t \notin ToSet(list)
  <2>1. taskGroups_'[g] = Append(list, t)
    BY <1>0, <1>2 DEF EditGroup
  <2>2. Lists(Append(list, t), ToSet(list) \cup {t})
    BY <1>0, <1>2, ListsAppend
  <2>3. ToSet(taskGroups_'[g]) = ToSet(list) \cup {t} /\ Single(taskGroups_'[g])
    BY <2>1, <2>2, ListsCount DEF Single
  <2>4. QED
    BY <1>0, <2>3 DEF Holding, ListInv
<1>3. QED
  BY <1>1, <1>2

\* Cancellations and edits are such steps, and keep the lists without doubles.
LEMMA OutsideKeeps ==
  ASSUME TypeInv, CancelInv, ListInv, OutsideStep PROVE OutsideKept /\ ListInv'
<1> USE DEF OutsideKept, CancelUnchanged, EditUnchanged
<1>l. ASSUME UNCHANGED <<exec, tasks_, taskGroups_>> PROVE ListInv' /\ \A t : Holding(t)' = Holding(t)
  BY <1>l DEF ListInv, Holding
<1>1. ASSUME NEW c \in Clients, CancelStep(c) \/ \E t \in All : Cancel(c, t)
      PROVE  OutsideKept /\ ListInv'
  <2>1. \A t \in Tasks : status'[t] = status[t] \/ status'[t] = "Failed"
    BY <1>1 DEF CancelStep, CancelFlag, CancelFail, Cancel, SetStatus, TypeInv, SharedOK, All
  <2>2. UNCHANGED <<target, exec, atStart, ran, touched>>
    BY <1>1 DEF CancelStep, CancelFlag, CancelFail, Cancel
  <2>3. QED
    BY <1>l, <2>1, <2>2
<1>2. CASE StoreStatus \/ SetEnabled
  BY <1>2, <1>l DEF StoreStatus, SetEnabled
<1>3. ASSUME NEW t \in Tasks, AddTask(t) PROVE OutsideKept /\ ListInv'
  <2>1. tasks_' = Append(tasks_, t) /\ t \notin ToSet(tasks_) /\ Lists(tasks_, ToSet(tasks_))
        /\ UNCHANGED <<exec, atStart, ran, touched, taskGroups_, taskDependencies_, status>>
    BY <1>3 DEF AddTask, ListInv, Single
  <2>2. Lists(Append(tasks_, t), ToSet(tasks_) \cup {t})
    BY <2>1, ListsAppend
  <2>3. ToSet(tasks_') = ToSet(tasks_) \cup {t} /\ Single(tasks_')
    BY <2>1, <2>2, ListsCount DEF Single
  <2>4. Single(tasks_)' /\ Single(exec.todo)' /\ \A g \in Groups : Single(taskGroups_[g])'
    BY <2>1, <2>3 DEF ListInv, Single
  <2>5. ListInv'
    BY <2>1, <2>4 DEF ListInv
  <2>6. QED
    BY <2>1, <2>3, <2>5 DEF Holding
<1>4. ASSUME NEW t \in Tasks, NEW g \in Groups, EditGroup(g, t) PROVE OutsideKept /\ ListInv'
  <2>1. UNCHANGED <<exec, atStart, ran, tasks_, taskDependencies_, status>>
        /\ touched \subseteq touched' /\ (exec.pc # "idle" => t \in touched')
    BY <1>4 DEF EditGroup, Touch
  <2>2. /\ \A h \in Groups : Single(taskGroups_'[h])
        /\ \A u \in Tasks : u # t => Holding(u)' = Holding(u)
    BY <1>4, GroupEdited
  <2>3. ListInv'
    BY <2>1, <2>2 DEF ListInv, Single
  <2>4. QED
    BY <2>1, <2>2, <2>3
<1>5. ASSUME NEW t \in Tasks, NEW d \in Tasks, EditDependency(t, d) PROVE OutsideKept /\ ListInv'
  <2>1. UNCHANGED <<exec, atStart, ran, tasks_, taskGroups_, status>>
        /\ touched \subseteq touched' /\ (exec.pc # "idle" => t \in touched')
    BY <1>5 DEF EditDependency, Touch
  <2>2. \A u \in Tasks : u # t => taskDependencies_'[u] = taskDependencies_[u]
    BY <1>5 DEF EditDependency, TypeInv, SharedOK
  <2>3. QED
    BY <1>l, <2>1, <2>2
<1>6. CASE UNCHANGED vars
  BY <1>6, <1>l
<1>7. QED
  BY <1>1, <1>2, <1>3, <1>4, <1>5, <1>6 DEF OutsideStep

\* No other thread takes a turn from a task it does not touch.
LEMMA OutsideTurns ==
  ASSUME TypeInv, CancelInv, ListInv, TurnInv, LeftInv, OutsideStep
  PROVE  ListInv' /\ TurnInv' /\ LeftInv'
<1>1. OutsideKept /\ ListInv'
  BY OutsideKeeps
<1>2. Running' <=> Running
  BY <1>1 DEF OutsideKept, Running
<1>3. \A t : (Entering(t)' <=> Entering(t)) /\ (Due(t)' <=> Due(t))
  BY <1>1 DEF OutsideKept, Entering, Due
<1>4. Running => exec.pc # "idle"
  BY DEF Running
<1>5. ASSUME Running, NEW t \in Tasks \ touched' PROVE InTurn(t)'
  <2>1. InTurn(t) /\ Holding(t)' = Holding(t)
    BY <1>1, <1>4, <1>5 DEF OutsideKept, TurnInv
  <2>2. exec' = exec /\ ran' = ran
    BY <1>1 DEF OutsideKept
  <2>3. QED
    BY <1>3, <2>1, <2>2 DEF InTurn
<1>6. TurnInv'
  BY <1>1, <1>2, <1>5 DEF TurnInv, OutsideKept
<1>7. ASSUME Running, ~exec.failed, NEW t \in atStart', Free(t)' PROVE ToCome(t)'
  <2>1. t \in atStart /\ t \in Tasks /\ t \notin touched'
    BY <1>1, <1>7 DEF OutsideKept, TypeInv, HistoryOK, Free
  <2>2. Holding(t)' = Holding(t) /\ Free(t)
    BY <1>1, <1>4, <1>7, <2>1 DEF OutsideKept, Free
  <2>3. ToCome(t)
    BY <1>7, <2>1, <2>2 DEF LeftInv
  <2>4. Settled(t) => Settled(t)'
    BY <1>1, <2>1 DEF OutsideKept, Settled
  <2>5. exec' = exec
    BY <1>1 DEF OutsideKept
  <2>6. QED
    BY <1>3, <2>2, <2>3, <2>4, <2>5 DEF ToCome
<1>8. LeftInv'
  BY <1>1, <1>2, <1>7 DEF LeftInv, OutsideKept
<1>9. QED
  BY <1>1, <1>6, <1>8

\* Between two executions nothing has run.
LEMMA EndsTurns ==
  ASSUME IInv, TypeInv, ListInv, TurnInv, Execute \/ SkipDisabled \/ Finish
  PROVE  ListInv' /\ TurnInv' /\ LeftInv'
<1>1. exec'.pc \in {"idle", "skip", "begin"} /\ exec'.phase = "tasks" /\ exec'.todo = <<>>
  <2>1. CASE Execute
    <3>1. PICK pc \in {"skip", "begin"} : exec' = [Idle EXCEPT !.pc = pc]
      BY <2>1 DEF Execute
    <3>2. QED
      BY <3>1 DEF Idle
  <2>2. CASE SkipDisabled \/ Finish
    <3>1. exec' = Idle
      BY <2>2 DEF SkipDisabled, Finish
    <3>2. QED
      BY <3>1 DEF Idle
  <2>3. QED
    BY <2>1, <2>2
<1>2. exec'.phase = "tasks" /\ exec'.todo = <<>> /\ ~Running' /\ exec'.pc # "enter"
  BY <1>1 DEF Running
<1>3. ran' = [t \in Tasks |-> 0]
  <2>1. CASE Execute
    BY <2>1 DEF Execute, TurnInv, Running
  <2>2. CASE SkipDisabled \/ Finish
    BY <2>2 DEF SkipDisabled, Finish, Forget
  <2>3. QED
    BY <2>1, <2>2
<1>4. UNCHANGED <<tasks_, taskGroups_>>
  BY DEF Execute, SkipDisabled, Finish, Executed
<1>5. ListInv'
  <2>1. Single(exec'.todo)
    BY <1>2, EmptySingle
  <2>2. QED
    BY <1>2, <1>4, <2>1 DEF ListInv, Single
<1>6. TurnInv' /\ LeftInv'
  BY <1>2, <1>3 DEF TurnInv, LeftInv, Running
<1>7. QED
  BY <1>5, <1>6

\* The loop over the tasks begins with all of them.
LEMMA BeginTurns ==
  ASSUME IInv, TypeInv, ListInv, TurnInv, Begin PROVE ListInv' /\ TurnInv' /\ LeftInv'
<1>1. /\ exec.pc = "begin" /\ exec' = [exec EXCEPT !.pc = "pick", !.todo = tasks_]
      /\ atStart' = ToSet(tasks_) /\ UNCHANGED <<tasks_, taskGroups_, ran>>
  BY DEF Begin, Executed
<1>2. exec'.pc = "pick" /\ exec'.todo = tasks_ /\ exec'.phase = exec.phase /\ Running'
  BY <1>1 DEF IInv, Shape, Running
<1>3. ~Running /\ exec.phase = "tasks" /\ \A t \in Tasks : ran[t] = 0
  BY <1>1 DEF TurnInv, Running
<1>4. \A t : ~Entering(t)'
  BY <1>2 DEF Entering
<1>5. ListInv'
  BY <1>1, <1>2 DEF ListInv, Single
<1>6. TurnInv'
  BY <1>1, <1>2, <1>3, <1>4 DEF TurnInv, InTurn
<1>7. \A t \in atStart' : Due(t)'
  BY <1>1, <1>2 DEF Due
<1>8. LeftInv'
  BY <1>1, <1>2, <1>7 DEF LeftInv, ToCome
<1>9. QED
  BY <1>5, <1>6, <1>8

\* Each look at the list takes one task off it: it is entered, or it has its turn
\* elsewhere or depends on something.
LEMMA PickTurns ==
  ASSUME IInv, TypeInv, ListInv, TurnInv, LeftInv, Pick PROVE ListInv' /\ TurnInv' /\ LeftInv'
<1> DEFINE u == Head(exec.todo)
<1>1. /\ exec.pc = "pick" /\ exec.todo # <<>>
      /\ UNCHANGED <<tasks_, taskGroups_, taskDependencies_, touched, atStart, ran, status>>
  BY DEF Pick, LoopUnchanged, Executed
<1>2. \/ /\ Wanted(u)
         /\ exec' = [exec EXCEPT !.pc = "enter", !.todo = Tail(@), !.task = u,
                                 !.parent = NoTask, !.needs = taskDependencies_[u]]
      \/ ~Wanted(u) /\ exec' = [exec EXCEPT !.todo = Tail(@)]
  BY DEF Pick, PassOver
<1>3. Lists(exec.todo, ToSet(exec.todo)) /\ ToSet(exec.todo) \subseteq Tasks
  BY DEF ListInv, Single, TypeInv, ExecOK, ToSet
<1>4. Lists(Tail(exec.todo), ToSet(exec.todo) \ {u}) /\ u \in ToSet(exec.todo)
  BY <1>1, <1>3, ListsTail
<1>5. ToSet(Tail(exec.todo)) = ToSet(exec.todo) \ {u}
  BY <1>4, ListsCount
<1> HIDE DEF u
<1>6. /\ exec'.todo = Tail(exec.todo) /\ exec'.phase = exec.phase /\ exec'.groups = exec.groups
      /\ exec'.failed = exec.failed
      /\ \/ exec'.pc = "enter" /\ exec'.task = u /\ Wanted(u)
         \/ exec'.pc = "pick" /\ ~Wanted(u)
  BY <1>1, <1>2 DEF IInv, Shape
<1>7. Running /\ Running'
  BY <1>1, <1>6 DEF Running
<1>8. ListInv'
  <2>1. Single(exec'.todo)
    BY <1>4, <1>5, <1>6 DEF Single
  <2>2. QED
    BY <1>1, <1>5, <1>6, <2>1 DEF ListInv, Single
<1>9. \A t : Holding(t)' = Holding(t)
  BY <1>1 DEF Holding
<1>10. \A t : (Due(t)' => Due(t)) /\ (Entering(t)' <=> t = u /\ Wanted(u)) /\ ~Entering(t)
  BY <1>1, <1>4, <1>5, <1>6 DEF Due, Entering
<1>11. Wanted(u) /\ exec.phase = "tasks" => Holding(u) = {}
  BY DEF Wanted, InGroup, Holding
<1>12. ASSUME NEW t \in Tasks \ touched' PROVE InTurn(t)'
  <2>1. InTurn(t) /\ Holding(t)' = Holding(t)
    BY <1>1, <1>7, <1>9, <1>12 DEF TurnInv
  <2>2. Entering(t)' => Due(t) /\ (exec.phase = "tasks" => Holding(t) = {})
    BY <1>4, <1>10, <1>11 DEF Due
  <2>3. (Due(t)' => Due(t)) /\ ran' = ran /\ exec'.phase = exec.phase
        /\ exec'.groups = exec.groups
    BY <1>1, <1>6, <1>10
  <2>4. QED
    BY <2>1, <2>2, <2>3 DEF InTurn
<1>13. TurnInv'
  BY <1>7, <1>12 DEF TurnInv
<1>14. ASSUME ~exec'.failed, NEW t \in atStart', Free(t)' PROVE ToCome(t)'
  <2>1. t \in atStart /\ Free(t) /\ ToCome(t)
    BY <1>1, <1>6, <1>7, <1>14 DEF LeftInv, Free
  <2>2. CASE t # u
    <3>1. Due(t) => Due(t)'
      BY <1>1, <1>5, <1>6, <2>2 DEF Due, Entering
    <3>2. QED
      BY <1>1, <1>6, <1>9, <2>1, <3>1 DEF ToCome, Settled
  <2>3. CASE t = u /\ Wanted(u)
    BY <1>10, <2>3 DEF ToCome, Due
  <2>4. CASE t = u /\ ~Wanted(u)
    <3>1. t \in ToSet(tasks_) /\ taskDependencies_[t] = {}
      BY <1>7, <2>1 DEF LeftInv, Free
    <3>2. exec.phase = "tasks" /\ Holding(t) # {}
      BY <2>4, <3>1 DEF Wanted, CheckDependencies, InGroup, Holding
    <3>3. QED
      BY <1>6, <1>9, <3>2 DEF ToCome
  <2>5. QED
    BY <2>2, <2>3, <2>4
<1>15. LeftInv'
  BY <1>1, <1>6, <1>7, <1>14 DEF LeftInv
<1>16. QED
  BY <1>8, <1>13, <1>15

\* After the ungrouped tasks every group is to come.
LEMMA TasksDoneTurns ==
  ASSUME IInv, TypeInv, ListInv, TurnInv, LeftInv, TasksDone PROVE ListInv' /\ TurnInv' /\ LeftInv'
<1>1. /\ exec.pc = "pick" /\ exec.phase = "tasks" /\ exec.todo = <<>>
      /\ UNCHANGED <<tasks_, taskGroups_, taskDependencies_, touched, atStart, ran, status>>
  BY DEF TasksDone, LoopUnchanged, Executed
<1>2. \A t : Holding(t)' = Holding(t)
  BY <1>1 DEF Holding
<1>3. Running /\ \A t : ~Entering(t) /\ ~Due(t)
  BY <1>1, EmptySingle DEF Running, Entering, Due
<1>4. CASE exec.failed
  <2>1. exec' = [exec EXCEPT !.pc = "finish"]
    BY <1>4 DEF TasksDone
  <2>2. exec'.pc = "finish" /\ exec'.phase = "tasks" /\ exec'.todo = <<>>
        /\ exec'.failed = exec.failed
    BY <1>1, <2>1 DEF IInv, Shape
  <2>3. Running' /\ \A t : ~Entering(t)' /\ ~Due(t)'
    BY <2>2, EmptySingle DEF Running, Entering, Due
  <2>4. ListInv'
    BY <1>1, <2>2 DEF ListInv, Single
  <2>5. TurnInv'
    BY <1>1, <1>2, <1>3, <2>2, <2>3 DEF TurnInv, InTurn
  <2>6. LeftInv'
    BY <1>1, <1>3, <1>4, <2>2 DEF LeftInv
  <2>7. QED
    BY <2>4, <2>5, <2>6
<1>5. CASE ~exec.failed
  <2>1. exec' = [exec EXCEPT !.phase = "groups", !.groups = Groups]
    BY <1>5 DEF TasksDone
  <2>2. exec'.pc = "pick" /\ exec'.phase = "groups" /\ exec'.todo = <<>>
        /\ exec'.groups = Groups
    BY <1>1, <2>1 DEF IInv, Shape
  <2>3. Running' /\ \A t : ~Entering(t)' /\ ~Due(t)'
    BY <2>2, EmptySingle DEF Running, Entering, Due
  <2>4. ListInv'
    BY <1>1, <2>2 DEF ListInv, Single
  <2>5. ASSUME NEW t \in Tasks \ touched' PROVE InTurn(t)'
    <3>1. InTurn(t) /\ Holding(t)' = Holding(t)
      BY <1>1, <1>2, <1>3, <2>5 DEF TurnInv
    <3>2. (Holding(t) \cap exec.groups)' = Holding(t)
      BY <2>2, <3>1 DEF Holding
    <3>3. Cardinality(Holding(t)) \in Nat
      BY HeldFinite
    <3>4. (Holding(t) = {} => ran[t] <= 1) /\ (Holding(t) # {} => ran[t] = 0)
      BY <1>1, <3>1 DEF InTurn
    <3>5. Cardinality(Holding(t) \cap exec.groups)' = Cardinality(Holding(t)) /\ ran' = ran
      BY <1>1, <3>2
    <3>6. QED
      BY <2>2, <2>3, <3>1, <3>3, <3>4, <3>5 DEF InTurn
  <2>6. TurnInv'
    BY <2>3, <2>5 DEF TurnInv
  <2>7. ASSUME NEW t \in atStart', Free(t)' PROVE ToCome(t)'
    <3>1. ToCome(t)
      BY <1>1, <1>3, <1>5, <2>7 DEF LeftInv, Free
    <3>2. Settled(t) \/ Holding(t) # {}
      BY <1>1, <1>3, <3>1 DEF ToCome
    <3>3. Holding(t) \cap Groups = Holding(t)
      BY DEF Holding
    <3>4. QED
      BY <1>1, <1>2, <2>2, <3>2, <3>3 DEF ToCome, Settled
  <2>8. LeftInv'
    BY <1>1, <1>3, <2>2, <2>7 DEF LeftInv
  <2>9. QED
    BY <2>4, <2>6, <2>8
<1>6. QED
  BY <1>4, <1>5

\* A group that comes up gives its turn to each task it holds.
LEMMA GroupTurns ==
  ASSUME IInv, TypeInv, ListInv, TurnInv, LeftInv, NEW g \in Groups, ExecuteGroup(g)
  PROVE  ListInv' /\ TurnInv' /\ LeftInv'
<1>1. /\ exec.pc = "pick" /\ exec.phase = "groups" /\ exec.todo = <<>> /\ g \in exec.groups
      /\ exec' = [exec EXCEPT !.groups = @ \ {g}, !.todo = taskGroups_[g]]
      /\ UNCHANGED <<tasks_, taskGroups_, taskDependencies_, touched, atStart, ran, status>>
  BY DEF ExecuteGroup, LoopUnchanged, Executed
<1>2. exec'.pc = "pick" /\ exec'.phase = "groups" /\ exec'.todo = taskGroups_[g]
      /\ exec'.groups = exec.groups \ {g} /\ exec'.failed = exec.failed
  BY <1>1 DEF IInv, Shape
<1>3. Running /\ Running' /\ \A t : ~Due(t) /\ ~Entering(t)'
  BY <1>1, <1>2, EmptySingle DEF Running, Entering, Due
<1>4. \A t : (Due(t)' <=> g \in Holding(t)) /\ Holding(t)' = Holding(t)
  BY <1>1, <1>2, <1>3 DEF Due, Holding
<1>5. ListInv'
  BY <1>1, <1>2 DEF ListInv, Single
<1>6. ASSUME NEW t \in Tasks \ touched' PROVE InTurn(t)'
  <2> DEFINE ahead == Holding(t) \cap exec.groups
             next == Holding(t) \cap exec'.groups
  <2>1. InTurn(t) /\ Holding(t)' = Holding(t) /\ (Due(t)' <=> g \in Holding(t))
    BY <1>1, <1>3, <1>4, <1>6 DEF TurnInv
  <2>2. Cardinality(Holding(t)) \in Nat /\ Cardinality(ahead) \in Nat /\ ran[t] \in Nat
        /\ IsFiniteSet(ahead)
    BY HeldFinite DEF TypeInv, HistoryOK
  <2>3. next = ahead \ {g} /\ (g \in ahead <=> g \in Holding(t))
    BY <1>1, <1>2
  <2>5. /\ Holding(t) = {} => ran[t] <= 1 /\ g \notin Holding(t)
        /\ Holding(t) # {} => ran[t] + Cardinality(ahead) <= Cardinality(Holding(t))
    BY <1>1, <2>1 DEF InTurn
  <2>6. Cardinality(next) = Cardinality(Holding(t) \cap exec.groups)' /\ ran' = ran
    BY <1>1, <2>1
  <2> HIDE DEF ahead, next
  <2>7. Cardinality(ahead \ {g}) = IF g \in ahead THEN Cardinality(ahead) - 1
                                                  ELSE Cardinality(ahead)
    BY <2>2, FS_RemoveElement
  <2>8. Cardinality(next) = IF g \in Holding(t) THEN Cardinality(ahead) - 1
                                                ELSE Cardinality(ahead)
    BY <2>3, <2>7
  <2>9. QED
    BY <1>2, <1>3, <2>1, <2>2, <2>5, <2>6, <2>8 DEF InTurn
<1>7. TurnInv'
  BY <1>3, <1>6 DEF TurnInv
<1>8. ASSUME ~exec'.failed, NEW t \in atStart', Free(t)' PROVE ToCome(t)'
  <2>1. ToCome(t)
    BY <1>1, <1>2, <1>3, <1>8 DEF LeftInv, Free
  <2>2. Settled(t) \/ Holding(t) \cap exec.groups # {}
    BY <1>1, <1>3, <2>1 DEF ToCome
  <2>3. Holding(t) \cap exec.groups # {} => Due(t)' \/ Holding(t) \cap exec'.groups # {}
    BY <1>2, <1>4
  <2>4. QED
    BY <1>1, <1>2, <1>4, <2>2, <2>3 DEF ToCome, Settled
<1>9. LeftInv'
  BY <1>1, <1>2, <1>3, <1>8 DEF LeftInv
<1>10. QED
  BY <1>5, <1>7, <1>9

\* After the last group nothing is left.
LEMMA GroupsDoneTurns ==
  ASSUME IInv, TypeInv, ListInv, TurnInv, LeftInv, GroupsDone PROVE ListInv' /\ TurnInv' /\ LeftInv'
<1>1. /\ exec.pc = "pick" /\ exec.phase = "groups" /\ exec.todo = <<>> /\ exec.groups = {}
      /\ exec' = [exec EXCEPT !.pc = "finish"]
      /\ UNCHANGED <<tasks_, taskGroups_, taskDependencies_, touched, atStart, ran, status>>
  BY DEF GroupsDone, LoopUnchanged, Executed
<1>2. exec'.pc = "finish" /\ exec'.phase = "groups" /\ exec'.todo = <<>>
      /\ exec'.groups = {} /\ exec'.failed = exec.failed
  BY <1>1 DEF IInv, Shape
<1>3. Running /\ Running' /\ \A t : ~Due(t) /\ ~Due(t)' /\ ~Entering(t)'
  BY <1>1, <1>2, EmptySingle DEF Running, Entering, Due
<1>4. \A t : Holding(t)' = Holding(t)
  BY <1>1 DEF Holding
<1>5. ListInv'
  BY <1>1, <1>2 DEF ListInv, Single
<1>6. TurnInv'
  BY <1>1, <1>2, <1>3, <1>4 DEF TurnInv, InTurn
<1>7. LeftInv'
  BY <1>1, <1>2, <1>3, <1>4 DEF LeftInv, ToCome, Settled, Free
<1>8. QED
  BY <1>5, <1>6, <1>7

\* What a task needs is looked up when its turn comes, and nothing that completed
\* is forgotten.
LEMMA NeedsStep ==
  ASSUME IInv, TypeInv, NeedsInv, [Next]_vars PROVE NeedsInv'
<1> USE DEF NeedsInv, IInv, Shape, Executed, LoopUnchanged, TaskUnchanged, CancelUnchanged,
        EditUnchanged
<1>s. ASSUME everCompleted \subseteq everCompleted',
             \A t \in All : status'[t] = status[t] \/ status'[t] # "Completed"
                            \/ t \in everCompleted',
             exec'.needs \in {exec.needs, {}}
      PROVE  NeedsInv'
  BY <1>s
<1>n. ASSUME Leave \/ Continue \/ Failure PROVE exec'.needs \in {exec.needs, {}}
  <2>1. CASE Leave
    BY <2>1 DEF Leave
  <2>2. CASE Continue
    BY <2>2 DEF Continue
  <2>3. CASE Failure
    BY <2>3 DEF Failure, Continue
  <2>4. QED
    BY <1>n, <2>1, <2>2, <2>3
<1>1. CASE Execute
  BY <1>1, <1>s DEF Execute, Idle
<1>2. CASE SkipDisabled \/ Finish
  BY <1>2, <1>s DEF SkipDisabled, Finish, Idle, Forget
<1>3. CASE Begin
  BY <1>3, <1>s DEF Begin
<1>4. CASE Pick
  <2> DEFINE t == Head(exec.todo)
  <2>1. t \in Tasks /\ UNCHANGED <<status, everCompleted>>
    BY <1>4 DEF Pick, TypeInv, ExecOK
  <2>2. CASE Wanted(t)
    <3>1. exec' = [exec EXCEPT !.pc = "enter", !.todo = Tail(@), !.task = t,
                               !.parent = NoTask, !.needs = taskDependencies_[t]]
      BY <1>4, <2>2 DEF Pick
    <3>2. taskDependencies_[t] \subseteq Tasks
          /\ \A d \in taskDependencies_[t] : status[d] = "Completed"
      BY <2>1, <2>2 DEF Wanted, CheckDependencies, TypeInv, SharedOK
    <3>3. QED
      BY <2>1, <3>1, <3>2 DEF All
  <2>3. CASE ~Wanted(t)
    BY <1>4, <1>s, <2>1, <2>3 DEF Pick, PassOver
  <2>4. QED
    BY <2>2, <2>3
<1>5. CASE TasksDone \/ GroupsDone
  BY <1>5, <1>s DEF TasksDone, GroupsDone
<1>6. ASSUME NEW g \in Groups, ExecuteGroup(g) PROVE NeedsInv'
  BY <1>6, <1>s DEF ExecuteGroup
<1>7. CASE TaskReturned
  BY <1>7, <1>s, <1>n DEF TaskReturned
<1>8. CASE Refused
  BY <1>8, <1>s, <1>n DEF Refused, SetStatus
<1>9. CASE ActionBegins
  BY <1>9, <1>s DEF ActionBegins, SetStatus
<1>10. CASE ActionThrows
  <2>1. \A t \in All : status'[t] = status[t] \/ status'[t] = "Failed"
    BY <1>10 DEF ActionThrows, SetStatus
  <2>2. exec'.needs \in {exec.needs, {}}
    BY <1>10, <1>n DEF ActionThrows
  <2>3. QED
    BY <1>10, <1>s, <2>1, <2>2 DEF ActionThrows
<1>11. CASE Decide
  <2>1. \A t \in All : status'[t] = status[t] \/ status'[t] = "Failed"
    BY <1>11 DEF Decide
  <2>2. exec'.needs \in {exec.needs, {}}
    BY <1>11, <1>n DEF Decide
  <2>3. QED
    BY <1>11, <1>s, <2>1, <2>2 DEF Decide
<1>12. CASE Store
  <2>1. exec'.needs \in {exec.needs, {}}
    BY <1>12, <1>n DEF Store
  <2>2. QED
    BY <1>12, <1>s, <2>1 DEF Store, SetStatus
<1>13. CASE PostTasksDone
  BY <1>13, <1>s DEF PostTasksDone
<1>14. ASSUME NEW p \in Posts, TriggerPostTask(p) PROVE NeedsInv'
  BY <1>14, <1>s DEF TriggerPostTask
<1>15. ASSUME NEW c \in Clients, CancelStep(c) \/ \E t \in All : Cancel(c, t) PROVE NeedsInv'
  BY <1>15, <1>s DEF CancelStep, CancelFlag, CancelFail, Cancel, SetStatus
<1>16. ASSUME \/ StoreStatus \/ SetEnabled
              \/ \E t \in Tasks : \/ AddTask(t) \/ \E g \in Groups : EditGroup(g, t)
                                  \/ \E d \in Tasks : EditDependency(t, d)
              \/ UNCHANGED vars
       PROVE  NeedsInv'
  BY <1>16, <1>s DEF StoreStatus, SetEnabled, AddTask, EditGroup, EditDependency
<1>q. QED
  BY <1>1, <1>2, <1>3, <1>4, <1>5, <1>6, <1>7, <1>8, <1>9, <1>10, <1>11, <1>12, <1>13,
     <1>14, <1>15, <1>16 DEF Next, ExecStep

\* The lists have no doubles, needs are met, and turns taken and turns to come add up:
\* the inductive invariant of the two loops of Target::execute().
THEOREM TurnsKept == Spec => [](ListInv /\ NeedsInv /\ TurnInv /\ LeftInv)
<1> DEFINE I == ListInv /\ NeedsInv /\ TurnInv /\ LeftInv
<1>1. Init => I
  <2> SUFFICES ASSUME Init PROVE I
    OBVIOUS
  <2>1. exec.pc = "idle" /\ exec.phase = "tasks" /\ exec.todo = <<>> /\ exec.needs = {}
        /\ exec.failed = FALSE
    BY DEF Init, Idle
  <2>2. ListInv
    BY <2>1, InitialLists, EmptySingle DEF Init, ListInv, Single
  <2>3. NeedsInv
    BY <2>1 DEF Init, NeedsInv
  <2>4. TurnInv /\ LeftInv
    BY <2>1 DEF Init, TurnInv, LeftInv, Running
  <2>5. QED
    BY <2>2, <2>3, <2>4
<1>2. IInv /\ TypeInv /\ I /\ [Next]_vars => I'
  <2> SUFFICES ASSUME IInv, TypeInv, I, [Next]_vars PROVE I'
    OBVIOUS
  <2>1. \/ Execute \/ SkipDisabled \/ Finish
        \/ Begin \/ Pick \/ TasksDone \/ GroupsDone \/ TaskStep \/ OutsideStep
        \/ \E g \in Groups : ExecuteGroup(g)
    BY DEF Next, ExecStep, TaskStep, OutsideStep
  <2>2. CancelInv
    BY DEF IInv
  <2>3. ListInv' /\ TurnInv' /\ LeftInv'
    BY <2>1, <2>2, EndsTurns, BeginTurns, PickTurns, TasksDoneTurns, GroupsDoneTurns,
       GroupTurns, TaskStepTurns, OutsideTurns
  <2>4. QED
    BY <2>3, NeedsStep
<1>3. QED
  BY <1>1, <1>2, Inductive, TypeParts, PTL DEF Spec

\* For any tasks, groups and dependencies, executed and edited any number of times:
\* the action of a task is entered only when what it depended on had completed, a
\* task that nobody regroups meanwhile runs at most once for each of its groups, and
\* a target that becomes Completed has left out no task that depends on nothing and
\* was not refused.
THEOREM EveryTaskInTurn == Spec => []TasksInTurn
<1>1. TypeInv /\ ListInv /\ NeedsInv /\ TurnInv /\ LeftInv => TasksInTurn
  <2> SUFFICES ASSUME TypeInv, ListInv, NeedsInv, TurnInv, LeftInv PROVE TasksInTurn
    OBVIOUS
  <2>1. exec.needs \subseteq everCompleted
    BY DEF NeedsInv
  <2>2. ASSUME NEW t \in Tasks, t \notin touched PROVE ran[t] <= Turns(t)
    <3>1. /\ Cardinality(Holding(t)) \in Nat
          /\ Cardinality(Holding(t) \cap exec.groups) \in Nat /\ ran[t] \in Nat
      BY HeldFinite DEF TypeInv, HistoryOK
    <3>2. CASE Running
      <4>1. InTurn(t) /\ exec.phase \in {"tasks", "groups"}
        BY <2>2, <3>2 DEF TurnInv, TypeInv, ExecOK
      <4>2. QED
        BY <3>1, <4>1 DEF InTurn, Turns
    <3>3. CASE ~Running
      <4>1. ran[t] = 0
        BY <3>3 DEF TurnInv
      <4>2. QED
        BY <3>1, <4>1 DEF Turns
    <3>4. QED
      BY <3>2, <3>3
  <2>3. ASSUME exec.pc = "finish", ~exec.failed, NEW t \in atStart, Free(t)
        PROVE  ran[t] > 0 \/ status[t] = "Failed"
    <3>1. ToCome(t)
      BY <2>3 DEF LeftInv, Running
    <3>2. exec.phase = "groups" /\ exec.todo = <<>> /\ exec.groups = {}
      BY <2>3 DEF LeftInv
    <3>3. ~Due(t)
      BY <2>3, <3>2, EmptySingle DEF Due, Entering
    <3>4. QED
      BY <3>1, <3>2, <3>3 DEF ToCome, Settled
  <2>4. QED
    BY <2>1, <2>2, <2>3 DEF TasksInTurn
<1>2. QED
  BY <1>1, TypeParts, TurnsKept, PTL

-----------------------------------------------------------------------------
(* To the sequence an execution is what TargetOutcome says. *)

\* Each step stores what TargetOutcome allows at that point, or is invisible.
LEMMA OutcomeStep ==
  ASSUME IInv, [Next]_vars PROVE [Outcome!OutcomeNext]_(Outcome!outcomeVars)
<1> USE DEF IInv, Shape, Outcome!outcomeVars, Outcome!OutcomeNext, Idle, Executed,
        LoopUnchanged, TaskUnchanged, CancelUnchanged, EditUnchanged, Leave, Continue,
        Failure, PassOver
<1>s. ASSUME UNCHANGED <<status_, enabled_>>,
             exec' = exec \/ {exec.pc, exec'.pc} \cap {"idle", "skip", "begin"} = {}
      PROVE  UNCHANGED Outcome!outcomeVars
  BY <1>s
<1>1. CASE Execute
  BY <1>1 DEF Execute, Outcome!Look
<1>2. CASE SkipDisabled
  BY <1>2 DEF SkipDisabled, Outcome!Write
<1>3. CASE Begin
  BY <1>3 DEF Begin, Outcome!Write
<1>4. CASE Finish
  BY <1>4 DEF Finish, Outcome!Write
<1>5. CASE Pick
  BY <1>5, <1>s DEF Pick
<1>6. CASE TasksDone \/ GroupsDone \/ TaskReturned
  BY <1>6, <1>s DEF TasksDone, GroupsDone, TaskReturned
<1>7. ASSUME NEW g \in Groups, ExecuteGroup(g) PROVE UNCHANGED Outcome!outcomeVars
  BY <1>7, <1>s DEF ExecuteGroup
<1>8. CASE Refused \/ ActionBegins \/ Decide \/ Store \/ PostTasksDone
  BY <1>8, <1>s DEF Refused, ActionBegins, Decide, Store, PostTasksDone
<1>9. CASE ActionThrows
  BY <1>9, <1>s DEF ActionThrows
<1>10. ASSUME NEW p \in Posts, TriggerPostTask(p) PROVE UNCHANGED Outcome!outcomeVars
  BY <1>10, <1>s DEF TriggerPostTask
<1>11. ASSUME NEW c \in Clients, CancelStep(c) \/ \E t \in All : Cancel(c, t)
       PROVE  UNCHANGED Outcome!outcomeVars
  BY <1>11, <1>s DEF CancelStep, CancelFlag, CancelFail, Cancel
<1>12. CASE StoreStatus
  BY <1>12 DEF StoreStatus, Outcome!Outside
<1>13. CASE SetEnabled
  BY <1>13 DEF SetEnabled, Outcome!Enable
<1>14. ASSUME NEW t \in Tasks, \/ AddTask(t) \/ \E g \in Groups : EditGroup(g, t)
                               \/ \E d \in Tasks : EditDependency(t, d)
       PROVE  UNCHANGED Outcome!outcomeVars
  BY <1>14, <1>s DEF AddTask, EditGroup, EditDependency
<1>15. CASE UNCHANGED vars
  BY <1>15, <1>s
<1>q. QED
  BY <1>1, <1>2, <1>3, <1>4, <1>5, <1>6, <1>7, <1>8, <1>9, <1>10, <1>11, <1>12, <1>13,
     <1>14, <1>15 DEF Next, ExecStep

\* Target::execute() implements TargetOutcome without its liveness: it looks at
\* enabled_ once and stores exactly one outcome, after InProgress or instead of it,
\* whatever tasks, cancellations and edits do meanwhile.
THEOREM OneOutcome == Spec => Outcome!OutcomeSpec
<1>1. Init => Outcome!OutcomeInit
  BY DEF Init, Idle, Outcome!OutcomeInit
<1>2. QED
  BY <1>1, OutcomeStep, Inductive, PTL DEF Spec, Outcome!OutcomeSpec
=============================================================================
