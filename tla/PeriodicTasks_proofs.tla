------------------------- MODULE PeriodicTasks_proofs -------------------------
(* Theorems about PeriodicTasks and the EventLoop under it, for any number of    *)
(* periodic tasks, other jobs and workers, and for both builds of the loop.      *)
EXTENDS PeriodicTasks, TLAPS

USE DEF loopVars, periodicVars, vars

-----------------------------------------------------------------------------
(* The loop by itself *)

\* Every operation of the loop keeps its types and what they say of pending closures.
LEMMA LoopTypeStep ==
  ASSUME LoopTypeOK, [LoopNext]_loopVars PROVE LoopTypeOK'
<1> USE LoopAssumption DEF LoopTypeOK
<1>1. ASSUME NEW j \in Jobs, Request(j) PROVE LoopTypeOK'
  <2>1. CASE Post(j)
    BY <2>1 DEF Post
  <2>2. CASE PostDelayed(j)
    BY <2>2 DEF PostDelayed
  <2>3. CASE PostCancelable(j)
    BY <2>3 DEF PostCancelable
  <2>4. QED
    BY <1>1, <2>1, <2>2, <2>3 DEF Request
<1>2. CASE Others
  <2>1. CASE SubscribeEvent
    BY <2>1 DEF SubscribeEvent
  <2>2. CASE EmitEvent
    BY <2>2 DEF EmitEvent
  <2>3. CASE Stop
    BY <2>3 DEF Stop
  <2>4. CASE Run
    BY <2>4 DEF Run
  <2>5. QED
    BY <1>2, <2>1, <2>2, <2>3, <2>4 DEF Others
<1>3. CASE Destruct \/ Joined
  BY <1>3 DEF Destruct, Joined
<1>4. ASSUME NEW w \in Workers, WorkerThread(w) \/ AsioExit(w) \/ HandlerReturns(w)
      PROVE  LoopTypeOK'
  BY <1>4 DEF WorkerThread, AsioExit, HandlerReturns
<1>5. ASSUME NEW w \in Workers, NEW j \in Jobs, AsioHandler(w, j) PROVE LoopTypeOK'
  BY <1>5 DEF AsioHandler
<1>6. CASE UNCHANGED loopVars
  BY <1>6
<1>q. QED
  BY <1>1, <1>2, <1>3, <1>4, <1>5, <1>6 DEF LoopNext, LoopStep, LoopWorkerStep

\* The loop starts with nothing pending.
LEMMA LoopInitType == LoopInit => LoopTypeOK
<1> SUFFICES ASSUME LoopInit PROVE LoopTypeOK
  OBVIOUS
<1>1. ioStopped \in BOOLEAN /\ stop_flag_ \in BOOLEAN /\ emitting \in BOOLEAN
  BY Zenon DEF LoopInit
<1>2. QED
  BY <1>1, LoopAssumption DEF LoopInit, LoopTypeOK

\* The loop by itself: a posted closure is called at most once, and in the default
\* build no worker is ever inside one.
THEOREM LoopTyping == LoopSpec => []LoopTypeOK
BY LoopInitType, LoopTypeStep, PTL DEF LoopSpec

-----------------------------------------------------------------------------
(* The periodic tasks use the loop as anyone may. *)

\* What a step of the composition is for the loop.
LEMMA LoopView ==
  ASSUME [Next]_vars PROVE [LoopNext]_loopVars
<1> USE PeriodicAssumption DEF LoopNext, LoopStep
<1>1. ASSUME NEW p \in Periodic,
             SchedulePeriodicTask(p) \/ CancelPeriodicTask(p) \/ ChainStep(p)
      PROVE  [LoopNext]_loopVars
  <2>1. CASE ArmPost(p)
    BY <2>1 DEF ArmPost, Request
  <2>2. CASE ~ArmPost(p)
    <3>1. LoopUnchanged
      BY <1>1, <2>2 DEF SchedulePeriodicTask, CancelPeriodicTask, ChainStep, ArmLookUp,
         ArmCheck, ArmLock, RunnerBegins, RunnerEnds
    <3>2. QED
      BY <3>1 DEF LoopUnchanged
  <2>3. QED
    BY <2>1, <2>2
<1>2. ASSUME NEW x \in Workers \cup Periodic, Release(x) PROVE [LoopNext]_loopVars
  BY <1>2 DEF Release
<1>3. ASSUME NEW w \in Workers, LoopThread(w) PROVE [LoopNext]_loopVars
  BY <1>3 DEF LoopThread, Fire
<1>4. CASE LoopJoined \/ LetGo
  BY <1>4 DEF LoopJoined, LetGo
<1>5. CASE Others \/ \E j \in Jobs \ Periodic : Request(j)
  BY <1>5
<1>6. CASE UNCHANGED vars
  BY <1>6
<1>q. QED
  BY <1>1, <1>2, <1>3, <1>4, <1>5, <1>6 DEF Next

\* The task manager implements the loop's own specification: everything that holds of
\* the loop by itself holds of it under periodic tasks, cancellation and pointers
\* that are let go by any thread.
THEOREM UsesLoop == Spec => LoopSpec
<1>1. Init => LoopInit
  BY DEF Init
<1>2. QED
  BY <1>1, LoopView, PTL DEF Spec, LoopSpec

-----------------------------------------------------------------------------
(* The periodic tasks *)

\* A step that leaves the periodic tasks alone and does not begin the destruction.
LoopOnly == \/ \E w \in Workers : \/ LoopWorkerStep(w) \/ HandlerReturns(w)
                                  \/ \E j \in Jobs \ Periodic : AsioHandler(w, j)
            \/ Joined \/ Others \/ UNCHANGED loopVars
            \/ \E j \in Jobs \ Periodic : Request(j)

\* A task that is in the map, or was never registered, has not been cancelled and
\* no run counts against it; one that left the map is marked, and a closure that
\* still passes its check was past it when the mark was made.
CancelInv ==
  \A p \in Periodic :
    /\ cancelled[p] <=> chain[p].pc # "none" /\ p \notin periodic_tasks_
    /\ ~cancelled[p] => runsAfterCancel[p] = 0 /\ p \notin pastCheck
    /\ cancelled[p] /\ chain[p].pc = "checked" => p \in pastCheck /\ runsAfterCancel[p] = 0
    /\ runsAfterCancel[p] <= 1 /\ (p \notin pastCheck => runsAfterCancel[p] = 0)

IInv == TypeOK /\ LoopOutlivesUsers /\ CancelInv

\* Types are preserved, given that a cancelled task has left the map.
LEMMA TypeStep ==
  ASSUME TypeOK, CancelInv, [Next]_vars PROVE TypeOK'
<1> USE LoopTypeStep, LoopView, PeriodicAssumption DEF TypeOK, ChainPc, Move, At,
        MapUnchanged, LoopUnchanged
<1>1. ASSUME NEW p \in Periodic, SchedulePeriodicTask(p)
         PROVE TypeOK'
  BY <1>1 DEF SchedulePeriodicTask, CancelInv
<1>2. ASSUME NEW p \in Periodic, CancelPeriodicTask(p)
         PROVE TypeOK'
  BY <1>2 DEF CancelPeriodicTask
<1>3. ASSUME NEW p \in Periodic, ArmLookUp(p)
         PROVE TypeOK'
  BY <1>3 DEF ArmLookUp
<1>4. ASSUME NEW p \in Periodic, ArmCheck(p)
         PROVE TypeOK'
  BY <1>4 DEF ArmCheck
<1>5. ASSUME NEW p \in Periodic, ArmLock(p)
         PROVE TypeOK'
  BY <1>5 DEF ArmLock
<1>6. ASSUME NEW p \in Periodic, ArmPost(p)
         PROVE TypeOK'
  BY <1>6 DEF ArmPost
<1>7. ASSUME NEW p \in Periodic, RunnerBegins(p)
         PROVE TypeOK'
  BY <1>7 DEF RunnerBegins
<1>8. ASSUME NEW p \in Periodic, RunnerEnds(p)
         PROVE TypeOK'
  BY <1>8 DEF RunnerEnds
<1>9. ASSUME NEW x \in Workers \cup Periodic, Release(x)
         PROVE TypeOK'
  BY <1>9 DEF Release
<1>10. ASSUME NEW w \in Workers, NEW p \in Periodic, Fire(w, p)
         PROVE TypeOK'
  BY <1>10 DEF Fire
<1>11. CASE LetGo
  BY <1>11 DEF LetGo
<1>12. ASSUME UNCHANGED <<periodicVars, owned, terminated>>, LoopOnly
         PROVE TypeOK'
  BY <1>12
<1>q. QED
  BY <1>1, <1>2, <1>3, <1>4, <1>5, <1>6, <1>7, <1>8, <1>9, <1>10, <1>11, <1>12
     DEF Next, ChainStep, LoopThread, LoopJoined, LoopOnly

\* The loop is destroyed only when the last pointer goes, and the closures of periodic
\* tasks are posted and called only by their chains.
LEMMA UsersStep ==
  ASSUME TypeOK, LoopOutlivesUsers, [Next]_vars PROVE LoopOutlivesUsers'
<1> USE PeriodicAssumption DEF TypeOK, LoopTypeOK, LoopOutlivesUsers, ChainPc, Move, At,
        MapUnchanged, LoopUnchanged
<1>1. ASSUME NEW p \in Periodic, SchedulePeriodicTask(p)
         PROVE LoopOutlivesUsers'
  BY <1>1 DEF SchedulePeriodicTask
<1>2. ASSUME NEW p \in Periodic, CancelPeriodicTask(p)
         PROVE LoopOutlivesUsers'
  BY <1>2 DEF CancelPeriodicTask
<1>3. ASSUME NEW p \in Periodic, ArmLookUp(p)
         PROVE LoopOutlivesUsers'
  BY <1>3 DEF ArmLookUp
<1>4. ASSUME NEW p \in Periodic, ArmCheck(p)
         PROVE LoopOutlivesUsers'
  BY <1>4 DEF ArmCheck
<1>5. ASSUME NEW p \in Periodic, ArmLock(p)
         PROVE LoopOutlivesUsers'
  BY <1>5 DEF ArmLock
<1>6. ASSUME NEW p \in Periodic, ArmPost(p)
         PROVE LoopOutlivesUsers'
  BY <1>6 DEF ArmPost, PostDelayed
<1>7. ASSUME NEW p \in Periodic, RunnerBegins(p)
         PROVE LoopOutlivesUsers'
  BY <1>7 DEF RunnerBegins
<1>8. ASSUME NEW p \in Periodic, RunnerEnds(p)
         PROVE LoopOutlivesUsers'
  BY <1>8 DEF RunnerEnds
<1>9. ASSUME NEW x \in Workers \cup Periodic, Release(x)
         PROVE LoopOutlivesUsers'
  BY <1>9 DEF Release, Destruct
<1>10. ASSUME NEW w \in Workers, NEW p \in Periodic, Fire(w, p)
         PROVE LoopOutlivesUsers'
  BY <1>10 DEF Fire, AsioHandler
<1>11. CASE LetGo
  BY <1>11 DEF LetGo, Destruct
<1>12. ASSUME UNCHANGED <<periodicVars, owned, terminated>>, LoopOnly
         PROVE LoopOutlivesUsers'
  BY <1>12 DEF LoopOnly, LoopWorkerStep, WorkerThread, AsioExit, HandlerReturns, AsioHandler,
     Joined, Others, SubscribeEvent, EmitEvent, Stop, Run, Request, Post, PostDelayed,
     PostCancelable
<1>q. QED
  BY <1>1, <1>2, <1>3, <1>4, <1>5, <1>6, <1>7, <1>8, <1>9, <1>10, <1>11, <1>12
     DEF Next, ChainStep, LoopThread, LoopJoined, LoopOnly

\* Every step preserves CancelInv.
LEMMA CancelStep ==
  ASSUME TypeOK, LoopOutlivesUsers, CancelInv, [Next]_vars PROVE CancelInv'
<1> USE DEF TypeOK, CancelInv, ChainPc, Move, At, MapUnchanged, LoopUnchanged
<1>1. ASSUME NEW p \in Periodic, SchedulePeriodicTask(p)
         PROVE CancelInv'
  BY <1>1 DEF SchedulePeriodicTask
<1>2. ASSUME NEW p \in Periodic, CancelPeriodicTask(p)
         PROVE CancelInv'
  BY <1>2 DEF CancelPeriodicTask
<1>3. ASSUME NEW p \in Periodic, ArmLookUp(p)
         PROVE CancelInv'
  BY <1>3 DEF ArmLookUp
<1>4. ASSUME NEW p \in Periodic, ArmCheck(p)
         PROVE CancelInv'
  BY <1>4 DEF ArmCheck
<1>5. ASSUME NEW p \in Periodic, ArmLock(p)
         PROVE CancelInv'
  BY <1>5 DEF ArmLock
<1>6. ASSUME NEW p \in Periodic, ArmPost(p)
         PROVE CancelInv'
  BY <1>6 DEF ArmPost
<1>7. ASSUME NEW p \in Periodic, RunnerBegins(p)
         PROVE CancelInv'
  BY <1>7 DEF RunnerBegins
<1>8. ASSUME NEW p \in Periodic, RunnerEnds(p)
         PROVE CancelInv'
  BY <1>8 DEF RunnerEnds
<1>9. ASSUME NEW x \in Workers \cup Periodic, Release(x)
         PROVE CancelInv'
  BY <1>9 DEF Release
<1>10. ASSUME NEW w \in Workers, NEW p \in Periodic, Fire(w, p)
         PROVE CancelInv'
  BY <1>10 DEF Fire, AsioHandler, LoopOutlivesUsers, LoopTypeOK
<1>11. CASE LetGo
  BY <1>11 DEF LetGo
<1>12. ASSUME UNCHANGED <<periodicVars, owned, terminated>>, LoopOnly
         PROVE CancelInv'
  BY <1>12
<1>q. QED
  BY <1>1, <1>2, <1>3, <1>4, <1>5, <1>6, <1>7, <1>8, <1>9, <1>10, <1>11, <1>12
     DEF Next, ChainStep, LoopThread, LoopJoined, LoopOnly

\* The inductive invariant of the composition.
THEOREM Inductive == Spec => []IInv
<1>1. Init => IInv
  <2> SUFFICES ASSUME Init PROVE IInv
    OBVIOUS
  <2>1. LoopTypeOK /\ loop = "alive" /\ posted = {}
    BY LoopInitType DEF Init, LoopInit
  <2>2. \A p \in Periodic : cancelled[p] = FALSE
    BY Zenon DEF Init
  <2>3. cancelled \in [Periodic -> BOOLEAN] /\ owned \in BOOLEAN /\ terminated \in BOOLEAN
    BY Zenon DEF Init
  <2>4. TypeOK
    BY <2>1, <2>3 DEF Init, TypeOK, ChainPc, At
  <2>5. LoopOutlivesUsers
    BY <2>1 DEF Init, LoopOutlivesUsers, At
  <2>6. CancelInv
    BY <2>2 DEF Init, CancelInv, At
  <2>7. QED
    BY <2>4, <2>5, <2>6 DEF IInv
<1>2. IInv /\ [Next]_vars => IInv'
  BY TypeStep, UsersStep, CancelStep DEF IInv
<1>3. QED
  BY <1>1, <1>2, PTL DEF Spec

\* Types for any number of tasks, and a registered task is never marked cancelled.
THEOREM Typing == Spec => []TypeOK
BY Inductive, PTL DEF IInv

\* The loop lives as long as somebody has a pointer to it, and a periodic task whose
\* closure is pending is pending in the loop.
THEOREM LoopKept == Spec => []LoopOutlivesUsers
BY Inductive, PTL DEF IInv

\* After cancelPeriodicTask the runner is called at most once more, and only by a
\* closure that had already made its check.
THEOREM CancelBounds == Spec => []CancelStopsRuns
<1>1. IInv => CancelStopsRuns
  BY DEF IInv, TypeOK, CancelInv, CancelStopsRuns
<1>2. QED
  BY <1>1, Inductive, PTL

=============================================================================
