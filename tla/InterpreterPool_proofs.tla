------------------------ MODULE InterpreterPool_proofs ------------------------
(* Theorems about InterpreterPool for any number of tasks, workers and          *)
(* controllers, any priorities and any limit of the queue.                      *)
EXTENDS InterpreterPool, FiniteSetTheorems, TLAPS

USE DEF vars, life

\* Any set of queued tasks has a number of elements.
LEMMA QueuedFinite == TypeOK => Cardinality(Queued) \in Nat
BY PoolAssumption, FS_Subset, FS_CardinalityType DEF TypeOK

\* initialize() starts threads that were not there, and at least one if it is asked to.
LEMMA Started ==
  ASSUME NEW k \in Nat, StartWorkers(k)
  PROVE  \E S \in SUBSET Workers :
           /\ \A w \in S : worker[w].pc = "none"
           /\ worker' = [w \in Workers |-> IF w \in S THEN AtWork("lock", NoTask) ELSE worker[w]]
           /\ k > 0 => S # {}
<1>1. PICK n \in 0..(MaxThreads - k) :
        /\ \A w \in Workers : w <= n <=> worker[w].pc # "none"
        /\ worker' = [w \in Workers |-> IF w \in (n + 1)..(n + k) THEN AtWork("lock", NoTask)
                                                                ELSE worker[w]]
  BY DEF StartWorkers
<1> DEFINE S == (n + 1)..(n + k)
<1>2. S \subseteq Workers /\ \A w \in S : w \in Int /\ ~(w <= n)
  BY PoolAssumption DEF Workers
<1>3. k > 0 => n + 1 \in S
  BY PoolAssumption
<1>4. \A w \in S : worker[w].pc = "none"
  BY <1>1, <1>2
<1>5. S \in SUBSET Workers /\ (k > 0 => S # {})
  BY <1>2, <1>3
<1> HIDE DEF S
<1>6. worker' = [w \in Workers |-> IF w \in S THEN AtWork("lock", NoTask) ELSE worker[w]]
  BY <1>1 DEF S
<1>7. QED
  BY <1>4, <1>5, <1>6

\* A call of initialize() that succeeds starts a thread at least.
LEMMA Whole ==
  ASSUME NEW c \in Controllers, Initialize(c)
  PROVE  \E S \in SUBSET Workers :
           /\ \A w \in S : worker[w].pc = "none"
           /\ worker' = [w \in Workers |-> IF w \in S THEN AtWork("lock", NoTask) ELSE worker[w]]
           /\ S # {}
<1>1. StartWorkers(NumWorkers) /\ NumWorkers \in Nat /\ NumWorkers > 0
  BY PoolAssumption DEF Initialize
<1>2. QED
  BY <1>1, Started

\* One that fails half way starts some or none.
LEMMA Half ==
  ASSUME NEW c \in Controllers, InitializeFails(c)
  PROVE  \E S \in SUBSET Workers :
           /\ \A w \in S : worker[w].pc = "none"
           /\ worker' = [w \in Workers |-> IF w \in S THEN AtWork("lock", NoTask) ELSE worker[w]]
<1>1. PICK k \in 0..(NumWorkers - 1) : StartWorkers(k)
  BY DEF InitializeFails
<1>2. k \in Nat
  BY PoolAssumption
<1>3. QED
  BY <1>1, <1>2, Started

\* What the calls write into caller.
LEMMA CallRecord ==
  \A pc \in CallerPc, wait \in BOOLEAN : InCall(pc, wait) \in [pc : CallerPc, wait : BOOLEAN]
BY DEF InCall

-----------------------------------------------------------------------------
(* The inductive invariant, in two parts beside TypeOK and PendingIsHeld. *)

InShutdown == {"notify", "join", "clear", "down"}

\* A shutdown that has begun belongs to one controller, which finds the pool
\* initialized and, once it has joined them, without workers.
CallInv ==
  /\ \A c \in Controllers : caller[c].pc \in InShutdown => initialized_ /\ shuttingDown_
  /\ \A c, d \in Controllers :
       caller[c].pc \in InShutdown /\ caller[d].pc \in InShutdown => c = d
  /\ \A c \in Controllers : caller[c].pc \in {"clear", "down"} =>
       \A w \in Workers : worker[w].pc = "none"
  /\ inits = 0 => ~initialized_ /\ ~shuttingDown_
  /\ initialized_ => \/ \E w \in Workers : worker[w].pc # "none"
                     \/ \E c \in Controllers : caller[c].pc \in {"clear", "down"}

\* A worker is gone only when the flag is set and nothing is queued; nothing is
\* queued afterwards.
GoneInv ==
  /\ \A w \in Workers : worker[w].pc = "gone" => shuttingDown_ /\ Queued = {}
  /\ \A c \in Controllers : caller[c].pc \in {"clear", "down"} => Queued = {}

\* Every operation preserves the types, and the GIL goes from hand to hand.
LEMMA TypeStep ==
  ASSUME TypeOK, [Next]_vars PROVE TypeOK'
<1>0. [stats_ EXCEPT !.cancelled = @ + Cardinality(Queued)] \in [total : Nat, cancelled : Nat]
  BY QueuedFinite DEF TypeOK
<1> USE PoolAssumption DEF TypeOK, Queued, WorkerPc, CallerPc, Futures, AtWork, InCall, Goto,
      Empty, NoStats, WorkUnchanged, CallUnchanged, Wake, Waiting, Broken
<1>1. ASSUME NEW c \in Controllers, Initialize(c)
         PROVE TypeOK'
  <2>1. PICK S \in SUBSET Workers :
          /\ \A w \in S : worker[w].pc = "none"
          /\ worker' = [w \in Workers |-> IF w \in S THEN AtWork("lock", NoTask) ELSE worker[w]]
          /\ S # {}
    BY <1>1, Whole
  <2>2. QED
    BY <1>1, <2>1 DEF Initialize
<1>22. ASSUME NEW c \in Controllers, InitializeFails(c)
         PROVE TypeOK'
  <2>1. PICK S \in SUBSET Workers :
          /\ \A w \in S : worker[w].pc = "none"
          /\ worker' = [w \in Workers |-> IF w \in S THEN AtWork("lock", NoTask) ELSE worker[w]]
    BY <1>22, Half
  <2>2. QED
    BY <1>22, <2>1 DEF InitializeFails
<1>2. ASSUME NEW c \in Controllers, Shutdown(c)
         PROVE TypeOK'
  BY <1>2 DEF Shutdown
<1>3. ASSUME NEW c \in Controllers, Destroy(c)
         PROVE TypeOK'
  <2>1. /\ caller' \in [Controllers -> [pc : CallerPc, wait : BOOLEAN]]
        /\ shuttingDown_' \in BOOLEAN
    <3>1. CASE initialized_ /\ ~shuttingDown_
      <4> HIDE DEF InCall
      <4>1. InCall("notify", FALSE) \in [pc : CallerPc, wait : BOOLEAN]
        BY CallRecord
      <4>2. PICK r \in [pc : CallerPc, wait : BOOLEAN] : caller' = [caller EXCEPT ![c] = r]
        BY <1>3, <3>1, <4>1, Zenon DEF Destroy
      <4>3. caller' \in [Controllers -> [pc : CallerPc, wait : BOOLEAN]]
        BY <4>2
      <4>4. QED
        BY <1>3, <3>1, <4>3 DEF Destroy
    <3>2. CASE ~(initialized_ /\ ~shuttingDown_)
      BY <1>3, <3>2 DEF Destroy
    <3>3. QED
      BY <3>1, <3>2
  <2>2. QED
    BY <1>3, <2>1 DEF Destroy
<1>4. ASSUME NEW c \in Controllers, ShutdownNotify(c)
         PROVE TypeOK'
  BY <1>4 DEF ShutdownNotify
<1>5. ASSUME NEW c \in Controllers, ShutdownJoin(c)
         PROVE TypeOK'
  BY <1>5 DEF ShutdownJoin
<1>6. ASSUME NEW c \in Controllers, ShutdownClear(c)
         PROVE TypeOK'
  <2>1. caller' \in [Controllers -> [pc : CallerPc, wait : BOOLEAN]]
    BY <1>6 DEF ShutdownClear
  <2>2. future' \in [Tasks -> Futures]
    BY <1>6 DEF ShutdownClear
  <2>3. QED
    BY <1>6, <1>0, <2>1, <2>2 DEF ShutdownClear
<1>7. ASSUME NEW c \in Controllers, ShutdownDown(c)
         PROVE TypeOK'
  <2>1. PICK pc \in {"idle", "destruct"} : caller' = [caller EXCEPT ![c] = InCall(pc, caller[c].wait)]
    BY <1>7 DEF ShutdownDown
  <2>2. caller' \in [Controllers -> [pc : CallerPc, wait : BOOLEAN]]
    BY <2>1
  <2>3. initialized_' \in BOOLEAN
    BY <1>7, Zenon DEF ShutdownDown
  <2>4. QED
    BY <1>7, <2>2, <2>3 DEF ShutdownDown
<1>8. ASSUME NEW c \in Controllers, Destruct(c)
         PROVE TypeOK'
  BY <1>8 DEF Destruct
<1>9. ASSUME NEW t \in Tasks, SubmitTask(t)
         PROVE TypeOK'
  BY <1>9 DEF SubmitTask
<1>10. ASSUME NEW t \in Tasks, NotifyOne(t)
         PROVE TypeOK'
  BY <1>10 DEF NotifyOne
<1>11. CASE CancelAllTasks
  BY <1>11, <1>0 DEF CancelAllTasks
<1>12. CASE ResetStatistics
  BY <1>12 DEF ResetStatistics
<1>13. ASSUME NEW w \in Workers, TakeTask(w)
         PROVE TypeOK'
  BY <1>13 DEF TakeTask
<1>14. ASSUME NEW w \in Workers, WaitForTask(w)
         PROVE TypeOK'
  BY <1>14 DEF WaitForTask
<1>15. ASSUME NEW w \in Workers, LeaveLoop(w)
         PROVE TypeOK'
  BY <1>15 DEF LeaveLoop
<1>16. ASSUME NEW w \in Workers, RunTask(w)
         PROVE TypeOK'
  BY <1>16 DEF RunTask
<1>17. ASSUME NEW w \in Workers, CountTask(w)
         PROVE TypeOK'
  BY <1>17 DEF CountTask
<1>18. ASSUME NEW w \in Workers, SpuriousWakeup(w)
         PROVE TypeOK'
  BY <1>18 DEF SpuriousWakeup
<1>20. ASSUME NEW w \in Workers, EnterPython(w)
         PROVE TypeOK'
  BY <1>20 DEF EnterPython, GilFree
<1>21. CASE HostYields \/ HostTakes
  BY <1>21 DEF HostYields, HostTakes, GilFree
<1>19. CASE UNCHANGED vars
  BY <1>19
<1>q. QED
  BY <1>1, <1>2, <1>3, <1>4, <1>5, <1>6, <1>7, <1>8, <1>9, <1>10, <1>11,
     <1>12, <1>13, <1>14, <1>15, <1>16, <1>17, <1>18, <1>19,
     <1>20, <1>21, <1>22 DEF Next, WorkerStep, CallStep, Enter

\* Every operation preserves CallInv.
LEMMA CallStepInv ==
  ASSUME TypeOK, CallInv, [Next]_vars PROVE CallInv'
<1> USE DEF TypeOK, CallInv, InShutdown, WorkerPc, CallerPc, AtWork, InCall, Goto,
      WorkUnchanged, CallUnchanged, Wake, Waiting
<1>1. ASSUME NEW c \in Controllers, Initialize(c)
         PROVE CallInv'
  <2>1. PICK S \in SUBSET Workers :
          /\ \A w \in S : worker[w].pc = "none"
          /\ worker' = [w \in Workers |-> IF w \in S THEN AtWork("lock", NoTask) ELSE worker[w]]
          /\ S # {}
    BY <1>1, Whole
  <2>2. QED
    BY <1>1, <2>1 DEF Initialize
<1>22. ASSUME NEW c \in Controllers, InitializeFails(c)
         PROVE CallInv'
  <2>1. PICK S \in SUBSET Workers :
          /\ \A w \in S : worker[w].pc = "none"
          /\ worker' = [w \in Workers |-> IF w \in S THEN AtWork("lock", NoTask) ELSE worker[w]]
    BY <1>22, Half
  <2>2. QED
    BY <1>22, <2>1 DEF InitializeFails
<1>2. ASSUME NEW c \in Controllers, Shutdown(c)
         PROVE CallInv'
  BY <1>2 DEF Shutdown
<1>3. ASSUME NEW c \in Controllers, Destroy(c)
         PROVE CallInv'
  <2>1. \A d \in Controllers : d # c => caller'[d].pc = "idle"
    BY <1>3 DEF Destroy
  <2>2. UNCHANGED <<initialized_, worker, inits>>
    BY <1>3 DEF Destroy
  <2>3. CASE initialized_ /\ ~shuttingDown_
    <3>1. shuttingDown_' /\ caller'[c].pc = "notify" /\ inits # 0
      BY <1>3, <2>3 DEF Destroy
    <3>2. QED
      BY <2>1, <2>2, <2>3, <3>1
  <2>4. CASE ~(initialized_ /\ ~shuttingDown_)
    <3>1. shuttingDown_' = shuttingDown_ /\ caller'[c].pc = "destruct"
      BY <1>3, <2>4 DEF Destroy
    <3>2. initialized_ => \E w \in Workers : worker[w].pc # "none"
      BY <1>3 DEF Destroy
    <3>3. QED
      BY <2>1, <2>2, <3>1, <3>2
  <2>5. QED
    BY <2>3, <2>4
<1>4. ASSUME NEW c \in Controllers, ShutdownNotify(c)
         PROVE CallInv'
  BY <1>4 DEF ShutdownNotify
<1>5. ASSUME NEW c \in Controllers, ShutdownJoin(c)
         PROVE CallInv'
  BY <1>5 DEF ShutdownJoin
<1>6. ASSUME NEW c \in Controllers, ShutdownClear(c)
         PROVE CallInv'
  BY <1>6 DEF ShutdownClear
<1>7. ASSUME NEW c \in Controllers, ShutdownDown(c)
         PROVE CallInv'
  BY <1>7 DEF ShutdownDown
<1>8. ASSUME NEW c \in Controllers, Destruct(c)
         PROVE CallInv'
  BY <1>8 DEF Destruct
<1>9. ASSUME NEW t \in Tasks, SubmitTask(t)
         PROVE CallInv'
  BY <1>9 DEF SubmitTask
<1>10. ASSUME NEW t \in Tasks, NotifyOne(t)
         PROVE CallInv'
  BY <1>10 DEF NotifyOne
<1>11. CASE CancelAllTasks
  BY <1>11 DEF CancelAllTasks
<1>12. CASE ResetStatistics
  BY <1>12 DEF ResetStatistics
<1>13. ASSUME NEW w \in Workers, TakeTask(w)
         PROVE CallInv'
  BY <1>13 DEF TakeTask
<1>14. ASSUME NEW w \in Workers, WaitForTask(w)
         PROVE CallInv'
  BY <1>14 DEF WaitForTask
<1>15. ASSUME NEW w \in Workers, LeaveLoop(w)
         PROVE CallInv'
  BY <1>15 DEF LeaveLoop
<1>16. ASSUME NEW w \in Workers, RunTask(w)
         PROVE CallInv'
  BY <1>16 DEF RunTask
<1>17. ASSUME NEW w \in Workers, CountTask(w)
         PROVE CallInv'
  BY <1>17 DEF CountTask
<1>18. ASSUME NEW w \in Workers, SpuriousWakeup(w)
         PROVE CallInv'
  BY <1>18 DEF SpuriousWakeup
<1>20. ASSUME NEW w \in Workers, EnterPython(w)
         PROVE CallInv'
  BY <1>20 DEF EnterPython, GilFree
<1>21. CASE HostYields \/ HostTakes
  BY <1>21 DEF HostYields, HostTakes, GilFree
<1>19. CASE UNCHANGED vars
  BY <1>19
<1>q. QED
  BY <1>1, <1>2, <1>3, <1>4, <1>5, <1>6, <1>7, <1>8, <1>9, <1>10, <1>11,
     <1>12, <1>13, <1>14, <1>15, <1>16, <1>17, <1>18, <1>19,
     <1>20, <1>21, <1>22 DEF Next, WorkerStep, CallStep, Enter

\* Every operation preserves GoneInv: after the flag is set nothing is accepted.
LEMMA GoneStep ==
  ASSUME TypeOK, CallInv, GoneInv, [Next]_vars PROVE GoneInv'
<1> USE DEF TypeOK, CallInv, GoneInv, InShutdown, WorkerPc, CallerPc, AtWork, InCall, Goto,
      WorkUnchanged, CallUnchanged, Wake, Waiting, Accepting, Queued, Empty
<1>1. ASSUME NEW c \in Controllers, Initialize(c)
         PROVE GoneInv'
  <2>1. PICK S \in SUBSET Workers :
          /\ \A w \in S : worker[w].pc = "none"
          /\ worker' = [w \in Workers |-> IF w \in S THEN AtWork("lock", NoTask) ELSE worker[w]]
          /\ S # {}
    BY <1>1, Whole
  <2>2. QED
    BY <1>1, <2>1 DEF Initialize
<1>22. ASSUME NEW c \in Controllers, InitializeFails(c)
         PROVE GoneInv'
  <2>1. PICK S \in SUBSET Workers :
          /\ \A w \in S : worker[w].pc = "none"
          /\ worker' = [w \in Workers |-> IF w \in S THEN AtWork("lock", NoTask) ELSE worker[w]]
    BY <1>22, Half
  <2>2. QED
    BY <1>22, <2>1 DEF InitializeFails
<1>2. ASSUME NEW c \in Controllers, Shutdown(c)
         PROVE GoneInv'
  BY <1>2 DEF Shutdown
<1>3. ASSUME NEW c \in Controllers, Destroy(c)
         PROVE GoneInv'
  BY <1>3 DEF Destroy
<1>4. ASSUME NEW c \in Controllers, ShutdownNotify(c)
         PROVE GoneInv'
  BY <1>4 DEF ShutdownNotify
<1>5. ASSUME NEW c \in Controllers, ShutdownJoin(c)
         PROVE GoneInv'
  BY <1>5 DEF ShutdownJoin
<1>6. ASSUME NEW c \in Controllers, ShutdownClear(c)
         PROVE GoneInv'
  BY <1>6 DEF ShutdownClear
<1>7. ASSUME NEW c \in Controllers, ShutdownDown(c)
         PROVE GoneInv'
  BY <1>7 DEF ShutdownDown
<1>8. ASSUME NEW c \in Controllers, Destruct(c)
         PROVE GoneInv'
  BY <1>8 DEF Destruct
<1>9. ASSUME NEW t \in Tasks, SubmitTask(t)
         PROVE GoneInv'
  BY <1>9 DEF SubmitTask
<1>10. ASSUME NEW t \in Tasks, NotifyOne(t)
         PROVE GoneInv'
  BY <1>10 DEF NotifyOne
<1>11. CASE CancelAllTasks
  BY <1>11 DEF CancelAllTasks
<1>12. CASE ResetStatistics
  BY <1>12 DEF ResetStatistics
<1>13. ASSUME NEW w \in Workers, TakeTask(w)
         PROVE GoneInv'
  BY <1>13 DEF TakeTask
<1>14. ASSUME NEW w \in Workers, WaitForTask(w)
         PROVE GoneInv'
  BY <1>14 DEF WaitForTask
<1>15. ASSUME NEW w \in Workers, LeaveLoop(w)
         PROVE GoneInv'
  BY <1>15 DEF LeaveLoop
<1>16. ASSUME NEW w \in Workers, RunTask(w)
         PROVE GoneInv'
  BY <1>16 DEF RunTask
<1>17. ASSUME NEW w \in Workers, CountTask(w)
         PROVE GoneInv'
  BY <1>17 DEF CountTask
<1>18. ASSUME NEW w \in Workers, SpuriousWakeup(w)
         PROVE GoneInv'
  BY <1>18 DEF SpuriousWakeup
<1>20. ASSUME NEW w \in Workers, EnterPython(w)
         PROVE GoneInv'
  BY <1>20 DEF EnterPython, GilFree
<1>21. CASE HostYields \/ HostTakes
  BY <1>21 DEF HostYields, HostTakes, GilFree
<1>19. CASE UNCHANGED vars
  BY <1>19
<1>q. QED
  BY <1>1, <1>2, <1>3, <1>4, <1>5, <1>6, <1>7, <1>8, <1>9, <1>10, <1>11,
     <1>12, <1>13, <1>14, <1>15, <1>16, <1>17, <1>18, <1>19,
     <1>20, <1>21, <1>22 DEF Next, WorkerStep, CallStep, Enter

\* Every operation preserves PendingIsHeld.
LEMMA HeldStep ==
  ASSUME TypeOK, CallInv, PendingIsHeld, [Next]_vars PROVE PendingIsHeld'
<1> USE DEF TypeOK, CallInv, PendingIsHeld, Carrying, AtTask, Queued, WorkerPc, Futures, AtWork,
      InCall, Goto, Empty, WorkUnchanged, CallUnchanged, Wake, Waiting, Broken
<1>1. ASSUME NEW c \in Controllers, Initialize(c)
         PROVE PendingIsHeld'
  <2>1. PICK S \in SUBSET Workers :
          /\ \A w \in S : worker[w].pc = "none"
          /\ worker' = [w \in Workers |-> IF w \in S THEN AtWork("lock", NoTask) ELSE worker[w]]
          /\ S # {}
    BY <1>1, Whole
  <2>2. QED
    BY <1>1, <2>1 DEF Initialize
<1>22. ASSUME NEW c \in Controllers, InitializeFails(c)
         PROVE PendingIsHeld'
  <2>1. PICK S \in SUBSET Workers :
          /\ \A w \in S : worker[w].pc = "none"
          /\ worker' = [w \in Workers |-> IF w \in S THEN AtWork("lock", NoTask) ELSE worker[w]]
    BY <1>22, Half
  <2>2. QED
    BY <1>22, <2>1 DEF InitializeFails
<1>2. ASSUME NEW c \in Controllers, Shutdown(c)
         PROVE PendingIsHeld'
  BY <1>2 DEF Shutdown
<1>3. ASSUME NEW c \in Controllers, Destroy(c)
         PROVE PendingIsHeld'
  BY <1>3 DEF Destroy
<1>4. ASSUME NEW c \in Controllers, ShutdownNotify(c)
         PROVE PendingIsHeld'
  BY <1>4 DEF ShutdownNotify
<1>5. ASSUME NEW c \in Controllers, ShutdownJoin(c)
         PROVE PendingIsHeld'
  BY <1>5 DEF ShutdownJoin
<1>6. ASSUME NEW c \in Controllers, ShutdownClear(c)
         PROVE PendingIsHeld'
  BY <1>6 DEF ShutdownClear
<1>7. ASSUME NEW c \in Controllers, ShutdownDown(c)
         PROVE PendingIsHeld'
  BY <1>7 DEF ShutdownDown
<1>8. ASSUME NEW c \in Controllers, Destruct(c)
         PROVE PendingIsHeld'
  BY <1>8 DEF Destruct
<1>9. ASSUME NEW t \in Tasks, SubmitTask(t)
         PROVE PendingIsHeld'
  BY <1>9 DEF SubmitTask
<1>10. ASSUME NEW t \in Tasks, NotifyOne(t)
         PROVE PendingIsHeld'
  <2>1. CASE UNCHANGED worker
    BY <1>10, <2>1 DEF NotifyOne
  <2>2. ASSUME NEW w \in Waiting, Wake(w)
        PROVE PendingIsHeld'
    <3>1. \A v \in Workers : worker'[v].pc \in AtTask <=> worker[v].pc \in AtTask
      BY <1>10, <2>2 DEF NotifyOne
    <3>2. \A v \in Workers : worker[v].pc \in AtTask => worker'[v] = worker[v]
      BY <1>10, <2>2 DEF NotifyOne
    <3>3. UNCHANGED <<future, Queued>>
      BY <1>10 DEF NotifyOne
    <3> HIDE DEF AtTask, Queued
    <3>4. QED
      BY <3>1, <3>2, <3>3
  <2>3. QED
    BY <1>10, <2>1, <2>2 DEF NotifyOne
<1>11. CASE CancelAllTasks
  BY <1>11 DEF CancelAllTasks
<1>12. CASE ResetStatistics
  BY <1>12 DEF ResetStatistics
<1>13. ASSUME NEW w \in Workers, TakeTask(w)
         PROVE PendingIsHeld'
  BY <1>13 DEF TakeTask
<1>14. ASSUME NEW w \in Workers, WaitForTask(w)
         PROVE PendingIsHeld'
  BY <1>14 DEF WaitForTask
<1>15. ASSUME NEW w \in Workers, LeaveLoop(w)
         PROVE PendingIsHeld'
  BY <1>15 DEF LeaveLoop
<1>16. ASSUME NEW w \in Workers, RunTask(w)
         PROVE PendingIsHeld'
  BY <1>16 DEF RunTask
<1>17. ASSUME NEW w \in Workers, CountTask(w)
         PROVE PendingIsHeld'
  BY <1>17 DEF CountTask
<1>18. ASSUME NEW w \in Workers, SpuriousWakeup(w)
         PROVE PendingIsHeld'
  BY <1>18 DEF SpuriousWakeup
<1>20. ASSUME NEW w \in Workers, EnterPython(w)
         PROVE PendingIsHeld'
  BY <1>20 DEF EnterPython, GilFree
<1>21. CASE HostYields \/ HostTakes
  BY <1>21 DEF HostYields, HostTakes, GilFree
<1>19. CASE UNCHANGED vars
  BY <1>19
<1>q. QED
  BY <1>1, <1>2, <1>3, <1>4, <1>5, <1>6, <1>7, <1>8, <1>9, <1>10, <1>11,
     <1>12, <1>13, <1>14, <1>15, <1>16, <1>17, <1>18, <1>19,
     <1>20, <1>21, <1>22 DEF Next, WorkerStep, CallStep, Enter

-----------------------------------------------------------------------------
IInv == TypeOK /\ CallInv /\ PendingIsHeld

\* The inductive invariant: who may be in shutdown() and what it has done to the
\* workers, and where the task of an open future is.
THEOREM Inductive == Spec => []IInv
<1>1. Init => IInv
  <2> SUFFICES ASSUME Init PROVE IInv
    OBVIOUS
  <2>1. TypeOK
    <3>1. InCall("idle", FALSE) \in [pc : CallerPc, wait : BOOLEAN]
      BY CallRecord DEF CallerPc
    <3>2. PICK r \in [pc : CallerPc, wait : BOOLEAN] : caller = [c \in Controllers |-> r]
      BY <3>1, Zenon DEF Init
    <3>3. caller \in [Controllers -> [pc : CallerPc, wait : BOOLEAN]]
      BY <3>2
    <3>4. Queued = {} /\ taskQueue_ \in [Queued -> Nat]
      BY DEF Init, Queued, Empty
    <3>5. /\ worker \in [Workers -> [pc : WorkerPc, task : Tasks \cup {NoTask}]]
          /\ \A w \in Workers : worker[w].pc = "none"
      BY DEF Init, AtWork, WorkerPc
    <3>6. future \in [Tasks -> Futures] /\ stats_ \in [total : Nat, cancelled : Nat]
      BY DEF Init, Futures, NoStats
    <3>7. initialized_ \in BOOLEAN /\ shuttingDown_ \in BOOLEAN /\ hostGil \in BOOLEAN
      BY Zenon DEF Init
    <3>8. /\ unnotified \subseteq Tasks
          /\ pool \in {"alive", "destroying", "destroyed", "terminated"}
          /\ inits \in 0..MaxInits /\ fails \in 0..MaxFails /\ resets \in 0..MaxResets
          /\ forgotten \in Nat
      BY PoolAssumption DEF Init
    <3>9. QED
      BY <3>3, <3>4, <3>5, <3>6, <3>7, <3>8 DEF TypeOK
  <2>2. CallInv
    BY PoolAssumption DEF Init, CallInv, InShutdown, InCall
  <2>3. PendingIsHeld
    BY DEF Init, PendingIsHeld, Carrying, AtTask, Queued, Empty, AtWork
  <2>4. QED
    BY <2>1, <2>2, <2>3 DEF IInv
<1>2. IInv /\ [Next]_vars => IInv'
  BY TypeStep, CallStepInv, HeldStep DEF IInv
<1>3. QED
  BY <1>1, <1>2, PTL DEF Spec

\* Types for any pool, and the GIL is with one thread at most: a task on a worker runs
\* Python code only while neither the host nor another worker does.
THEOREM Typing == Spec => []TypeOK
BY Inductive, PTL DEF IInv

\* For any number of tasks, workers and controllers a future is unresolved exactly
\* while its task is queued or on one worker: submitTask, cancelAllTasks, the
\* workers, shutdown and the destructor lose no promise and settle none twice.
THEOREM NoFutureLost == Spec => []PendingIsHeld
BY Inductive, PTL DEF IInv

\* However many workers an initialize() that failed left behind, shutdown(true) comes
\* to its end with nothing queued and nothing on a worker.
THEOREM Waited == Spec => []ShutdownWaits
<1>1. Init => GoneInv
  BY DEF Init, GoneInv, Queued, Empty, AtWork, InCall
<1>2. IInv /\ GoneInv /\ [Next]_vars => GoneInv'
  BY GoneStep DEF IInv
<1>3. IInv /\ GoneInv => ShutdownWaits
  BY DEF IInv, GoneInv, CallInv, ShutdownWaits, Carrying, AtTask
<1>4. QED
  BY <1>1, <1>2, <1>3, Inductive, PTL DEF Spec


-----------------------------------------------------------------------------
(* What the statistics say *)

\* the tasks that submitTask took
Accepted == {t \in Tasks : future[t] \notin {"none", "refused"}}

\* The sets whose sizes the statistics compare are finite.
LEMMA CountedSets ==
  ASSUME TypeOK
  PROVE  /\ IsFiniteSet(Accepted) /\ IsFiniteSet(Queued) /\ IsFiniteSet(Uncounted)
         /\ Cardinality(Accepted) \in Nat /\ Cardinality(Queued) \in Nat
         /\ Cardinality(Uncounted) \in Nat
<1>1. Accepted \subseteq Tasks /\ Queued \subseteq Tasks /\ Uncounted \subseteq Workers
  BY DEF TypeOK, Accepted, Uncounted
<1>2. IsFiniteSet(Workers)
  BY PoolAssumption, FS_Interval DEF Workers
<1>3. QED
  BY <1>1, <1>2, PoolAssumption, FS_Subset, FS_CardinalityType

\* Clearing the queue leaves the number of accepted tasks: only open futures break.
LEMMA ClearingKeeps ==
  ASSUME TypeOK, PendingIsHeld, future' = Broken(Queued), taskQueue_' = Empty
  PROVE  Accepted' = Accepted /\ Cardinality(Queued') = 0
<1>1. \A t \in Queued : future[t] = "pending"
  BY DEF TypeOK, PendingIsHeld
<1>2. Accepted' = Accepted
  BY <1>1 DEF Accepted, Broken
<1>3. Queued' = {}
  BY DEF Queued, Empty
<1>4. QED
  BY <1>2, <1>3, FS_EmptySet

\* A task that is queued, taken, executed, counted or dropped moves from one number
\* to another; their sum changes only with the number of accepted tasks.
LEMMA StatisticsStep ==
  ASSUME TypeOK, CallInv, PendingIsHeld, StatisticsAddUp, [Next]_vars
  PROVE  StatisticsAddUp'
<1> DEFINE Counts == Up /\ pool # "destroyed"
           Sum == Cardinality(Queued) + Cardinality(Uncounted)
                  + stats_.total + stats_.cancelled + forgotten
<1>0. /\ Counts => Cardinality(Accepted) = Sum
      /\ stats_ \in [total : Nat, cancelled : Nat] /\ forgotten \in Nat
      /\ (Counts' => Cardinality(Accepted') = Sum') => StatisticsAddUp'
  BY DEF StatisticsAddUp, Accepted, TypeOK
<1>k. ASSUME Accepted' = Accepted, Queued' = Queued, Uncounted' = Uncounted,
             UNCHANGED <<stats_, forgotten>>, Counts' => Counts
      PROVE  StatisticsAddUp'
  BY <1>k, <1>0
<1>d. ASSUME future' = Broken(Queued), taskQueue_' = Empty, UNCHANGED <<worker, forgotten, pool>>,
             stats_' = [stats_ EXCEPT !.cancelled = @ + Cardinality(Queued)]
      PROVE  StatisticsAddUp'
  <2>1. Accepted' = Accepted /\ Cardinality(Queued') = 0 /\ Uncounted' = Uncounted
    BY <1>d, ClearingKeeps DEF Uncounted
  <2>2. stats_'.total = stats_.total
        /\ stats_'.cancelled = stats_.cancelled + Cardinality(Queued)
    BY <1>d, <1>0
  <2>3. Counts' => Counts
    BY <1>d DEF Up
  <2>4. QED
    BY <1>0, <1>d, <2>1, <2>2, <2>3, CountedSets
<1> USE DEF TypeOK, WorkUnchanged, CallUnchanged, AtWork, AtTask
<1>1. ASSUME NEW c \in Controllers, Initialize(c) PROVE StatisticsAddUp'
  <2>1. PICK S \in SUBSET Workers :
          /\ \A w \in S : worker[w].pc = "none"
          /\ worker' = [w \in Workers |-> IF w \in S THEN AtWork("lock", NoTask) ELSE worker[w]]
    BY <1>1, Whole
  <2>2. Uncounted' = Uncounted
    BY <2>1 DEF Uncounted, AtTask
  <2>3. QED
    BY <1>1, <1>k, <2>2 DEF Initialize, Up, Queued, Accepted
<1>22. ASSUME NEW c \in Controllers, InitializeFails(c) PROVE StatisticsAddUp'
  <2>1. PICK S \in SUBSET Workers :
          /\ \A w \in S : worker[w].pc = "none"
          /\ worker' = [w \in Workers |-> IF w \in S THEN AtWork("lock", NoTask) ELSE worker[w]]
    BY <1>22, Half
  <2>2. Uncounted' = Uncounted
    BY <2>1 DEF Uncounted, AtTask
  <2>3. QED
    BY <1>22, <1>k, <2>2 DEF InitializeFails, Up, Queued, Accepted
<1>2. ASSUME NEW c \in Controllers, Shutdown(c) PROVE StatisticsAddUp'
  BY <1>2, <1>k DEF Shutdown, Up, Queued, Accepted, Uncounted
<1>3. ASSUME NEW c \in Controllers, Destroy(c) PROVE StatisticsAddUp'
  BY <1>3, <1>k DEF Destroy, Usable, Up, Queued, Accepted, Uncounted
<1>4. ASSUME NEW c \in Controllers, ShutdownNotify(c) PROVE StatisticsAddUp'
  <2>1. Uncounted' = Uncounted
    BY <1>4 DEF ShutdownNotify, Uncounted, Waiting
  <2>2. QED
    BY <1>4, <1>k, <2>1 DEF ShutdownNotify, Up, Queued, Accepted
<1>5. ASSUME NEW c \in Controllers, ShutdownJoin(c) PROVE StatisticsAddUp'
  <2>1. Uncounted' = Uncounted
    BY <1>5 DEF ShutdownJoin, Uncounted
  <2>2. QED
    BY <1>5, <1>k, <2>1 DEF ShutdownJoin, Up, Queued, Accepted
<1>6. ASSUME NEW c \in Controllers, ShutdownClear(c) PROVE StatisticsAddUp'
  BY <1>6, <1>d DEF ShutdownClear
<1>7. ASSUME NEW c \in Controllers, ShutdownDown(c) PROVE StatisticsAddUp'
  BY <1>7, <1>k DEF ShutdownDown, Up, Queued, Accepted, Uncounted
<1>8. ASSUME NEW c \in Controllers, Destruct(c) PROVE StatisticsAddUp'
  BY <1>8 DEF Destruct, StatisticsAddUp, Up
<1>9. ASSUME NEW t \in Tasks, SubmitTask(t) PROVE StatisticsAddUp'
  <2>1. Uncounted' = Uncounted /\ UNCHANGED <<stats_, forgotten, pool>>
    BY <1>9 DEF SubmitTask, Uncounted
  <2>2. CASE Accepting
    <3>1. t \notin Queued /\ t \notin Accepted
      BY <1>9 DEF SubmitTask, PendingIsHeld, Accepted
    <3>2. Queued' = Queued \cup {t} /\ Accepted' = Accepted \cup {t}
      BY <1>9, <2>2 DEF SubmitTask, Queued, Accepted
    <3>3. /\ Cardinality(Queued') = Cardinality(Queued) + 1
          /\ Cardinality(Accepted') = Cardinality(Accepted) + 1
      BY <3>1, <3>2, CountedSets, FS_AddElement
    <3>4. QED
      BY <1>0, <2>1, <3>3, CountedSets DEF Up
  <2>3. CASE ~Accepting
    BY <1>9, <1>k, <2>1, <2>3 DEF SubmitTask, Up, Queued, Accepted
  <2>4. QED
    BY <2>2, <2>3
<1>10. ASSUME NEW t \in Tasks, NotifyOne(t) PROVE StatisticsAddUp'
  <2>1. Uncounted' = Uncounted
    BY <1>10 DEF NotifyOne, Uncounted, Waiting, Wake
  <2>2. QED
    BY <1>10, <1>k, <2>1 DEF NotifyOne, Up, Queued, Accepted
<1>11. CASE CancelAllTasks
  BY <1>11, <1>d DEF CancelAllTasks
<1>12. CASE ResetStatistics
  <2>1. stats_'.total = 0 /\ stats_'.cancelled = 0
        /\ forgotten' = forgotten + stats_.total + stats_.cancelled
    BY <1>12 DEF ResetStatistics, NoStats
  <2>2. UNCHANGED <<Accepted, Queued, Uncounted, pool>>
    BY <1>12 DEF ResetStatistics, Queued, Accepted, Uncounted
  <2>3. QED
    BY <1>0, <2>1, <2>2, CountedSets DEF Up
<1>13. ASSUME NEW w \in Workers, TakeTask(w) PROVE StatisticsAddUp'
  <2>1. PICK t \in Queued : /\ taskQueue_' = [u \in Queued \ {t} |-> taskQueue_[u]]
                            /\ worker' = [worker EXCEPT ![w] = AtWork("run", t)]
    BY <1>13 DEF TakeTask
  <2>2. Queued' = Queued \ {t} /\ Uncounted' = Uncounted \cup {w} /\ w \notin Uncounted
    BY <1>13, <2>1 DEF TakeTask, Queued, Uncounted
  <2>3. /\ Cardinality(Queued') = Cardinality(Queued) - 1
        /\ Cardinality(Uncounted') = Cardinality(Uncounted) + 1
    BY <2>2, CountedSets, FS_AddElement, FS_RemoveElement
  <2>4. UNCHANGED <<Accepted, stats_, forgotten, pool>>
    BY <1>13 DEF TakeTask, Accepted
  <2>5. QED
    BY <1>0, <2>3, <2>4, CountedSets DEF Up
<1>14. ASSUME NEW w \in Workers, WaitForTask(w) PROVE StatisticsAddUp'
  BY <1>14, <1>k DEF WaitForTask, Up, Queued, Accepted, Uncounted
<1>15. ASSUME NEW w \in Workers, LeaveLoop(w) PROVE StatisticsAddUp'
  BY <1>15, <1>k DEF LeaveLoop, Up, Queued, Accepted, Uncounted
<1>16. ASSUME NEW w \in Workers, RunTask(w) PROVE StatisticsAddUp'
  <2>1. worker[w].task \in Tasks => future[worker[w].task] = "pending"
    BY <1>16 DEF RunTask, PendingIsHeld, Carrying
  <2>2. Accepted' = Accepted
    BY <1>16, <2>1 DEF RunTask, Accepted
  <2>3. Uncounted' = Uncounted
    BY <1>16 DEF RunTask, Uncounted
  <2>4. QED
    BY <1>16, <1>k, <2>2, <2>3 DEF RunTask, Up, Queued
<1>17. ASSUME NEW w \in Workers, CountTask(w) PROVE StatisticsAddUp'
  <2>1. Uncounted' = Uncounted \ {w} /\ w \in Uncounted
    BY <1>17 DEF CountTask, Uncounted
  <2>2. Cardinality(Uncounted') = Cardinality(Uncounted) - 1
    BY <2>1, CountedSets, FS_RemoveElement
  <2>3. stats_'.total = stats_.total + 1 /\ stats_'.cancelled = stats_.cancelled
    BY <1>17, <1>0 DEF CountTask
  <2>4. UNCHANGED <<Accepted, Queued, forgotten, pool>>
    BY <1>17 DEF CountTask, Accepted, Queued
  <2>5. QED
    BY <1>0, <2>2, <2>3, <2>4, CountedSets DEF Up
<1>18. ASSUME NEW w \in Workers, SpuriousWakeup(w) PROVE StatisticsAddUp'
  BY <1>18, <1>k DEF SpuriousWakeup, Wake, Up, Queued, Accepted, Uncounted
<1>20. ASSUME NEW w \in Workers, EnterPython(w) PROVE StatisticsAddUp'
  BY <1>20, <1>k DEF EnterPython, Up, Queued, Accepted, Uncounted
<1>21. CASE HostYields \/ HostTakes
  BY <1>21, <1>k DEF HostYields, HostTakes, Up, Queued, Accepted, Uncounted
<1>19. CASE UNCHANGED vars
  BY <1>19, <1>k DEF Up, Queued, Accepted, Uncounted
<1>q. QED
  BY <1>1, <1>2, <1>3, <1>4, <1>5, <1>6, <1>7, <1>8, <1>9, <1>10, <1>11,
     <1>12, <1>13, <1>14, <1>15, <1>16, <1>17, <1>18, <1>19,
     <1>20, <1>21, <1>22 DEF Next, WorkerStep, CallStep, Enter

\* For any number of tasks, workers and controllers the statistics account for every
\* task submitTask accepted, although a task is taken, executed and counted in three
\* critical sections with cancellations, resets and shutdowns in between.
THEOREM StatisticsAccount == Spec => []StatisticsAddUp
<1>1. Init => StatisticsAddUp
  <2> SUFFICES ASSUME Init PROVE StatisticsAddUp
    OBVIOUS
  <2>1. {t \in Tasks : future[t] \notin {"none", "refused"}} = {} /\ Queued = {}
        /\ Uncounted = {}
    BY DEF Init, Queued, Empty, Uncounted, AtWork, AtTask
  <2>2. stats_.total = 0 /\ stats_.cancelled = 0 /\ forgotten = 0
    BY DEF Init, NoStats
  <2>3. QED
    BY <2>1, <2>2, FS_EmptySet DEF StatisticsAddUp
<1>2. IInv /\ StatisticsAddUp /\ [Next]_vars => StatisticsAddUp'
  BY StatisticsStep DEF IInv
<1>3. QED
  BY <1>1, <1>2, Inductive, PTL DEF Spec

-----------------------------------------------------------------------------
(* The pool implements the safety part of TaskExecutor. *)

\* Phase, pointwise, where the future of a queued task is open.
LEMMA PhaseOf ==
  ASSUME TypeOK, PendingIsHeld
  PROVE  \A t \in Tasks :
           /\ future[t] \in {"none", "refused"} => Phase[t] = future[t]
           /\ future[t] = "value" => Phase[t] = "ready"
           /\ future[t] = "broken" => Phase[t] = "cancelled"
           /\ future[t] = "pending" /\ t \in Queued => Phase[t] = "waiting"
           /\ future[t] = "pending" /\ t \notin Queued => Phase[t] = "running"
           /\ t \in Queued <=> Phase[t] = "waiting"
BY DEF TypeOK, PendingIsHeld, Phase, Futures

\* Clearing the queue cancels what waits.
LEMMA ClearingCancels ==
  ASSUME TypeOK, PendingIsHeld, future' = Broken(Queued), taskQueue_' = Empty
  PROVE  /\ Phase' = [t \in Tasks |-> IF t \in Executor!Waits THEN "cancelled" ELSE Phase[t]]
         /\ Before' = {}
<1>1. \A t \in Tasks : Phase'[t] =
        IF t \in Queued THEN "cancelled" ELSE Phase[t]
  <2> TAKE t \in Tasks
  <2>1. CASE t \in Queued
    BY <2>1 DEF Phase, Broken
  <2>2. CASE t \notin Queued
    <3>1. future'[t] = future[t]
      BY <2>2 DEF Broken
    <3>2. t \notin Queued'
      BY DEF Queued, Empty
    <3>3. QED
      BY <2>2, <3>1, <3>2 DEF Phase
  <2>3. QED
    BY <2>1, <2>2
<1>2. Before' = {}
  BY DEF Before, Queued, Empty
<1>3. Executor!Waits = Queued
  BY PhaseOf DEF Executor!Waits, TypeOK
<1>4. QED
  BY <1>1, <1>2, <1>3 DEF Phase

\* Each operation is one step of TaskExecutor or leaves phase and gate as they were.
LEMMA ExecutorStep ==
  ASSUME IInv, [Next]_vars PROVE [Executor!ExecNext]_(Executor!execVars)
<1> USE DEF IInv, Executor!execVars, Executor!ExecNext
<1>s. ASSUME UNCHANGED <<future, taskQueue_, inits, shuttingDown_>>
      PROVE  UNCHANGED <<Phase, Gate, Before>>
  BY <1>s DEF Phase, Gate, Before, Queued
<1>p. ASSUME UNCHANGED <<future, taskQueue_>> PROVE UNCHANGED <<Phase, Before>>
  BY <1>p DEF Phase, Before, Queued
<1>g. ASSUME UNCHANGED <<inits, shuttingDown_>> PROVE UNCHANGED Gate
  BY <1>g DEF Gate
<1>1. ASSUME NEW c \in Controllers, Initialize(c)
      PROVE  UNCHANGED <<Phase, Gate, Before>> \/ Executor!Open
  BY <1>1, <1>p DEF Initialize, Gate, TypeOK, CallInv, Executor!Open
<1>2. ASSUME NEW c \in Controllers, Shutdown(c)
      PROVE  Executor!Close
  BY <1>2, <1>p DEF Shutdown, CallUnchanged, Gate, CallInv, Executor!Close
<1>3. ASSUME NEW c \in Controllers, Destroy(c)
      PROVE  UNCHANGED <<Phase, Gate, Before>> \/ Executor!Close
  BY <1>3, <1>p, <1>g DEF Destroy, CallUnchanged, Gate, CallInv, Executor!Close
<1>4. ASSUME NEW c \in Controllers, ShutdownNotify(c) \/ ShutdownJoin(c) \/ ShutdownDown(c)
      PROVE  UNCHANGED <<Phase, Gate, Before>>
  BY <1>4, <1>s DEF ShutdownNotify, ShutdownJoin, ShutdownDown, CallUnchanged
<1>5. ASSUME NEW c \in Controllers, ShutdownClear(c) \/ Destruct(c)
      PROVE  Executor!Cancel
  BY <1>5, <1>g, ClearingCancels DEF ShutdownClear, Destruct, CallUnchanged, Executor!Cancel
<1>22. ASSUME NEW c \in Controllers, InitializeFails(c)
       PROVE  UNCHANGED <<Phase, Gate, Before>>
  BY <1>22, <1>s DEF InitializeFails
<1>6. CASE CancelAllTasks
  <2>1. Executor!Cancel
    BY <1>6, <1>g, ClearingCancels DEF CancelAllTasks, Executor!Cancel
  <2>2. QED
    BY <2>1
<1>7. CASE ResetStatistics
  BY <1>7, <1>s DEF ResetStatistics
<1>8. ASSUME NEW t \in Tasks, SubmitTask(t)
      PROVE  Executor!Accept(t) \/ Executor!Refuse(t)
  <2>1. UNCHANGED Gate
    BY <1>8, <1>g DEF SubmitTask
  <2>2. Phase[t] = "none"
    BY <1>8, PhaseOf DEF SubmitTask
  <2>3. CASE Accepting
    <3>1. Gate = "open"
      BY <2>3 DEF Accepting, CallInv, Gate
    <3>2. future' = [future EXCEPT ![t] = "pending"] /\ Queued' = Queued \cup {t}
      BY <1>8, <2>3 DEF SubmitTask, Queued
    <3>3. Phase' = [Phase EXCEPT ![t] = "waiting"]
      BY <3>2 DEF Phase, TypeOK
    <3>4. Before' = Before \cup (Executor!Waits \X {t})
      <4>1. taskQueue_' = [u \in Queued \cup {t} |-> IF u = t THEN 0 ELSE taskQueue_[u] + 1]
        BY <1>8, <2>3 DEF SubmitTask
      <4>2. t \notin Queued /\ Executor!Waits = Queued /\ taskQueue_ \in [Queued -> Nat]
        BY <2>2, PhaseOf DEF Executor!Waits, TypeOK
      <4>3. QED
        BY <3>2, <4>1, <4>2 DEF Before
    <3>5. QED
      BY <2>1, <2>2, <3>1, <3>3, <3>4 DEF Executor!Accept, Executor!Move
  <2>4. CASE ~Accepting
    <3>1. future' = [future EXCEPT ![t] = "refused"] /\ Queued' = Queued /\ Before' = Before
      BY <1>8, <2>4 DEF SubmitTask, Queued, Before
    <3>2. Phase' = [Phase EXCEPT ![t] = "refused"]
      BY <3>1 DEF Phase, TypeOK
    <3>3. QED
      BY <2>1, <2>2, <3>1, <3>2 DEF Executor!Refuse, Executor!Move
  <2>5. QED
    BY <2>3, <2>4
<1>9. ASSUME NEW t \in Tasks, NotifyOne(t)
      PROVE  UNCHANGED <<Phase, Gate, Before>>
  BY <1>9, <1>s DEF NotifyOne
<1>10. ASSUME NEW w \in Workers, TakeTask(w)
       PROVE  \E t \in Tasks : Executor!Start(t)
  <2>1. PICK t \in Queued : /\ \A u \in Queued : NotAfter(t, u)
                            /\ taskQueue_' = [u \in Queued \ {t} |-> taskQueue_[u]]
    BY <1>10 DEF TakeTask
  <2>2. t \in Tasks /\ future[t] = "pending" /\ Queued' = Queued \ {t} /\ future' = future
    BY <1>10, <2>1 DEF TakeTask, Queued, TypeOK, PendingIsHeld
  <2>3. Phase[t] = "waiting" /\ Phase' = [Phase EXCEPT ![t] = "running"]
    BY <2>2, PhaseOf DEF Phase
  <2>4. Executor!Waits = Queued
    BY PhaseOf DEF Executor!Waits, TypeOK
  <2>7. \A u \in Executor!Waits : \/ Priority[u] < Priority[t]
                                  \/ Priority[u] = Priority[t] /\ <<u, t>> \notin Before
    <3> TAKE u \in Executor!Waits
    <3>1. /\ u \in Queued /\ NotAfter(t, u)
          /\ Priority[u] \in Nat /\ Priority[t] \in Nat
          /\ taskQueue_[u] \in Nat /\ taskQueue_[t] \in Nat
      BY <2>1, <2>4, PoolAssumption DEF TypeOK
    <3>2. taskQueue_[t] >= taskQueue_[u] => <<u, t>> \notin Before
      BY <3>1 DEF Before
    <3>3. QED
      BY <3>1, <3>2 DEF NotAfter
  <2>8. Before' = {p \in Before : p[1] # t /\ p[2] # t}
    BY <2>1, <2>2 DEF Before
  <2>5. UNCHANGED Gate
    BY <1>10, <1>g DEF TakeTask, WorkUnchanged
  <2>6. QED
    BY <2>2, <2>3, <2>5, <2>7, <2>8 DEF Executor!Start, Executor!Move
<1>11. ASSUME NEW w \in Workers, RunTask(w)
       PROVE  UNCHANGED <<Phase, Gate, Before>> \/ \E t \in Tasks : Executor!Finish(t)
  <2> DEFINE t == worker[w].task
  <2>1. UNCHANGED Gate /\ UNCHANGED Queued /\ UNCHANGED Before
    BY <1>11, <1>g DEF RunTask, WorkUnchanged, Queued, Before
  <2>2. CASE t \in Tasks
    <3>1. t \notin Queued /\ future[t] = "pending"
      BY <1>11, <2>2 DEF RunTask, PendingIsHeld, Carrying, AtTask
    <3>2. Phase[t] = "running" /\ Phase' = [Phase EXCEPT ![t] = "ready"]
      BY <1>11, <2>1, <2>2, <3>1, PhaseOf DEF RunTask, Phase, TypeOK
    <3>3. QED
      BY <2>1, <2>2, <3>2 DEF Executor!Finish, Executor!Move
  <2>3. CASE t \notin Tasks
    BY <1>11, <2>1, <2>3 DEF RunTask, TypeOK, Phase
  <2>4. QED
    BY <2>2, <2>3
<1>12. ASSUME NEW w \in Workers,
              WaitForTask(w) \/ LeaveLoop(w) \/ EnterPython(w) \/ CountTask(w)
                \/ SpuriousWakeup(w)
       PROVE  UNCHANGED <<Phase, Gate, Before>>
  BY <1>12, <1>s DEF WaitForTask, LeaveLoop, EnterPython, CountTask, SpuriousWakeup, WorkUnchanged
<1>21. CASE HostYields \/ HostTakes
  BY <1>21, <1>s DEF HostYields, HostTakes, WorkUnchanged
<1>13. CASE UNCHANGED vars
  BY <1>13, <1>s
<1>q. QED
  BY <1>1, <1>2, <1>3, <1>4, <1>5, <1>6, <1>7, <1>8, <1>9, <1>10, <1>11, <1>12, <1>13,
     <1>21, <1>22 DEF Next, WorkerStep, CallStep, Enter

\* The pool implements TaskExecutor, for any number of tasks, any priorities and any
\* limit of the queue: no task is lost, run twice or cancelled while it runs, nothing is
\* accepted outside the pool's one open phase, and a task starts only when nothing more
\* urgent, and nothing as urgent that came earlier, is queued.
THEOREM ExecutesSafely == Spec => ImplementsExecutor
<1>1. Init => Executor!ExecInit
  BY DEF Init, Executor!ExecInit, Phase, Gate, Before, Queued, Empty
<1>2. QED
  BY <1>1, ExecutorStep, Inductive, PTL DEF Spec, Executor!ExecSpec, ImplementsExecutor

=============================================================================
