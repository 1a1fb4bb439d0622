------------------------ MODULE SequencerRuns_proofs ------------------------
(* Theorems about Sequencer on the list of targets and on failures, and, with *)
(* one controller, on who runs when and what stop() waits for.                *)
EXTENDS Sequencer_proofs

USE DEF graph, disk, SequenceUnchanged, ControlUnchanged, Move, Goto, Return,
        At, Calling, Resting, Runs, NoRun

-----------------------------------------------------------------------------
(* The list of targets *)

Existing(st) == {t \in Targets : st[t] # "None"}

\* targets_, the file and the row list what exists, and a thread that points to a
\* target points to one that exists
ListInv ==
  /\ Lists(targets_, Existing(status)) /\ enabled \subseteq Existing(status)
  /\ Lists(saved.targets, Existing(saved.status)) /\ saved.enabled \subseteq Existing(saved.status)
  /\ Lists(file.targets, ToSet(file.targets)) /\ ToSet(file.targets) \subseteq Targets
  /\ file.enabled \subseteq ToSet(file.targets)
  /\ \A r \in Runs : thread[r].target # Freed => status[thread[r].target] # "None"

\* Nothing is listed of nothing.
LEMMA NothingListed ==
  /\ Lists(Nothing.targets, Existing(Nothing.status))
  /\ Nothing.enabled = {} /\ ToSet(<<>>) = {} /\ Lists(<<>>, {})
<1>1. Lists(<<>>, {}) /\ ToSet(<<>>) = {}
  BY DEF Lists, ToSet
<1>2. Existing(Nothing.status) = {}
  BY DEF Existing, Nothing
<1>3. QED
  BY <1>1, <1>2 DEF Nothing

\* Nothing but the editing operations and loads adds or removes a target.
LEMMA ListKept ==
  ASSUME TypeOK, ListInv,
         UNCHANGED <<targets_, enabled, saved, file>>,
         Existing(status)' = Existing(status),
         \A r \in Runs : \/ thread'[r].target \in {Freed, thread[r].target}
                         \/ thread'[r].target \in Existing(status)
  PROVE  ListInv'
<1>1. ASSUME NEW r \in Runs, thread'[r].target # Freed
      PROVE  status'[thread'[r].target] # "None"
  <2>1. thread'[r].target \in Existing(status)
    BY <1>1 DEF ListInv, Existing, TypeOK, ThreadState
  <2>2. QED
    BY <2>1 DEF Existing
<1>2. QED
  BY <1>1 DEF ListInv

\* Walking the targets, and the calls, keep the lists.
LEMMA ListWalk ==
  ASSUME TypeOK, ListInv,
         \/ \E r \in Runs : ThreadStep(r)
         \/ \E c \in Clients : CallStep(c) \/ ExecuteAll(c) \/ Stop(c) \/ TakeFailed(c)
  PROVE  ListInv'
<1> USE DEF TypeOK, ThreadState
<1>1. ASSUME NEW r \in Runs, ThreadStep(r) PROVE ListInv'
  <2>1. UNCHANGED <<targets_, enabled, saved, file>>
    BY <1>1 DEF ThreadStep, GetNextExecutableTarget, CheckStopping, StartTarget, FinishTarget,
       AccountTarget, UseAfterFree, EndSequence, NotifySequenceEnd
  <2>2. \A q \in Runs : q # r => thread'[q] = thread[q]
    BY <1>1, ThreadFrame
  <2>3. /\ thread'[r].target \in {Freed, thread[r].target}
             \/ thread'[r].target \in Existing(status)
        /\ Existing(status)' = Existing(status)
    <3>1. CASE GetNextExecutableTarget(r)
      <4>1. PICK x \in {At("ending", Freed)} \cup {At("picked", t) : t \in Executable} :
              thread' = [thread EXCEPT ![r] = x]
        BY <3>1 DEF GetNextExecutableTarget
      <4>2. x.target = Freed \/ x.target \in Existing(status)
        BY <4>1 DEF Executable, Existing
      <4>3. QED
        BY <3>1, <4>1, <4>2 DEF GetNextExecutableTarget, Existing
    <3>2. CASE StartTarget(r)
      <4>1. PICK pc \in {"executing", "account"}, st \in {"InProgress", "Skipped"} :
              /\ thread' = [thread EXCEPT ![r] = At(pc, thread[r].target)]
              /\ status' = [status EXCEPT ![thread[r].target] = st]
        BY <3>2 DEF StartTarget, SkipTarget
      <4>2. status[thread[r].target] # "None"
        BY <3>2 DEF StartTarget, Alive, ListInv
      <4>3. QED
        BY <4>1, <4>2 DEF Existing
    <3>3. CASE FinishTarget(r)
      <4>1. PICK st \in {"Completed", "Failed"} :
              status' = [status EXCEPT ![thread[r].target] = st]
        BY <3>3 DEF FinishTarget
      <4>2. status[thread[r].target] # "None"
        BY <3>3 DEF FinishTarget, Alive, ListInv
      <4>3. thread'[r].target = thread[r].target
        BY <3>3 DEF FinishTarget
      <4>4. QED
        BY <4>1, <4>2, <4>3 DEF Existing
    <3>4. CASE ~GetNextExecutableTarget(r) /\ ~StartTarget(r) /\ ~FinishTarget(r)
      <4>1. UNCHANGED status
        BY <1>1, <3>4 DEF ThreadStep, CheckStopping, AccountTarget, UseAfterFree, EndSequence,
           NotifySequenceEnd
      <4>2. thread'[r].target \in {Freed, thread[r].target}
        <5>1. CASE UNCHANGED thread
          BY <5>1
        <5>2. CASE \E pc \in ThreadPc, u \in {Freed, thread[r].target} :
                     thread' = [thread EXCEPT ![r] = At(pc, u)]
          BY <5>2
        <5>3. QED
          BY <1>1, <3>4, <5>1, <5>2 DEF ThreadStep, CheckStopping, AccountTarget, UseAfterFree,
             EndSequence, NotifySequenceEnd, ThreadPc
      <4>3. QED
        BY <4>1, <4>2 DEF Existing
    <3>5. QED
      BY <3>1, <3>2, <3>3, <3>4
  <2>4. QED
    BY <2>1, <2>2, <2>3, ListKept
<1>2. ASSUME NEW c \in Clients, CallStep(c) \/ ExecuteAll(c) \/ Stop(c) \/ TakeFailed(c)
      PROVE  ListInv'
  <2>1. UNCHANGED <<targets_, enabled, saved, file>>
    BY <1>2 DEF CallStep, ExecuteReset, ExecuteSpawn, JoinOld, StopStore, StopJoin, StopJoined,
       StopIdle, StopReturn, SetFailed, ExecuteAll, Stop, TakeFailed
  <2>2. Existing(status)' = Existing(status)
    <3>1. CASE SetFailed(c)
      <4>1. \A t \in Targets : IsFirst(t) => t \in Existing(status)
        BY ListsCount DEF ListInv, IsFirst
      <4>2. QED
        BY <3>1, <4>1 DEF SetFailed, SetNamed, Existing
    <3>2. CASE ~SetFailed(c)
      BY <1>2, <3>2 DEF CallStep, ExecuteReset, ExecuteSpawn, JoinOld, StopStore, StopJoin,
         StopJoined, StopIdle, StopReturn, ExecuteAll, Stop, TakeFailed, Existing
    <3>3. QED
      BY <3>1, <3>2
  <2>3. \A r \in Runs : thread'[r].target \in {Freed, thread[r].target}
    <3>1. CASE ExecuteAll(c) \/ ExecuteSpawn(c)
      <4>1. PICK q, pc : thread' = [thread EXCEPT ![q] = At(pc, Freed)]
        BY <3>1 DEF ExecuteAll, ExecuteSpawn
      <4>2. QED
        BY <4>1
    <3>2. CASE ~ExecuteAll(c) /\ ~ExecuteSpawn(c)
      BY <1>2, <3>2 DEF CallStep, ExecuteReset, JoinOld, StopStore, StopJoin, StopJoined,
         StopIdle, StopReturn, SetFailed, Stop, TakeFailed
    <3>3. QED
      BY <3>1, <3>2
  <2>4. QED
    BY <2>1, <2>2, <2>3, ListKept
<1>3. QED
  BY <1>1, <1>2

\* Editing, saving, loading and crashing keep the lists.
LEMMA ListEdit ==
  ASSUME TypeOK, ListInv,
         \/ Edit
         \/ Pause \/ SetSchedulingStrategy
         \/ SaveSequence \/ LoadSequence
         \/ SaveToDatabase \/ LoadFromDatabase \/ DeleteFromDatabase \/ Crash
  PROVE  ListInv'
<1> USE DEF TypeOK, ThreadState
<1>1. ASSUME NEW t \in Targets, AddTarget(t) PROVE ListInv'
  <2>1. t \notin Existing(status) /\ Existing(status)' = Existing(status) \cup {t}
    BY <1>1 DEF AddTarget, Existing
  <2>2. Lists(targets_', Existing(status)')
    <3>1. Lists(targets_, Existing(status)) /\ targets_' = Append(targets_, t)
      BY <1>1 DEF AddTarget, ListInv
    <3>2. Lists(targets_', Existing(status) \cup {t})
      BY <2>1, <3>1, ListsAppend
    <3>3. QED
      BY <2>1, <3>2
  <2>3. enabled' \subseteq Existing(status)'
    BY <1>1, <2>1 DEF AddTarget, ListInv
  <2>4. UNCHANGED <<saved, file, thread>>
    BY <1>1 DEF AddTarget
  <2>5. \A r \in Runs : thread'[r].target # Freed => status'[thread'[r].target] # "None"
    BY <1>1, <2>4 DEF AddTarget, ListInv
  <2>6. QED
    BY <2>2, <2>3, <2>4, <2>5 DEF ListInv
<1>2. ASSUME NEW t \in Targets, RemoveTarget(t) PROVE ListInv'
  <2>1. t \in Existing(status) /\ Existing(status)' = Existing(status) \ {t}
    <3>1. t \in Existing(status)
      BY <1>2, ListsCount DEF RemoveTarget, IsFirst, ListInv
    <3>2. QED
      BY <1>2, <3>1 DEF RemoveTarget, Existing
  <2>2. Lists(targets_', Existing(status)')
    <3>1. Lists(targets_, Existing(status)) /\ targets_' = RemoveFirst(targets_, t)
      BY <1>2 DEF RemoveTarget, ListInv
    <3>2. Lists(targets_', Existing(status) \ {t})
      BY <2>1, <3>1, ListsRemove
    <3>3. QED
      BY <2>1, <3>2
  <2>3. enabled' \subseteq Existing(status)'
    BY <1>2, <2>1 DEF RemoveTarget, ListInv
  <2>4. UNCHANGED <<saved, file>>
    BY <1>2 DEF RemoveTarget
  <2>5. \A r \in Runs : thread'[r].target # Freed =>
          thread'[r].target = thread[r].target /\ thread[r].target # t
    BY <1>2 DEF RemoveTarget, Dangle
  <2>6. \A r \in Runs : thread'[r].target # Freed => status'[thread'[r].target] # "None"
    BY <1>2, <2>5 DEF RemoveTarget, ListInv
  <2>7. QED
    BY <2>2, <2>3, <2>4, <2>6 DEF ListInv
<1>3. ASSUME NEW t \in Targets, ModifyTarget(t) PROVE ListInv'
  <2>0. t \in Existing(status)
    BY <1>3, ListsCount DEF ModifyTarget, IsFirst, ListInv
  <2>1. enabled' \subseteq Existing(status)' /\ UNCHANGED <<targets_, status, thread, saved, file>>
    BY <1>3, <2>0 DEF ModifyTarget, ListInv, Existing
  <2>2. QED
    BY <2>1 DEF ListInv, Existing
<1>4. CASE SetSchedulingStrategy
  <2>1. UNCHANGED <<saved, file>>
    BY <1>4 DEF SetSchedulingStrategy
  <2>2. ToSet(targets_) = Existing(status) /\ IsFiniteSet(Existing(status))
    BY ListsCount DEF ListInv
  <2>3. CASE ReorderTargetsByDependencies
    <3>1. PICK kept \in SUBSET Existing(status) : Keep(kept)
      BY <2>2, <2>3 DEF ReorderTargetsByDependencies, IsFirst
    <3>2. Existing(status)' = kept /\ enabled' \subseteq kept
      BY <3>1 DEF Keep, Existing
    <3>3. Lists(targets_', kept)
      <4>1. Lists(Found(targets_, kept), Existing(status) \cap kept)
        BY FoundLists DEF ListInv
      <4>2. Existing(status) \cap kept = kept
        OBVIOUS
      <4>3. QED
        BY <3>1, <4>1, <4>2, ListsReverse DEF Keep
    <3>4. ASSUME NEW r \in Runs, thread'[r].target # Freed
          PROVE  status'[thread'[r].target] # "None"
      <4>1. thread'[r].target = thread[r].target /\ thread[r].target \notin Targets \ kept
        BY <3>1, <3>4 DEF Keep, Dangle
      <4>2. thread[r].target \in kept
        BY <3>4, <4>1
      <4>3. QED
        BY <3>2, <4>1, <4>2 DEF Existing
    <3>5. QED
      BY <2>1, <3>2, <3>3, <3>4 DEF ListInv
  <2>4. CASE ReorderTargetsByPriority
    <3>1. Lists(targets_', Existing(status)) /\ UNCHANGED <<status, enabled, thread>>
      BY <2>2, <2>4, ListsOrder DEF ReorderTargetsByPriority
    <3>2. QED
      BY <2>1, <3>1 DEF ListInv, Existing
  <2>5. QED
    BY <1>4, <2>3, <2>4 DEF SetSchedulingStrategy
<1>5. CASE SaveSequence
  <2>1. UNCHANGED <<targets_, enabled, status, thread, saved>>
        /\ file'.targets = targets_ /\ file'.enabled = enabled
    BY <1>5 DEF SaveSequence
  <2>2. ToSet(targets_) = Existing(status) /\ Existing(status) \subseteq Targets
    BY ListsCount DEF ListInv, Existing
  <2>3. QED
    BY <2>1, <2>2 DEF ListInv, Existing
<1>6. CASE LoadSequence
  <2>1. /\ targets_' = file.targets /\ enabled' = file.enabled /\ UNCHANGED <<saved, file>>
        /\ \A r \in Runs : thread'[r].target = Freed
    BY <1>6 DEF LoadSequence, Dangle
  <2>2. Existing(status)' = ToSet(file.targets)
    BY <1>6 DEF LoadSequence, Existing, ListInv
  <2>3. QED
    BY <2>1, <2>2 DEF ListInv
<1>7. CASE SaveToDatabase
  <2>1. UNCHANGED <<targets_, enabled, status, thread, file>>
        /\ saved'.targets = targets_ /\ saved'.enabled = enabled /\ saved'.status = status
    BY <1>7 DEF SaveToDatabase, Row
  <2>2. QED
    BY <2>1 DEF ListInv, Existing
<1>8. CASE LoadFromDatabase
  <2>1. /\ targets_' = saved.targets /\ enabled' = saved.enabled /\ status' = saved.status
        /\ UNCHANGED <<saved, file>>
        /\ \A r \in Runs : thread'[r].target = Freed
    BY <1>8 DEF LoadFromDatabase, Dangle
  <2>2. QED
    BY <2>1 DEF ListInv, Existing
<1>9. CASE DeleteFromDatabase
  <2>1. UNCHANGED <<targets_, enabled, status, thread, file>> /\ saved' = Nothing
    BY <1>9 DEF DeleteFromDatabase
  <2>2. QED
    BY <2>1, NothingListed DEF ListInv, Existing
<1>10. CASE Crash
  <2>1. /\ targets_' = Nothing.targets /\ enabled' = Nothing.enabled /\ status' = Nothing.status
        /\ UNCHANGED <<saved, file>>
        /\ \A r \in Runs : thread'[r].target = Freed
    BY <1>10 DEF Crash, Nothing
  <2>2. QED
    BY <2>1, NothingListed DEF ListInv, Existing
<1>11. CASE Pause \/ \E n, d \in Names : AddTargetDependency(n, d) \/ RemoveTargetDependency(n, d)
  <2>1. UNCHANGED <<targets_, enabled, status, thread, saved, file>>
    BY <1>11 DEF Pause, AddTargetDependency, RemoveTargetDependency
  <2>2. QED
    BY <2>1 DEF ListInv, Existing
<1>12. QED
  BY <1>1, <1>2, <1>3, <1>4, <1>5, <1>6, <1>7, <1>8, <1>9, <1>10, <1>11 DEF Edit

\* The lists hold in every reachable state.
THEOREM Listed == Spec => []ListInv
<1>1. Init => ListInv
  <2> SUFFICES ASSUME Init PROVE ListInv
    OBVIOUS
  <2>1. /\ targets_ = Nothing.targets /\ enabled = Nothing.enabled /\ status = Nothing.status
        /\ saved = Nothing /\ file.targets = <<>> /\ file.enabled = {}
        /\ \A r \in Runs : thread[r].target = Freed
    BY DEF Init, Nothing, NoFile
  <2>2. QED
    BY <2>1, NothingListed DEF ListInv, Existing
<1>2. TypeOK /\ ListInv /\ [Next]_vars => ListInv'
  <2>1. ASSUME TypeOK, ListInv, UNCHANGED vars PROVE ListInv'
    BY <2>1 DEF vars, ListInv, Existing
  <2>2. QED
    BY <2>1, ListWalk, ListEdit, SequencerAssumption DEF Next
<1>3. QED
  BY <1>1, <1>2, Typing, PTL DEF Spec

\* A listed target that find_if does not find by its name comes after one that it
\* finds.
LEMMA FirstOfName ==
  ASSUME ListInv, NEW t \in ToSet(targets_), ~IsFirst(t)
  PROVE  \E u \in Targets : IsFirst(u) /\ Precedes(u, t) /\ NameOf[u] = NameOf[t]
<1> DEFINE E == Existing(status)
           at == {i \in 1..Len(targets_) : NameOf[targets_[i]] = NameOf[t]}
           k == Min(at)
           u == targets_[k]
<1>0. Lists(targets_, E)
  BY DEF ListInv
<1>1. /\ targets_ \in Seq(E) /\ Len(targets_) \in Nat /\ DOMAIN targets_ = 1..Len(targets_)
      /\ \A i, j \in 1..Len(targets_) : targets_[i] = targets_[j] => i = j
  <2> HIDE DEF E
  <2>1. QED
    BY <1>0 DEF Lists
<1>2. PICK j \in 1..Len(targets_) : targets_[j] = t
  BY <1>1 DEF ToSet
<1>3. at \in SUBSET Nat /\ j \in at
  BY <1>1, <1>2
<1>4. k \in at /\ \A i \in at : k <= i
  BY <1>3, MinIsLeast
<1>5. k \in 1..Len(targets_) /\ NameOf[u] = NameOf[t]
  BY <1>4
<1>6. u \in Targets /\ u \in ToSet(targets_)
  <2> HIDE DEF E, k
  <2>1. u \in E /\ u \in ToSet(targets_)
    BY <1>1, <1>5 DEF ToSet
  <2>2. QED
    BY <2>1 DEF E, Existing
<1> HIDE DEF at, k
<1>7. ASSUME NEW v \in Targets, NameOf[v] = NameOf[u], Precedes(v, u) PROVE FALSE
  <2>1. PICK i, l \in 1..Len(targets_) : i < l /\ targets_[i] = v /\ targets_[l] = u
    BY <1>1, <1>7 DEF Precedes
  <2>2. l = k
    BY <1>1, <1>5, <2>1
  <2>3. i \in at
    BY <1>5, <1>7, <2>1 DEF at
  <2>4. k <= i
    BY <1>4, <2>3
  <2>5. QED
    BY <1>1, <1>5, <2>1, <2>2, <2>4
<1>8. IsFirst(u)
  BY <1>6, <1>7 DEF IsFirst
<1>9. u # t /\ k # j /\ k <= j
  BY <1>2, <1>3, <1>4, <1>8
<1>10. Precedes(u, t)
  <2>1. k < j
    BY <1>1, <1>2, <1>5, <1>9
  <2>2. QED
    BY <1>1, <1>2, <1>5, <2>1 DEF Precedes
<1>11. QED
  BY <1>5, <1>6, <1>8, <1>10

\* A target that leaves was removed, replaced or lost with the process, or dropped by
\* a reordering that keeps an earlier target of its name.
LEMMA LeavesStep ==
  ASSUME TypeOK, ListInv, ListInv', Next, NEW t \in ToSet(targets_), status'[t] = "None"
  PROVE  TargetLeaves(t)
<1>1. t \in Targets /\ status[t] # "None"
  BY ListsCount DEF ListInv, Existing
<1>2. CASE SetSchedulingStrategy
  <2>1. CASE ReorderTargetsByDependencies
    <3>1. ~IsFirst(t)
      BY <1>1, <2>1 DEF ReorderTargetsByDependencies, Keep
    <3>2. PICK u \in Targets : IsFirst(u) /\ Precedes(u, t) /\ NameOf[u] = NameOf[t]
      BY <3>1, FirstOfName
    <3>3. status'[u] # "None"
      <4>1. status'[u] = status[u] /\ u \in ToSet(targets_)
        BY <2>1, <3>2 DEF ReorderTargetsByDependencies, Keep, IsFirst
      <4>2. QED
        BY <4>1, ListsCount DEF ListInv, Existing
    <3>4. u \in Existing(status)'
      BY <3>3 DEF Existing
    <3>5. Lists(targets_', Existing(status)')
      BY DEF ListInv
    <3>6. ToSet(targets_') = Existing(status)'
      BY <3>5, ListsCount
    <3>7. QED
      BY <3>2, <3>4, <3>6 DEF TargetLeaves
  <2>2. CASE ReorderTargetsByPriority
    BY <1>1, <2>2 DEF ReorderTargetsByPriority
  <2>3. QED
    BY <1>2, <2>1, <2>2 DEF SetSchedulingStrategy
<1>3. CASE \E v \in Targets : RemoveTarget(v)
  <2>1. PICK v \in Targets : RemoveTarget(v)
    BY <1>3
  <2>2. v = t
    BY <1>1, <2>1 DEF RemoveTarget, TypeOK
  <2>3. QED
    BY <2>1, <2>2 DEF TargetLeaves
<1>4. CASE LoadSequence \/ LoadFromDatabase \/ Crash
  BY <1>4 DEF TargetLeaves
<1>5. ASSUME NEW r \in Runs, ThreadStep(r) PROVE FALSE
  <2> USE DEF TypeOK
  <2>1. CASE StartTarget(r)
    <3>1. PICK st \in {"InProgress", "Skipped"} : status' = [status EXCEPT ![thread[r].target] = st]
      BY <2>1 DEF StartTarget, SkipTarget
    <3>2. QED
      BY <1>1, <3>1
  <2>2. CASE FinishTarget(r)
    BY <1>1, <2>2 DEF FinishTarget
  <2>3. CASE ~StartTarget(r) /\ ~FinishTarget(r)
    BY <1>1, <1>5, <2>3 DEF ThreadStep, GetNextExecutableTarget, CheckStopping, AccountTarget,
       UseAfterFree, EndSequence, NotifySequenceEnd
  <2>4. QED
    BY <2>1, <2>2, <2>3
<1>6. ASSUME NEW c \in Clients, CallStep(c) \/ TakeFailed(c) \/ ExecuteAll(c) \/ Stop(c)
      PROVE  FALSE
  <2>1. CASE SetFailed(c)
    BY <1>1, <2>1 DEF SetFailed, SetNamed
  <2>2. CASE ~SetFailed(c)
    BY <1>1, <1>6, <2>2 DEF CallStep, ExecuteReset, ExecuteSpawn, JoinOld, StopStore, StopJoin,
       StopJoined, StopIdle, StopReturn, ExecuteAll, Stop, TakeFailed
  <2>3. QED
    BY <2>1, <2>2
<1>7. ASSUME NEW v \in Targets, AddTarget(v) \/ ModifyTarget(v) PROVE FALSE
  BY <1>1, <1>7 DEF AddTarget, ModifyTarget, TypeOK
<1>8. CASE \/ Pause \/ SaveSequence \/ SaveToDatabase \/ DeleteFromDatabase
           \/ \E n, d \in Names : AddTargetDependency(n, d) \/ RemoveTargetDependency(n, d)
  BY <1>1, <1>8 DEF Pause, SaveSequence, SaveToDatabase, DeleteFromDatabase,
     AddTargetDependency, RemoveTargetDependency
<1>9. QED
  BY <1>2, <1>3, <1>4, <1>5, <1>6, <1>7, <1>8, SequencerAssumption DEF Next, Edit

\* Whatever names repeat, targets_ lists every target there is once, and a target
\* leaves the sequence only by removeTarget, a load, the end of the process, or when a
\* reordering by dependencies finds its name at an earlier target, which it keeps: for
\* any number of targets, callers and runs, and every operation.
THEOREM TargetsStay == Spec => TargetsKept
<1>1. ListInv => ListedOnce
  BY ListsCount DEF ListInv, Existing, ListedOnce
<1>2. TypeOK /\ ListInv /\ ListInv' /\ [Next]_vars => [KeepStep]_vars
  BY LeavesStep DEF KeepStep
<1>3. QED
  BY <1>1, <1>2, Listed, Typing, PTL DEF Spec, TargetsKept

-----------------------------------------------------------------------------
(* Failures *)

\* no two targets have one name
DistinctNames == \A t, u \in Targets : NameOf[t] = NameOf[u] => t = u

\* a load from the database brings back no failure that is not in the list, which is
\* not saved
LoadsNoFailure ==
  LoadFromDatabase => \A t \in Targets : saved.status[t] = "Failed" =>
                        NameOf[t] \in ToSet(failedTargetNames_)

\* Every target is then found by its name.
LEMMA AllFirst ==
  ASSUME DistinctNames, ListInv, NEW t \in Targets, status[t] # "None"
  PROVE  IsFirst(t)
<1>1. t \in ToSet(targets_)
  BY ListsCount DEF ListInv, Existing
<1>2. \A i, j \in 1..Len(targets_) : targets_[i] = targets_[j] => i = j
  BY DEF ListInv, Lists
<1>3. DOMAIN targets_ = 1..Len(targets_) /\ Len(targets_) \in Nat
  BY DEF ListInv, Lists
<1>4. ~Precedes(t, t)
  BY <1>2, <1>3 DEF Precedes
<1>5. QED
  BY <1>1, <1>4 DEF IsFirst, DistinctNames

\* A thread that steps without writing a status, and is not about to account for
\* a target, leaves every failure listed.
LEMMA QuietThread ==
  ASSUME TypeOK, FailedIsListed, NEW r \in Runs, ThreadStep(r),
         thread[r].pc # "account", UNCHANGED <<status, failedTargetNames_>>
  PROVE  FailedIsListed'
<1> SUFFICES ASSUME NEW t \in Targets, status[t] = "Failed"
             PROVE  \/ NameOf[t] \in ToSet(failedTargetNames_)
                    \/ \E q \in Runs : thread'[q] = At("account", t)
                    \/ \E c \in Clients : NameOf[t] \in ToSet(client'[c].names)
  BY DEF FailedIsListed
<1>1. CASE \E q \in Runs : thread[q] = At("account", t)
  <2>1. PICK q \in Runs : thread[q] = At("account", t)
    BY <1>1
  <2>2. q # r /\ thread'[q] = thread[q]
    BY <2>1, ThreadFrame
  <2>3. QED
    BY <2>1, <2>2
<1>2. CASE ~ \E q \in Runs : thread[q] = At("account", t)
  BY <1>2, ThreadFrame DEF FailedIsListed
<1>3. QED
  BY <1>1, <1>2

\* A client that changes neither a status nor the list nor a thread, and holds no
\* names, leaves every failure listed.
LEMMA QuietClient ==
  ASSUME FailedIsListed, NEW c \in Clients, client[c].names = <<>>,
         \A d \in Clients : d # c => client'[d] = client[d],
         UNCHANGED <<status, failedTargetNames_>>,
         \A r \in Runs : thread[r].pc = "account" => thread'[r] = thread[r]
  PROVE  FailedIsListed'
<1> SUFFICES ASSUME NEW t \in Targets, status[t] = "Failed"
             PROVE  \/ NameOf[t] \in ToSet(failedTargetNames_)
                    \/ \E q \in Runs : thread'[q] = At("account", t)
                    \/ \E d \in Clients : NameOf[t] \in ToSet(client'[d].names)
  BY DEF FailedIsListed
<1>1. CASE \E q \in Runs : thread[q] = At("account", t)
  BY <1>1
<1>2. CASE \E d \in Clients : NameOf[t] \in ToSet(client[d].names)
  <2>1. PICK d \in Clients : NameOf[t] \in ToSet(client[d].names)
    BY <1>2
  <2>2. d # c
    BY <2>1, ToSetNone
  <2>3. QED
    BY <2>1, <2>2
<1>3. QED
  BY <1>1, <1>2 DEF FailedIsListed

\* No step loses a failed target, but a load that brings one back.
LEMMA FailedStep ==
  ASSUME DistinctNames, TypeOK, Ownership, ListInv, FailedIsListed, [LoadsNoFailure]_vars,
         [Next]_vars
  PROVE  FailedIsListed'
<1>1. ASSUME NEW r \in Runs, ThreadStep(r) PROVE FailedIsListed'
  <2> USE DEF TypeOK, ThreadState
  <2>1. CASE GetNextExecutableTarget(r)
    BY <1>1, <2>1, QuietThread DEF GetNextExecutableTarget
  <2>2. CASE CheckStopping(r)
    BY <1>1, <2>2, QuietThread DEF CheckStopping
  <2>3. CASE StartTarget(r)
    <3> SUFFICES ASSUME NEW t \in Targets, status'[t] = "Failed"
                 PROVE  \/ NameOf[t] \in ToSet(failedTargetNames_')
                        \/ \E q \in Runs : thread'[q] = At("account", t)
                        \/ \E c \in Clients : NameOf[t] \in ToSet(client'[c].names)
      BY DEF FailedIsListed
    <3>1. status[t] = "Failed" /\ UNCHANGED failedTargetNames_
      BY <2>3 DEF StartTarget, SkipTarget
    <3>2. thread[r].pc = "start"
      BY <2>3 DEF StartTarget
    <3>3. CASE \E q \in Runs : thread[q] = At("account", t)
      <4>1. PICK q \in Runs : thread[q] = At("account", t)
        BY <3>3
      <4>2. q # r /\ thread'[q] = thread[q]
        BY <1>1, <3>2, <4>1, ThreadFrame
      <4>3. QED
        BY <4>1, <4>2
    <3>4. QED
      BY <1>1, <3>1, <3>3, ThreadFrame DEF FailedIsListed
  <2>4. CASE FinishTarget(r)
    <3> SUFFICES ASSUME NEW t \in Targets, status'[t] = "Failed"
                 PROVE  \/ NameOf[t] \in ToSet(failedTargetNames_')
                        \/ \E q \in Runs : thread'[q] = At("account", t)
                        \/ \E c \in Clients : NameOf[t] \in ToSet(client'[c].names)
      BY DEF FailedIsListed
    <3>1. /\ thread[r].pc = "executing" /\ UNCHANGED failedTargetNames_
          /\ thread'[r] = At("account", thread[r].target)
      BY <2>4 DEF FinishTarget
    <3>2. CASE t = thread[r].target
      BY <3>1, <3>2
    <3>3. CASE t # thread[r].target
      <4>1. status[t] = "Failed"
        BY <2>4, <3>3 DEF FinishTarget
      <4>2. CASE \E q \in Runs : thread[q] = At("account", t)
        <5>1. PICK q \in Runs : thread[q] = At("account", t)
          BY <4>2
        <5>2. q # r /\ thread'[q] = thread[q]
          BY <1>1, <3>1, <5>1, ThreadFrame
        <5>3. QED
          BY <5>1, <5>2
      <4>3. QED
        BY <1>1, <3>1, <4>1, <4>2, ThreadFrame DEF FailedIsListed
    <3>4. QED
      BY <3>2, <3>3
  <2>5. CASE AccountTarget(r)
    <3> SUFFICES ASSUME NEW t \in Targets, status'[t] = "Failed"
                 PROVE  \/ NameOf[t] \in ToSet(failedTargetNames_')
                        \/ \E q \in Runs : thread'[q] = At("account", t)
                        \/ \E c \in Clients : NameOf[t] \in ToSet(client'[c].names)
      BY DEF FailedIsListed
    <3>0. /\ thread[r].target \in Targets
          /\ ToSet(Append(failedTargetNames_, NameOf[thread[r].target]))
               = ToSet(failedTargetNames_) \cup {NameOf[thread[r].target]}
      <4>1. NameOf[thread[r].target] \in Names /\ thread[r].target \in Targets
        BY <2>5, SequencerAssumption DEF AccountTarget, Alive
      <4>2. failedTargetNames_ \in Seq(Names)
        OBVIOUS
      <4>3. QED
        BY <4>1, <4>2, ToSetAppend
    <3>1. /\ status[t] = "Failed" /\ ToSet(failedTargetNames_) \subseteq ToSet(failedTargetNames_')
          /\ thread[r].target = t => NameOf[t] \in ToSet(failedTargetNames_')
      <4>1. CASE status[thread[r].target] = "Failed"
        <5>1. failedTargetNames_' = Append(failedTargetNames_, NameOf[thread[r].target])
          BY <2>5, <4>1 DEF AccountTarget, ListFailure
        <5>2. QED
          BY <2>5, <3>0, <5>1 DEF AccountTarget
      <4>2. CASE status[thread[r].target] # "Failed"
        BY <2>5, <4>2 DEF AccountTarget
      <4>3. QED
        BY <4>1, <4>2
    <3>2. CASE thread[r].target = t
      BY <3>1, <3>2
    <3>3. CASE thread[r].target # t
      <4>1. CASE \E q \in Runs : thread[q] = At("account", t)
        <5>1. PICK q \in Runs : thread[q] = At("account", t)
          BY <4>1
        <5>2. q # r /\ thread'[q] = thread[q]
          BY <1>1, <3>3, <5>1, ThreadFrame
        <5>3. QED
          BY <5>1, <5>2
      <4>2. QED
        BY <1>1, <3>1, <4>1, ThreadFrame DEF FailedIsListed
    <3>4. QED
      BY <3>2, <3>3
  <2>6. CASE UseAfterFree(r)
    BY <2>6 DEF UseAfterFree, FailedIsListed
  <2>7. CASE EndSequence(r)
    BY <1>1, <2>7, QuietThread DEF EndSequence
  <2>8. CASE NotifySequenceEnd(r)
    BY <1>1, <2>8, QuietThread DEF NotifySequenceEnd
  <2>9. QED
    BY <1>1, <2>1, <2>2, <2>3, <2>4, <2>5, <2>6, <2>7, <2>8 DEF ThreadStep
<1>2. ASSUME NEW c \in Clients, CallStep(c) PROVE FailedIsListed'
  <2> USE DEF TypeOK, ClientState, ThreadState, Ownership, NamesHeld
  <2>1. CASE ExecuteReset(c)
    BY <2>1, QuietClient DEF ExecuteReset
  <2>2. CASE ExecuteSpawn(c)
    <3>1. \A r \in Runs : thread[r].pc = "account" => thread'[r] = thread[r]
      BY <2>2 DEF ExecuteSpawn, StartingOwns, Starting
    <3>2. client[c].names = <<>> /\ \A d \in Clients : d # c => client'[d] = client[d]
      BY <2>2 DEF ExecuteSpawn
    <3>3. UNCHANGED <<status, failedTargetNames_>>
      BY <2>2 DEF ExecuteSpawn
    <3>4. QED
      BY <3>1, <3>2, <3>3, QuietClient
  <2>3. CASE JoinOld(c)
    BY <2>3, QuietClient DEF JoinOld
  <2>4. CASE StopStore(c)
    BY <2>4, QuietClient DEF StopStore
  <2>5. CASE StopJoin(c)
    BY <2>5, QuietClient DEF StopJoin
  <2>6. CASE StopJoined(c)
    BY <2>6, QuietClient DEF StopJoined
  <2>7. CASE StopIdle(c)
    BY <2>7, QuietClient DEF StopIdle
  <2>8. CASE StopReturn(c)
    BY <2>8, QuietClient DEF StopReturn
  <2>9. CASE SetFailed(c)
    <3>1. /\ client[c].names \in Seq(Names) /\ client[c].names # <<>>
          /\ UNCHANGED <<failedTargetNames_, thread>> /\ SetNamed(c)
          /\ \A d \in Clients : d # c => client'[d] = client[d]
      BY <2>9 DEF SetFailed
    <3>2. client'[c].names = Tail(client[c].names)
      <4>1. CASE Tail(client[c].names) = <<>>
        BY <2>9, <4>1 DEF SetFailed
      <4>2. CASE Tail(client[c].names) # <<>>
        BY <2>9, <4>2 DEF SetFailed
      <4>3. QED
        BY <4>1, <4>2
    <3>3. ToSet(client[c].names) = {Head(client[c].names)} \cup ToSet(client'[c].names)
      BY <3>1, <3>2, ToSetTail
    <3> SUFFICES ASSUME NEW t \in Targets, status'[t] = "Failed"
                 PROVE  \/ NameOf[t] \in ToSet(failedTargetNames_')
                        \/ \E q \in Runs : thread'[q] = At("account", t)
                        \/ \E d \in Clients : NameOf[t] \in ToSet(client'[d].names)
      BY DEF FailedIsListed
    <3>4. status[t] = "Failed" /\ ~(IsFirst(t) /\ NameOf[t] = Head(client[c].names))
      BY <3>1 DEF SetNamed
    <3>5. IsFirst(t)
      BY <3>4, AllFirst
    <3>6. NameOf[t] \in ToSet(client[c].names) => NameOf[t] \in ToSet(client'[c].names)
      BY <3>3, <3>4, <3>5
    <3>7. \/ NameOf[t] \in ToSet(failedTargetNames_)
          \/ \E q \in Runs : thread[q] = At("account", t)
          \/ \E d \in Clients : NameOf[t] \in ToSet(client[d].names)
      BY <3>4 DEF FailedIsListed
    <3> HIDE DEF TypeOK
    <3>8. QED
      BY <3>1, <3>6, <3>7
  <2>10. QED
    BY <1>2, <2>1, <2>2, <2>3, <2>4, <2>5, <2>6, <2>7, <2>8, <2>9 DEF CallStep
<1>3. ASSUME NEW c \in Clients, ExecuteAll(c) PROVE FailedIsListed'
  <2> USE DEF TypeOK, Ownership, NamesHeld, Unstarted
  <2>1. \A r \in Runs : thread[r].pc = "account" => thread'[r] = thread[r]
    BY <1>3 DEF ExecuteAll
  <2>2. QED
    BY <1>3, <2>1, QuietClient DEF ExecuteAll
<1>4. ASSUME NEW c \in Clients, Stop(c) PROVE FailedIsListed'
  BY <1>4, QuietClient DEF Stop, TypeOK, Ownership, NamesHeld
<1>5. ASSUME NEW c \in Clients, TakeFailed(c) PROVE FailedIsListed'
  <2>1. client'[c].names = failedTargetNames_
    BY <1>5 DEF TakeFailed, TypeOK
  <2>2. /\ \A d \in Clients : d # c => client'[d] = client[d]
        /\ client[c].names = <<>> /\ UNCHANGED <<status, thread>>
    BY <1>5 DEF TakeFailed, TypeOK, Ownership, NamesHeld
  <2> SUFFICES ASSUME NEW t \in Targets, status[t] = "Failed"
               PROVE  \/ \E q \in Runs : thread'[q] = At("account", t)
                      \/ \E d \in Clients : NameOf[t] \in ToSet(client'[d].names)
    BY <2>2 DEF FailedIsListed
  <2>3. CASE NameOf[t] \in ToSet(failedTargetNames_)
    BY <2>1, <2>3
  <2>4. CASE \E q \in Runs : thread[q] = At("account", t)
    BY <2>2, <2>4
  <2>5. CASE \E d \in Clients : NameOf[t] \in ToSet(client[d].names)
    <3>1. PICK d \in Clients : NameOf[t] \in ToSet(client[d].names)
      BY <2>5
    <3>2. d # c
      BY <2>2, <3>1, ToSetNone
    <3>3. QED
      BY <2>2, <3>1, <3>2
  <2>6. QED
    BY <2>3, <2>4, <2>5 DEF FailedIsListed
<1>6. CASE Edit
  <2> USE DEF TypeOK, FailedIsListed
  <2>1. ASSUME NEW t \in Targets, AddTarget(t) PROVE FailedIsListed'
    BY <2>1 DEF AddTarget
  <2>2. ASSUME NEW t \in Targets, RemoveTarget(t) PROVE FailedIsListed'
    <3>1. /\ \A u \in Targets : status'[u] = "Failed" => u # t /\ status[u] = "Failed"
          /\ UNCHANGED <<failedTargetNames_, client>>
      BY <2>2 DEF RemoveTarget
    <3>2. \A q \in Runs : thread[q].target # t => thread'[q] = thread[q]
      BY <2>2 DEF RemoveTarget, Dangle
    <3> SUFFICES ASSUME NEW u \in Targets, status'[u] = "Failed"
                 PROVE  \/ NameOf[u] \in ToSet(failedTargetNames_)
                        \/ \E q \in Runs : thread'[q] = At("account", u)
                        \/ \E c \in Clients : NameOf[u] \in ToSet(client[c].names)
      BY <3>1
    <3>3. u # t /\ status[u] = "Failed"
      BY <3>1
    <3>4. CASE \E q \in Runs : thread[q] = At("account", u)
      <4>1. PICK q \in Runs : thread[q] = At("account", u)
        BY <3>4
      <4>2. thread[q].target # t
        BY <3>3, <4>1 DEF At
      <4>3. QED
        BY <3>2, <4>1, <4>2
    <3>5. CASE ~ \E q \in Runs : thread[q] = At("account", u)
      BY <3>3, <3>5
    <3>6. QED
      BY <3>4, <3>5
  <2>3. ASSUME NEW t \in Targets, ModifyTarget(t) PROVE FailedIsListed'
    BY <2>3 DEF ModifyTarget
  <2>4. ASSUME NEW n \in Names, NEW d \in Names,
               AddTargetDependency(n, d) \/ RemoveTargetDependency(n, d)
        PROVE  FailedIsListed'
    BY <2>4 DEF AddTargetDependency, RemoveTargetDependency
  <2>5. QED
    BY <1>6, <2>1, <2>2, <2>3, <2>4 DEF Edit
<1>12. CASE SetSchedulingStrategy
  <2> USE DEF TypeOK, FailedIsListed
  <2>1. UNCHANGED <<failedTargetNames_, client>>
    BY <1>12 DEF SetSchedulingStrategy
  <2>2. CASE ReorderTargetsByDependencies
    <3>1. PICK kept \in SUBSET Targets : Keep(kept)
      BY <2>2 DEF ReorderTargetsByDependencies
    <3>2. \A u \in Targets : status'[u] = "Failed" => u \in kept /\ status[u] = "Failed"
      BY <3>1 DEF Keep
    <3>3. \A q \in Runs : thread[q].target \in kept => thread'[q] = thread[q]
      BY <3>1 DEF Keep, Dangle
    <3> SUFFICES ASSUME NEW u \in Targets, status'[u] = "Failed"
                 PROVE  \/ NameOf[u] \in ToSet(failedTargetNames_)
                        \/ \E q \in Runs : thread'[q] = At("account", u)
                        \/ \E c \in Clients : NameOf[u] \in ToSet(client[c].names)
      BY <2>1
    <3>4. u \in kept /\ status[u] = "Failed"
      BY <3>2
    <3>5. CASE \E q \in Runs : thread[q] = At("account", u)
      <4>1. PICK q \in Runs : thread[q] = At("account", u)
        BY <3>5
      <4>2. thread[q].target \in kept
        BY <3>4, <4>1 DEF At
      <4>3. QED
        BY <3>3, <4>1, <4>2
    <3>6. CASE ~ \E q \in Runs : thread[q] = At("account", u)
      BY <3>4, <3>6
    <3>7. QED
      BY <3>5, <3>6
  <2>3. CASE ReorderTargetsByPriority
    BY <2>1, <2>3 DEF ReorderTargetsByPriority
  <2>4. QED
    BY <1>12, <2>2, <2>3 DEF SetSchedulingStrategy
<1>7. CASE Pause \/ SaveSequence \/ SaveToDatabase \/ DeleteFromDatabase
  BY <1>7 DEF Pause, SaveSequence, SaveToDatabase, DeleteFromDatabase, FailedIsListed
<1>8. CASE LoadSequence \/ LoadFromDatabase
  <2>1. CASE UNCHANGED vars
    BY <2>1 DEF vars, FailedIsListed
  <2>2. CASE LoadsNoFailure
    BY <1>8, <2>2 DEF LoadSequence, LoadFromDatabase, LoadsNoFailure, FailedIsListed
  <2>3. QED
    BY <2>1, <2>2
<1>9. CASE Crash
  BY <1>9 DEF Crash, Nothing, FailedIsListed
<1>10. CASE UNCHANGED vars
  BY <1>10 DEF vars, FailedIsListed
<1>11. QED
  BY <1>1, <1>2, <1>3, <1>4, <1>5, <1>6, <1>7, <1>8, <1>9, <1>10,
     <1>12, SequencerAssumption DEF Next

\* If no two targets have one name, and as long as no load from the database brings
\* back an unlisted failure, every failed target is in failedTargetNames_, or in the
\* hands of a thread that will list it or of a call that will reset it, for any number
\* of targets, of callers of every operation and of runs.
THEOREM FailuresListed ==
  ASSUME DistinctNames
  PROVE  Spec /\ [][LoadsNoFailure]_vars => []FailedIsListed
<1>1. Init => FailedIsListed
  BY DEF Init, FailedIsListed
<1>2. TypeOK /\ Ownership /\ ListInv /\ FailedIsListed /\ [LoadsNoFailure]_vars /\ [Next]_vars
        => FailedIsListed'
  BY FailedStep
<1>3. QED
  BY <1>1, <1>2, Typing, Owned, Listed, PTL DEF Spec

-----------------------------------------------------------------------------
(* One controller *)

OneController == \A c, d \in Controllers : c = d

\* the thread of run r is to be started or walks the targets
Live(r) == Active(r) \/ thread[r].pc = "created"

\* only controllers are inside executeAll and stop
Controlling ==
  \A c \in Clients : client[c].pc \notin {"idle", "retrying", "skipping"} => c \in Controllers

\* every run up to the last has begun, and stop() knows of no other
Begun ==
  /\ \A r \in Runs : r <= started => thread[r].pc # "none"
  /\ \A c \in Clients : client[c].before \subseteq 1..started

\* only the last run is live, the jthread holds it, and then the sequence is not Idle
LastIsLive ==
  /\ \A r \in Runs : Live(r) => r = started /\ state_ # "Idle"
  /\ \A r \in Runs : Active(r) => sequenceThread_ = r

\* stop() joins the thread that the jthread holds, and no run is live when it stores
\* Idle and returns
StopWaits ==
  \A c \in Clients :
    /\ client[c].pc = "joining" => client[c].run = sequenceThread_
    /\ client[c].pc \in {"stopIdle", "stopNotify"} => \A r \in Runs : ~Live(r)

OrderInv == Controlling /\ Begun /\ LastIsLive /\ StopWaits

\* what is InProgress is being executed
Executed == \A t \in Targets : status[t] = "InProgress" =>
              \E r \in Runs : thread[r] = At("executing", t)

\* a step loads a sequence from the database, and with it a state_, only at rest
LoadsAtRest == LoadFromDatabase => \A r \in Runs : ~Live(r)

\* a thread that is about to use a target has one
Pointing == \A r \in Runs : thread[r].pc \in {"picked", "start", "executing", "account"}
                              => thread[r].target # Freed

\* A step of a sequence thread moves that thread only.  It goes on walking the
\* targets, or stores Idle and ends the walk, or is past it.
LEMMA ThreadEffect ==
  ASSUME TypeOK, NEW r \in Runs, ThreadStep(r)
  PROVE  /\ UNCHANGED <<client, started, sequenceThread_>>
         /\ \A q \in Runs : q # r => thread'[q] = thread[q]
         /\ \/ Active(r) /\ Active(r)' /\ UNCHANGED state_
            \/ Active(r) /\ thread'[r].pc = "notifying" /\ state_' = "Idle"
            \/ thread[r].pc = "notifying" /\ thread'[r].pc = "done" /\ UNCHANGED state_
<1> USE DEF TypeOK, ThreadState, Active
<1>1. CASE GetNextExecutableTarget(r)
  <2>1. PICK x \in {At("ending", Freed)} \cup {At("picked", t) : t \in Targets} :
          thread' = [thread EXCEPT ![r] = x]
    BY <1>1 DEF GetNextExecutableTarget, Executable
  <2>2. x.pc \in {"ending", "picked"}
    BY <2>1
  <2>3. QED
    BY <1>1, <2>1, <2>2 DEF GetNextExecutableTarget
<1>2. CASE CheckStopping(r)
  BY <1>2 DEF CheckStopping
<1>3. CASE StartTarget(r)
  <2>1. PICK pc \in {"executing", "account"} :
          thread' = [thread EXCEPT ![r] = At(pc, thread[r].target)]
    BY <1>3 DEF StartTarget
  <2>2. QED
    BY <1>3, <2>1 DEF StartTarget
<1>4. CASE FinishTarget(r)
  BY <1>4 DEF FinishTarget
<1>5. CASE AccountTarget(r)
  BY <1>5 DEF AccountTarget
<1>6. CASE UseAfterFree(r)
  BY <1>6 DEF UseAfterFree
<1>7. CASE EndSequence(r)
  BY <1>7 DEF EndSequence, BackToIdle
<1>8. CASE NotifySequenceEnd(r)
  BY <1>8 DEF NotifySequenceEnd
<1>9. QED
  BY <1>1, <1>2, <1>3, <1>4, <1>5, <1>6, <1>7, <1>8 DEF ThreadStep

EditStep == \/ Edit
            \/ Pause \/ SetSchedulingStrategy
            \/ SaveSequence \/ LoadSequence
            \/ SaveToDatabase \/ LoadFromDatabase \/ DeleteFromDatabase

\* Editing, pausing, saving and loading leave threads where they are, and all but
\* the load from the database leave an Idle sequence Idle, and no other.
LEMMA EditEffect ==
  ASSUME TypeOK, EditStep
  PROVE  /\ UNCHANGED <<client, started, sequenceThread_>>
         /\ \A r \in Runs : thread'[r].pc = thread[r].pc
         /\ ~LoadFromDatabase => (state_' = "Idle" <=> state_ = "Idle")
<1>1. UNCHANGED <<client, started>> /\ \A r \in Runs : thread'[r].pc = thread[r].pc
  BY EditFrame DEF EditStep
<1>2. UNCHANGED sequenceThread_ /\ (~LoadFromDatabase => (state_' = "Idle" <=> state_ = "Idle"))
  BY DEF EditStep, Edit, AddTarget, RemoveTarget, ModifyTarget, AddTargetDependency,
     RemoveTargetDependency, Pause, SetSchedulingStrategy, SaveSequence,
     LoadSequence, SaveToDatabase, LoadFromDatabase, DeleteFromDatabase
<1>3. QED
  BY <1>1, <1>2

\* the step makes nothing InProgress, and moves no thread that executes what still is
KeepsExecuting ==
  \A t \in Targets : status'[t] = "InProgress" =>
    /\ status[t] = "InProgress"
    /\ \A q \in Runs : thread[q].pc = "executing" /\ thread[q].target = t
                         => thread'[q] = thread[q]

\* Such a step leaves what is InProgress in the hands of a thread.
LEMMA ExecutedKept == ASSUME Executed, KeepsExecuting PROVE Executed'
<1> SUFFICES ASSUME NEW t \in Targets, status'[t] = "InProgress"
             PROVE  \E q \in Runs : thread'[q] = At("executing", t)
  BY DEF Executed
<1>1. PICK q \in Runs : thread[q] = At("executing", t)
  BY DEF Executed, KeepsExecuting
<1>2. thread'[q] = thread[q]
  BY <1>1 DEF KeepsExecuting
<1>3. QED
  BY <1>1, <1>2

\* What is InProgress stays in the hands of the thread that executes it.
LEMMA ExecutedStep ==
  ASSUME TypeOK, Ownership, LastIsLive, Executed, [Next]_vars, [~LoadFromDatabase]_vars
  PROVE  Executed'
<1> USE DEF Executed
<1>1. ASSUME NEW r \in Runs, ThreadStep(r) PROVE Executed'
  <2> USE DEF TypeOK, ThreadState
  <2>1. \A q \in Runs : q # r => thread'[q] = thread[q]
    BY <1>1, ThreadEffect
  <2>2. CASE StartTarget(r)
    <3> SUFFICES ASSUME NEW t \in Targets, status'[t] = "InProgress"
                 PROVE  \E q \in Runs : thread'[q] = At("executing", t)
      OBVIOUS
    <3>1. CASE thread[r].target = t
      <4>1. thread'[r] = At("executing", t)
        BY <2>2, <3>1 DEF StartTarget, SkipTarget
      <4>2. QED
        BY <4>1
    <3>2. CASE thread[r].target # t
      <4>1. status[t] = "InProgress" /\ thread[r].pc = "start"
        BY <2>2, <3>2 DEF StartTarget, SkipTarget
      <4>2. PICK q \in Runs : thread[q] = At("executing", t)
        BY <4>1
      <4>3. q # r
        BY <4>1, <4>2
      <4>4. QED
        BY <2>1, <4>2, <4>3
    <3>3. QED
      BY <3>1, <3>2
  <2>3. CASE FinishTarget(r)
    <3> SUFFICES ASSUME NEW t \in Targets, status'[t] = "InProgress"
                 PROVE  FALSE
      OBVIOUS
    <3>1. t # thread[r].target /\ status[t] = "InProgress" /\ thread[r].pc = "executing"
      BY <2>3 DEF FinishTarget
    <3>2. PICK q \in Runs : thread[q] = At("executing", t)
      BY <3>1
    <3>3. q = started /\ r = started
      BY <3>1, <3>2 DEF LastIsLive, Live, Active
    <3>4. QED
      BY <3>1, <3>2, <3>3
  <2>4. CASE UseAfterFree(r)
    BY <2>4 DEF UseAfterFree
  <2>5. CASE ~StartTarget(r) /\ ~FinishTarget(r) /\ ~UseAfterFree(r)
    <3>1. UNCHANGED status /\ thread[r].pc # "executing"
      BY <1>1, <2>5 DEF ThreadStep, GetNextExecutableTarget, CheckStopping, AccountTarget,
         EndSequence, NotifySequenceEnd
    <3>2. KeepsExecuting
      BY <2>1, <3>1 DEF KeepsExecuting
    <3>3. QED
      BY <3>2, ExecutedKept
  <2>6. QED
    BY <2>2, <2>3, <2>4, <2>5
<1>2. ASSUME NEW c \in Clients, CallStep(c) PROVE Executed'
  <2>1. CASE ExecuteSpawn(c)
    <3>1. thread[client[c].run].pc = "created" /\ UNCHANGED status
          /\ thread' = [thread EXCEPT ![client[c].run] = At("pick", Freed)]
      BY <2>1 DEF ExecuteSpawn, Ownership, StartingOwns, Starting
    <3>2. \A q \in Runs : thread[q].pc = "executing" => thread'[q] = thread[q]
      BY <3>1 DEF TypeOK
    <3>3. KeepsExecuting
      BY <3>1, <3>2 DEF KeepsExecuting
    <3>4. QED
      BY <3>3, ExecutedKept
  <2>2. CASE SetFailed(c)
    <3>1. \A t \in Targets : status'[t] = "InProgress" => status[t] = "InProgress"
      BY <2>2 DEF SetFailed, SetNamed, TypeOK
    <3>2. UNCHANGED thread
      BY <2>2 DEF SetFailed
    <3>3. QED
      BY <3>1, <3>2
  <2>3. CASE ~ExecuteSpawn(c) /\ ~SetFailed(c)
    BY <1>2, <2>3 DEF CallStep, ExecuteReset, JoinOld, StopStore, StopJoin, StopJoined,
       StopIdle, StopReturn
  <2>4. QED
    BY <2>1, <2>2, <2>3
<1>3. ASSUME NEW c \in Clients, ExecuteAll(c) PROVE Executed'
  <2>1. \A q \in Runs : thread[q].pc = "executing" => thread'[q] = thread[q]
    BY <1>3 DEF ExecuteAll, TypeOK, Ownership, Unstarted
  <2>2. KeepsExecuting
    BY <1>3, <2>1 DEF ExecuteAll, KeepsExecuting
  <2>3. QED
    BY <2>2, ExecutedKept
<1>4. ASSUME NEW c \in Clients, Stop(c) \/ TakeFailed(c) PROVE Executed'
  BY <1>4 DEF Stop, TakeFailed
<1>5. CASE EditStep
  <2> USE DEF TypeOK, ThreadState, Dangle
  <2>1. ASSUME NEW t \in Targets, AddTarget(t) PROVE Executed'
    BY <2>1 DEF AddTarget
  <2>2. ASSUME NEW t \in Targets, RemoveTarget(t) PROVE Executed'
    <3>1. \A u \in Targets : status'[u] = "InProgress" => u # t /\ status[u] = "InProgress"
      BY <2>2 DEF RemoveTarget
    <3>2. \A q \in Runs : thread[q].target # t => thread'[q] = thread[q]
      BY <2>2 DEF RemoveTarget
    <3>3. KeepsExecuting
      BY <3>1, <3>2 DEF KeepsExecuting
    <3>4. QED
      BY <3>3, ExecutedKept
  <2>3. CASE LoadSequence
    BY <2>3 DEF LoadSequence
  <2>4. ~LoadFromDatabase
    BY DEF LoadFromDatabase, vars
  <2>5. CASE /\ ~LoadSequence /\ ~LoadFromDatabase
             /\ ~SetSchedulingStrategy /\ \A t \in Targets : ~AddTarget(t) /\ ~RemoveTarget(t)
    BY <1>5, <2>5 DEF EditStep, Edit, ModifyTarget, AddTargetDependency,
       RemoveTargetDependency, Pause, SaveSequence, SaveToDatabase, DeleteFromDatabase
  <2>6. CASE SetSchedulingStrategy
    <3>1. CASE ReorderTargetsByDependencies
      <4>1. PICK kept \in SUBSET Targets : Keep(kept)
        BY <3>1 DEF ReorderTargetsByDependencies
      <4>2. \A u \in Targets : status'[u] = "InProgress" => u \in kept /\ status[u] = "InProgress"
        BY <4>1 DEF Keep
      <4>3. \A q \in Runs : thread[q].target \in kept => thread'[q] = thread[q]
        BY <4>1 DEF Keep
      <4>4. KeepsExecuting
        BY <4>2, <4>3 DEF KeepsExecuting
      <4>5. QED
        BY <4>4, ExecutedKept
    <3>2. CASE ReorderTargetsByPriority
      BY <3>2 DEF ReorderTargetsByPriority
    <3>3. QED
      BY <2>6, <3>1, <3>2 DEF SetSchedulingStrategy
  <2>7. QED
    BY <2>1, <2>2, <2>3, <2>4, <2>5, <2>6
<1>6. CASE Crash
  BY <1>6 DEF Crash, Nothing
<1>7. CASE UNCHANGED vars
  BY <1>7 DEF vars
<1>8. QED
  BY <1>1, <1>2, <1>3, <1>4, <1>5, <1>6, <1>7, SequencerAssumption DEF Next, EditStep

\* With one controller, and no load from the database while a run is live, executeAll,
\* stop and the threads keep each other in order.
LEMMA OrderStep ==
  ASSUME OneController, TypeOK, Ownership, OrderInv, [Next]_vars, [LoadsAtRest]_vars
  PROVE  OrderInv'
<1> USE DEF OrderInv, Controlling, Begun, LastIsLive, StopWaits, Live
<1>1. LoadsAtRest
  BY DEF LoadsAtRest, LoadFromDatabase, TypeOK, vars
<1>2. ASSUME NEW r \in Runs, ThreadStep(r) PROVE OrderInv'
  <2> USE DEF Active
  <2>1. Controlling'
    BY <1>2, ThreadEffect
  <2>2. Begun'
    BY <1>2, ThreadEffect
  <2>3. LastIsLive'
    BY <1>2, ThreadEffect
  <2>4. StopWaits'
    BY <1>2, ThreadEffect
  <2>5. QED
    BY <2>1, <2>2, <2>3, <2>4
<1>3. CASE EditStep
  <2>1. CASE LoadFromDatabase
    BY <1>1, <1>3, <2>1, EditEffect DEF Active, LoadsAtRest
  <2>2. CASE ~LoadFromDatabase
    BY <1>3, <2>2, EditEffect DEF Active
  <2>3. QED
    BY <2>1, <2>2
<1>4. ASSUME NEW c \in Clients, CallStep(c) PROVE OrderInv'
  <2> USE DEF TypeOK, ClientState, ThreadState, Active
  <2>1. CASE ExecuteReset(c)
    BY <2>1 DEF ExecuteReset
  <2>2. CASE ExecuteSpawn(c)
    <3>1. /\ client'[c].pc \in {"idle", "joinOld"} /\ client'[c].before = {}
          /\ \A d \in Clients : d # c => client'[d] = client[d]
      <4>1. CASE sequenceThread_ = NoRun
        BY <2>2, <4>1 DEF ExecuteSpawn
      <4>2. CASE sequenceThread_ # NoRun
        <5>1. client' = [client EXCEPT ![c] = Calling("joinOld", sequenceThread_, <<>>, {})]
          BY <2>2, <4>2 DEF ExecuteSpawn
        <5>2. QED
          BY <5>1
      <4>3. QED
        BY <4>1, <4>2
    <3>2. /\ client[c].run \in Runs /\ thread[client[c].run].pc = "created"
          /\ thread' = [thread EXCEPT ![client[c].run] = At("pick", Freed)]
          /\ sequenceThread_' = client[c].run /\ UNCHANGED <<started, state_>>
      BY <2>2 DEF ExecuteSpawn, Ownership, StartingOwns, Starting
    <3>3. c \in Controllers /\ \A d \in Clients : client[d].pc \in {"joining", "stopIdle", "stopNotify"} => d = c
      BY <2>2 DEF ExecuteSpawn, OneController
    <3>4. Controlling' /\ Begun'
      BY <3>1, <3>2, <3>3
    <3>5. client[c].run = started /\ state_ # "Idle"
      BY <3>2
    <3>6. LastIsLive'
      BY <3>2, <3>5
    <3>7. StopWaits'
      <4>1. client[c].pc = "spawn"
        BY <2>2 DEF ExecuteSpawn
      <4>2. \A d \in Clients : client'[d].pc \notin {"joining", "stopIdle", "stopNotify"}
        BY <3>1, <3>3, <4>1
      <4>3. QED
        BY <4>2
    <3>8. QED
      BY <3>4, <3>6, <3>7
  <2>3. CASE JoinOld(c)
    BY <2>3 DEF JoinOld
  <2>4. CASE StopStore(c)
    BY <2>4 DEF StopStore
  <2>5. CASE StopJoin(c)
    <3>1. PICK y : /\ client' = [client EXCEPT ![c] = y]
                   /\ y.pc \in {"idle", "joining", "stopIdle"}
                   /\ y.before \subseteq client[c].before
                   /\ y.pc = "joining" => y.run = sequenceThread_
                   /\ y.pc = "stopIdle" => sequenceThread_ = NoRun
      BY <2>5 DEF StopJoin
    <3>2. UNCHANGED <<thread, started, state_, sequenceThread_>> /\ client[c].pc = "stopJoin"
      BY <2>5 DEF StopJoin
    <3>3. c \in Controllers
      BY <3>2
    <3>4. \A r \in Runs : thread[r].pc # "created"
      BY <3>2, <3>3 DEF Ownership, CreatedOwned, Starting, OneController
    <3>5. sequenceThread_ = NoRun => \A r \in Runs : ~Live(r)
      BY <3>4
    <3>6. QED
      BY <3>1, <3>2, <3>3, <3>5
  <2>6. CASE StopJoined(c)
    <3>1. c \in Controllers /\ client[c].run = sequenceThread_ /\ client[c].pc = "joining"
          /\ thread[sequenceThread_].pc = "done"
      BY <2>6 DEF StopJoined
    <3>2. \A r \in Runs : thread[r].pc # "created"
      <4>1. \A d \in Clients : ~Starting(d)
        BY <3>1 DEF Starting, OneController
      <4>2. QED
        BY <4>1 DEF Ownership, CreatedOwned
    <3>3. \A r \in Runs : ~Live(r)
      BY <3>1, <3>2
    <3>4. \A d \in Clients : client[d].pc = "joining" => d = c
      BY <3>1 DEF OneController
    <3>5. QED
      BY <2>6, <3>1, <3>3, <3>4 DEF StopJoined
  <2>7. CASE StopIdle(c)
    BY <2>7 DEF StopIdle
  <2>8. CASE StopReturn(c)
    BY <2>8 DEF StopReturn
  <2>9. CASE SetFailed(c)
    BY <2>9 DEF SetFailed
  <2>10. QED
    BY <1>4, <2>1, <2>2, <2>3, <2>4, <2>5, <2>6, <2>7, <2>8, <2>9 DEF CallStep
<1>5. ASSUME NEW c \in Controllers, ExecuteAll(c) PROVE OrderInv'
  <2> USE SequencerAssumption DEF TypeOK, ClientState, ThreadState, Active
  <2>1. /\ c \in Clients /\ client[c].pc = "idle" /\ state_ = "Idle" /\ state_' = "Running"
        /\ started' = started + 1 /\ started' \in Runs
        /\ thread' = [thread EXCEPT ![started'] = At("created", Freed)]
        /\ client' = [client EXCEPT ![c] = Calling("reset", started', <<>>, {})]
        /\ UNCHANGED sequenceThread_
    BY <1>5 DEF ExecuteAll
  <2>2. \A r \in Runs : ~Live(r)
    BY <2>1
  <2>3. Controlling' /\ Begun'
    BY <2>1
  <2>4. LastIsLive'
    BY <2>1, <2>2
  <2>5. StopWaits'
    <3>1. \A d \in Clients : client[d].pc \in {"stopIdle", "stopNotify"} => d = c
      BY <2>1 DEF OneController
    <3>2. QED
      BY <2>1, <3>1
  <2>6. QED
    BY <2>3, <2>4, <2>5
<1>6. ASSUME NEW c \in Controllers, Stop(c) PROVE OrderInv'
  BY <1>6, SequencerAssumption DEF Stop, TypeOK, ClientState, Active
<1>7. ASSUME NEW c \in Clients, TakeFailed(c) PROVE OrderInv'
  <2>1. /\ client'[c].pc \in {"retrying", "skipping"} /\ client'[c].before = {}
        /\ \A d \in Clients : d # c => client'[d] = client[d]
        /\ UNCHANGED <<thread, started, state_, sequenceThread_>>
    BY <1>7 DEF TakeFailed, TypeOK, ClientState
  <2>2. Controlling' /\ Begun'
    BY <2>1
  <2>3. LastIsLive' /\ StopWaits'
    BY <2>1 DEF Active
  <2>4. QED
    BY <2>2, <2>3
<1>8. CASE Crash
  BY <1>8, SequencerAssumption DEF Crash, Active
<1>9. CASE UNCHANGED vars
  BY <1>9 DEF vars, Active
<1>10. QED
  BY <1>2, <1>3, <1>4, <1>5, <1>6, <1>7, <1>8, <1>9, SequencerAssumption DEF Next, EditStep

\* In every reachable state one controller's runs follow one another.
THEOREM RunsFollow ==
  ASSUME OneController PROVE Spec /\ [][LoadsAtRest]_vars => []OrderInv
<1>1. Init => OrderInv
  BY DEF Init, OrderInv, Controlling, Begun, LastIsLive, StopWaits, Live, Active
<1>2. TypeOK /\ Ownership /\ OrderInv /\ [Next]_vars /\ [LoadsAtRest]_vars => OrderInv'
  BY OrderStep
<1>3. QED
  BY <1>1, <1>2, Typing, Owned, PTL DEF Spec

\* When stop() returns to its one caller, every run begun before it was called
\* has ended its walk over the targets, whatever others edit, pause, retry or
\* load meanwhile, a load from the database during a run excepted.
THEOREM StopEndsRuns ==
  ASSUME OneController PROVE Spec /\ [][LoadsAtRest]_vars => []StopStops
<1>1. TypeOK /\ OrderInv => StopStops
  <2> SUFFICES ASSUME TypeOK, OrderInv,
                      NEW c \in Clients, client[c].pc = "stopNotify",
                      NEW r \in client[c].before
               PROVE  thread[r].pc \in {"notifying", "done"}
    BY DEF StopStops
  <2>1. r \in Runs /\ r <= started
    BY DEF OrderInv, Begun, TypeOK, ClientState
  <2>2. thread[r].pc # "none" /\ ~Live(r)
    BY <2>1 DEF OrderInv, Begun, StopWaits
  <2>3. thread[r].pc \in ThreadPc
    BY <2>1 DEF TypeOK, ThreadState
  <2>4. QED
    BY <2>2, <2>3 DEF ThreadPc, Live, Active
<1>2. QED
  BY <1>1, Typing, RunsFollow, PTL

\* One thread at a time walks the targets, and what is InProgress is being
\* executed by it, for one controller and any number of callers of the rest, in a
\* behaviour without a load from the database.
THEOREM SingleRun ==
  ASSUME OneController PROVE Spec /\ [][~LoadFromDatabase]_vars => []OneRunAtATime
<1>1. OrderInv /\ Executed => OneRunAtATime
  BY DEF OrderInv, LastIsLive, Live, Executed, OneRunAtATime
<1>2. Init => Executed
  BY DEF Init, Executed
<1>3. TypeOK /\ Ownership /\ OrderInv /\ Executed /\ [Next]_vars /\ [~LoadFromDatabase]_vars
        => Executed'
  BY ExecutedStep DEF OrderInv
<1>4. [~LoadFromDatabase]_vars => [LoadsAtRest]_vars
  BY DEF LoadsAtRest
<1>5. Spec /\ [][LoadsAtRest]_vars => []OrderInv
  BY RunsFollow
<1>6. QED
  BY <1>1, <1>2, <1>3, <1>4, <1>5, Typing, Owned, PTL DEF Spec

-----------------------------------------------------------------------------
(* The life of a sequence *)

\* a run that is live while stop() waits finds Stopping when it looks
Heeded ==
  \A c \in Clients : client[c].pc \in {"stopJoin", "joining"} =>
    \A r \in Runs : Live(r) => state_ = "Stopping"

\* Neither pause and resume nor a run that begins take Stopping back from a run that
\* is still to see it.
LEMMA HeededStep ==
  ASSUME OneController, TypeOK, Ownership, OrderInv, Heeded, [Next]_vars, [LoadsAtRest]_vars
  PROVE  Heeded'
<1> USE DEF Heeded, Live
<1>1. ASSUME NEW r \in Runs, ThreadStep(r) PROVE Heeded'
  <2>1. \A q \in Runs : Live(q) => q = started
    BY DEF OrderInv, LastIsLive
  <2>2. UNCHANGED <<client, started>>
    BY <1>1, ThreadEffect
  <2>3. CASE UNCHANGED state_
    BY <1>1, <2>2, <2>3, ThreadEffect DEF Active
  <2>4. CASE Active(r) /\ thread'[r].pc = "notifying"
    BY <1>1, <2>1, <2>4, ThreadEffect DEF Active
  <2>5. QED
    BY <1>1, <2>3, <2>4, ThreadEffect
<1>2. CASE EditStep
  <2>1. LoadFromDatabase \/ (state_ = "Stopping" => state_' = "Stopping")
    BY <1>2 DEF EditStep, Edit, AddTarget, RemoveTarget, ModifyTarget, AddTargetDependency,
       RemoveTargetDependency, Pause, SetSchedulingStrategy, SaveSequence,
       LoadSequence, SaveToDatabase, LoadFromDatabase, DeleteFromDatabase
  <2>2. LoadsAtRest
    BY DEF LoadsAtRest, LoadFromDatabase, TypeOK, vars
  <2>3. QED
    BY <1>2, <2>1, <2>2, EditEffect DEF Active, LoadsAtRest
<1>3. ASSUME NEW c \in Clients, CallStep(c) PROVE Heeded'
  <2> USE DEF TypeOK, ClientState
  <2>1. CASE ExecuteReset(c)
    BY <2>1 DEF ExecuteReset, Active
  <2>2. CASE ExecuteSpawn(c)
    <3>0. c \in Controllers /\ client[c].pc = "spawn"
      BY <2>2 DEF ExecuteSpawn, OrderInv, Controlling
    <3>1. \A d \in Clients : client[d].pc \notin {"stopJoin", "joining"}
      BY <3>0 DEF OrderInv, Controlling, OneController
    <3>2. client'[c].pc \in {"idle", "joinOld"}
      <4>1. CASE sequenceThread_ = NoRun
        BY <2>2, <4>1 DEF ExecuteSpawn
      <4>2. CASE sequenceThread_ # NoRun
        <5>1. client' = [client EXCEPT ![c] = Calling("joinOld", sequenceThread_, <<>>, {})]
          BY <2>2, <4>2 DEF ExecuteSpawn
        <5>2. QED
          BY <5>1
      <4>3. QED
        BY <4>1, <4>2
    <3>3. \A d \in Clients : d # c => client'[d] = client[d]
      BY <2>2 DEF ExecuteSpawn
    <3>4. QED
      BY <3>1, <3>2, <3>3
  <2>3. CASE JoinOld(c)
    BY <2>3 DEF JoinOld, Active
  <2>4. CASE StopStore(c)
    BY <2>4 DEF StopStore, Active
  <2>5. CASE StopJoin(c)
    <3>1. client[c].pc = "stopJoin" /\ UNCHANGED <<thread, state_>>
      BY <2>5 DEF StopJoin
    <3>2. \A d \in Clients : d # c => client'[d] = client[d]
      BY <2>5 DEF StopJoin
    <3>3. QED
      BY <3>1, <3>2 DEF Active
  <2>6. CASE StopJoined(c)
    BY <2>6 DEF StopJoined, Active
  <2>7. CASE StopIdle(c)
    <3>1. \A r \in Runs : ~Live(r)
      BY <2>7 DEF StopIdle, OrderInv, StopWaits
    <3>2. QED
      BY <2>7, <3>1 DEF StopIdle, Active
  <2>8. CASE StopReturn(c)
    BY <2>8 DEF StopReturn, Active
  <2>9. CASE SetFailed(c)
    <3>1. client[c].pc \in {"retrying", "skipping"} /\ UNCHANGED <<thread, state_>>
      BY <2>9 DEF SetFailed
    <3>2. client'[c].pc \in {"retrying", "skipping", "idle"}
      BY <2>9 DEF SetFailed
    <3>3. \A d \in Clients : d # c => client'[d] = client[d]
      BY <2>9 DEF SetFailed
    <3>4. QED
      BY <3>1, <3>2, <3>3 DEF Active
  <2>10. QED
    BY <1>3, <2>1, <2>2, <2>3, <2>4, <2>5, <2>6, <2>7, <2>8, <2>9 DEF CallStep
<1>4. ASSUME NEW c \in Controllers, ExecuteAll(c) PROVE Heeded'
  <2> USE SequencerAssumption DEF TypeOK, ClientState
  <2>1. \A d \in Clients : client[d].pc \notin {"stopJoin", "joining"}
    BY <1>4 DEF ExecuteAll, OrderInv, Controlling, OneController
  <2>2. QED
    BY <1>4, <2>1 DEF ExecuteAll
<1>5. ASSUME NEW c \in Controllers, Stop(c) PROVE Heeded'
  BY <1>5, SequencerAssumption DEF Stop, TypeOK, ClientState, Active
<1>6. ASSUME NEW c \in Clients, TakeFailed(c) PROVE Heeded'
  <2>1. /\ client'[c].pc \in {"retrying", "skipping"} /\ UNCHANGED <<thread, state_>>
        /\ \A d \in Clients : d # c => client'[d] = client[d]
    BY <1>6 DEF TakeFailed, TypeOK, ClientState
  <2>2. QED
    BY <2>1 DEF Active
<1>7. CASE Crash
  BY <1>7 DEF Crash
<1>8. CASE UNCHANGED vars
  BY <1>8 DEF vars, Active
<1>9. QED
  BY <1>1, <1>2, <1>3, <1>4, <1>5, <1>6, <1>7, <1>8, SequencerAssumption DEF Next, EditStep

\* A step that moves one thread, from one stage to another, is a step of its run.
LEMMA PassMapped ==
  ASSUME NEW r \in Runs, NEW from, NEW to,
         StageAt(thread[r].pc) = from, StageAt(thread'[r].pc) = to,
         \A q \in Runs : q # r => thread'[q] = thread[q],
         UNCHANGED <<client, started>>
  PROVE  Life!Pass(r, from, to)
  BY DEF Life!Pass

\* A step that takes one client, inside stop(), from one stage to another is a step of
\* its call.
LEMMA SayMapped ==
  ASSUME NEW c \in Clients, NEW from, NEW to,
         StopAt(client[c].pc) = from, StopAt(client'[c].pc) = to,
         \A d \in Clients : d # c => client'[d] = client[d],
         UNCHANGED <<thread, started>>
  PROVE  Life!Say(c, from, to)
  BY DEF Life!Say

\* A step that moves nobody from one stage to another is not seen.
LEMMA Unseen ==
  ASSUME \A r \in Runs : StageAt(thread'[r].pc) = StageAt(thread[r].pc),
         \A c \in Clients : StopAt(client'[c].pc) = StopAt(client[c].pc),
         UNCHANGED started
  PROVE  UNCHANGED Life!lifeVars
  BY DEF Life!lifeVars

\* No run is under way exactly when none is live.
LEMMA QuietIsNotLive ==
  ASSUME TypeOK PROVE Life!Quiet <=> \A r \in Runs : ~Live(r)
<1>1. \A r \in Runs : StageAt(thread[r].pc) = "over" <=> ~Live(r)
  BY DEF TypeOK, ThreadState, ThreadPc, StageAt, Live, Active
<1>2. QED
  BY <1>1 DEF Life!Quiet

\* A step of the sequence thread is one step of its run, or none.
LEMMA LifeThread ==
  ASSUME OneController, TypeOK, OrderInv, Heeded, NEW r \in Runs, ThreadStep(r)
  PROVE  Life!Walk(r) \/ UNCHANGED Life!lifeVars
<1> USE DEF TypeOK, ThreadState
<1>1. /\ UNCHANGED <<client, started>>
      /\ \A q \in Runs : q # r => thread'[q] = thread[q]
  BY ThreadEffect
<1>2. ASSUME StageAt(thread'[r].pc) = StageAt(thread[r].pc) PROVE UNCHANGED Life!lifeVars
  BY <1>1, <1>2, Unseen
<1>3. CASE GetNextExecutableTarget(r)
  <2>1. PICK x \in {At("ending", Freed)} \cup {At("picked", t) : t \in Targets} :
          thread' = [thread EXCEPT ![r] = x]
    BY <1>3 DEF GetNextExecutableTarget, Executable
  <2>2. thread[r].pc = "pick" /\ thread'[r].pc \in {"ending", "picked"}
    BY <1>3, <2>1 DEF GetNextExecutableTarget
  <2>3. QED
    BY <1>2, <2>2 DEF StageAt
<1>4. CASE CheckStopping(r)
  <2>1. CASE Stopping
    <3>1. thread[r].pc = "picked" /\ thread'[r].pc = "ending"
      BY <1>4, <2>1 DEF CheckStopping
    <3>2. QED
      BY <1>2, <3>1 DEF StageAt
  <2>2. CASE ~Stopping
    <3>1. thread[r].pc = "picked" /\ thread'[r].pc = "start"
      BY <1>4, <2>2 DEF CheckStopping
    <3>2. \A c \in Clients : StopAt(client[c].pc) # "heard"
      BY <2>2, <3>1 DEF Heeded, Live, Active, Stopping, StopAt
    <3>3. Life!Pass(r, "between", "committed")
      BY <1>1, <3>1, PassMapped DEF StageAt
    <3>4. QED
      BY <3>2, <3>3 DEF Life!Commit, Life!Walk
  <2>3. QED
    BY <2>1, <2>2
<1>5. CASE StartTarget(r)
  <2>1. PICK pc \in {"executing", "account"} :
          thread' = [thread EXCEPT ![r] = At(pc, thread[r].target)]
    BY <1>5 DEF StartTarget
  <2>2. thread[r].pc = "start" /\ thread'[r].pc = pc
    BY <1>5, <2>1 DEF StartTarget
  <2>3. Life!Pass(r, "committed", "executing") \/ Life!Pass(r, "committed", "settling")
    BY <1>1, <2>1, <2>2, PassMapped DEF StageAt
  <2>4. QED
    BY <2>3 DEF Life!Execute, Life!Skip, Life!Walk
<1>6. CASE FinishTarget(r)
  <2>1. thread[r].pc = "executing" /\ thread'[r].pc = "account"
    BY <1>6 DEF FinishTarget
  <2>2. Life!Pass(r, "executing", "settling")
    BY <1>1, <2>1, PassMapped DEF StageAt
  <2>3. QED
    BY <2>2 DEF Life!Finish, Life!Walk
<1>7. CASE AccountTarget(r)
  <2>1. thread[r].pc = "account" /\ thread'[r].pc = "pick"
    BY <1>7 DEF AccountTarget
  <2>2. Life!Pass(r, "settling", "between")
    BY <1>1, <2>1, PassMapped DEF StageAt
  <2>3. QED
    BY <2>2 DEF Life!Settle, Life!Walk
<1>8. CASE UseAfterFree(r)
  BY <1>2, <1>8 DEF UseAfterFree
<1>9. CASE EndSequence(r)
  <2>1. thread[r].pc = "ending" /\ thread'[r].pc = "notifying"
    BY <1>9 DEF EndSequence
  <2>2. Life!Pass(r, "between", "over")
    BY <1>1, <2>1, PassMapped DEF StageAt
  <2>3. QED
    BY <2>2 DEF Life!End, Life!Walk
<1>10. CASE NotifySequenceEnd(r)
  <2>1. thread[r].pc = "notifying" /\ thread'[r].pc = "done"
    BY <1>10 DEF NotifySequenceEnd
  <2>2. QED
    BY <1>2, <2>1 DEF StageAt
<1>11. QED
  BY <1>3, <1>4, <1>5, <1>6, <1>7, <1>8, <1>9, <1>10 DEF ThreadStep

\* A step of a call is one step of stop(), or none.
LEMMA LifeCall ==
  ASSUME OneController, TypeOK, Ownership, OrderInv, OrderInv', NEW c \in Clients, CallStep(c)
  PROVE  Life!StopCall(c) \/ UNCHANGED Life!lifeVars
<1> USE DEF TypeOK, ClientState
<1>1. /\ UNCHANGED started
      /\ \A d \in Clients : d # c => client'[d] = client[d]
  BY DEF CallStep, ExecuteReset, ExecuteSpawn, JoinOld, StopStore, StopJoin, StopJoined,
     StopIdle, StopReturn, SetFailed
<1>2. ASSUME UNCHANGED thread, StopAt(client'[c].pc) = StopAt(client[c].pc)
      PROVE  UNCHANGED Life!lifeVars
  BY <1>1, <1>2, Unseen
<1>3. ASSUME UNCHANGED thread, client[c].pc \in {"stopJoin", "joining"},
             client'[c].pc = "stopIdle"
      PROVE  Life!StopCall(c)
  <2>1. \A r \in Runs : ~Live(r)
    BY <1>3 DEF OrderInv, StopWaits, Live, Active
  <2>2. Life!Quiet
    BY <2>1, QuietIsNotLive
  <2>3. Life!Say(c, "heard", "answered")
    BY <1>1, <1>3, SayMapped DEF StopAt
  <2>4. QED
    BY <2>2, <2>3 DEF Life!Answer, Life!StopCall
<1>4. CASE ExecuteReset(c)
  <2>1. UNCHANGED thread /\ client[c].pc = "reset" /\ client'[c].pc = "spawn"
    BY <1>4 DEF ExecuteReset
  <2>2. QED
    BY <1>2, <2>1 DEF StopAt
<1>5. CASE ExecuteSpawn(c)
  <2>1. client[c].pc = "spawn" /\ client'[c].pc \in {"idle", "joinOld"}
    <3>1. CASE sequenceThread_ = NoRun
      BY <1>5, <3>1 DEF ExecuteSpawn
    <3>2. CASE sequenceThread_ # NoRun
      <4>1. client' = [client EXCEPT ![c] = Calling("joinOld", sequenceThread_, <<>>, {})]
        BY <1>5, <3>2 DEF ExecuteSpawn
      <4>2. QED
        BY <1>5, <4>1 DEF ExecuteSpawn
    <3>3. QED
      BY <3>1, <3>2
  <2>2. /\ client[c].run \in Runs /\ thread[client[c].run].pc = "created"
        /\ thread' = [thread EXCEPT ![client[c].run] = At("pick", Freed)]
    BY <1>5 DEF ExecuteSpawn, Ownership, StartingOwns, Starting
  <2>3. \A r \in Runs : StageAt(thread'[r].pc) = StageAt(thread[r].pc)
    BY <2>2 DEF StageAt, ThreadState
  <2>4. StopAt(client'[c].pc) = StopAt(client[c].pc)
    BY <2>1 DEF StopAt
  <2>5. QED
    BY <1>1, <2>3, <2>4, Unseen
<1>6. CASE JoinOld(c)
  <2>1. UNCHANGED thread /\ client[c].pc = "joinOld" /\ client'[c].pc = "idle"
    BY <1>6 DEF JoinOld
  <2>2. QED
    BY <1>2, <2>1 DEF StopAt
<1>7. CASE StopStore(c)
  <2>1. UNCHANGED thread /\ client[c].pc = "stopStore" /\ client'[c].pc = "stopJoin"
    BY <1>7 DEF StopStore
  <2>2. Life!Say(c, "asked", "heard")
    BY <1>1, <2>1, SayMapped DEF StopAt
  <2>3. QED
    BY <2>2 DEF Life!Hear, Life!StopCall
<1>8. CASE StopJoin(c)
  <2>1. UNCHANGED thread /\ client[c].pc = "stopJoin"
    BY <1>8 DEF StopJoin
  <2>2. \A d \in Clients : client[d].pc # "joining"
    BY <2>1 DEF OrderInv, Controlling, OneController
  <2>3. client'[c].pc \in {"stopIdle", "joining"}
    BY <1>8, <2>2 DEF StopJoin
  <2>4. QED
    BY <1>2, <1>3, <2>1, <2>3 DEF StopAt
<1>9. CASE StopJoined(c)
  <2>1. UNCHANGED thread /\ client[c].pc = "joining" /\ client'[c].pc = "stopIdle"
    BY <1>9 DEF StopJoined
  <2>2. QED
    BY <1>3, <2>1
<1>10. CASE StopIdle(c)
  <2>1. UNCHANGED thread /\ client[c].pc = "stopIdle" /\ client'[c].pc = "stopNotify"
    BY <1>10 DEF StopIdle
  <2>2. QED
    BY <1>2, <2>1 DEF StopAt
<1>11. CASE StopReturn(c)
  <2>1. UNCHANGED thread /\ client[c].pc = "stopNotify" /\ client'[c].pc = "idle"
    BY <1>11 DEF StopReturn
  <2>2. Life!Quiet
    BY <2>1, QuietIsNotLive DEF OrderInv, StopWaits
  <2>3. Life!Say(c, "answered", "none")
    BY <1>1, <2>1, SayMapped DEF StopAt
  <2>4. QED
    BY <2>2, <2>3 DEF Life!Return, Life!StopCall
<1>12. CASE SetFailed(c)
  <2>1. UNCHANGED thread /\ client[c].pc \in {"retrying", "skipping"}
    BY <1>12 DEF SetFailed
  <2>2. client'[c].pc \in {"retrying", "skipping", "idle"}
    BY <1>12 DEF SetFailed
  <2>3. QED
    BY <1>2, <2>1, <2>2 DEF StopAt
<1>13. QED
  BY <1>4, <1>5, <1>6, <1>7, <1>8, <1>9, <1>10, <1>11, <1>12 DEF CallStep

\* Every step of the sequencer is one step of its life, or none.
LEMMA LifeStep ==
  ASSUME OneController, TypeOK, Ownership, OrderInv, OrderInv', Heeded, [Next]_vars
  PROVE  [Life!LifeNext]_Life!lifeVars
<1> USE DEF Life!LifeNext
<1>1. ASSUME NEW r \in Runs, ThreadStep(r) PROVE [Life!LifeNext]_Life!lifeVars
  BY <1>1, LifeThread
<1>2. ASSUME NEW c \in Clients, CallStep(c) PROVE [Life!LifeNext]_Life!lifeVars
  BY <1>2, LifeCall
<1>3. CASE EditStep
  BY <1>3, EditEffect, Unseen
<1>4. ASSUME NEW c \in Controllers, ExecuteAll(c) PROVE Life!Begin
  <2> USE SequencerAssumption DEF TypeOK, ClientState, ThreadState
  <2>1. /\ c \in Clients /\ client[c].pc = "idle" /\ state_ = "Idle"
        /\ started' = started + 1 /\ started + 1 \in Runs
        /\ thread' = [thread EXCEPT ![started + 1] = At("created", Freed)]
        /\ client' = [client EXCEPT ![c] = Calling("reset", started + 1, <<>>, {})]
    BY <1>4 DEF ExecuteAll
  <2>2. Life!Quiet
    BY <2>1, QuietIsNotLive DEF OrderInv, LastIsLive
  <2>3. \A d \in Clients : StopAt(client[d].pc) = "none"
    BY <2>1 DEF OrderInv, Controlling, OneController, StopAt
  <2>4. \A d \in Clients : StopAt(client'[d].pc) = StopAt(client[d].pc)
    BY <2>1 DEF StopAt
  <2>5. [r \in Runs |-> StageAt(thread'[r].pc)]
          = [[r \in Runs |-> StageAt(thread[r].pc)] EXCEPT ![started + 1] = "between"]
    BY <2>1 DEF StageAt
  <2>6. QED
    BY <2>1, <2>2, <2>3, <2>4, <2>5 DEF Life!Begin
<1>5. ASSUME NEW c \in Controllers, Stop(c) PROVE Life!StopCall(c) /\ c \in Clients
  <2> USE SequencerAssumption DEF TypeOK, ClientState
  <2>1. /\ c \in Clients /\ client[c].pc = "idle"
        /\ client'[c].pc = "stopStore" /\ \A d \in Clients : d # c => client'[d] = client[d]
        /\ UNCHANGED <<thread, started>>
    BY <1>5 DEF Stop
  <2>2. Life!Say(c, "none", "asked")
    BY <2>1, SayMapped DEF StopAt
  <2>3. QED
    BY <2>1, <2>2 DEF Life!Ask, Life!StopCall
<1>6. ASSUME NEW c \in Clients, TakeFailed(c) PROVE UNCHANGED Life!lifeVars
  <2>1. /\ client[c].pc = "idle" /\ client'[c].pc \in {"retrying", "skipping"}
        /\ \A d \in Clients : d # c => client'[d] = client[d]
        /\ UNCHANGED <<thread, started>>
    BY <1>6 DEF TakeFailed, TypeOK, ClientState
  <2>2. \A d \in Clients : StopAt(client'[d].pc) = StopAt(client[d].pc)
    BY <2>1 DEF StopAt
  <2>3. QED
    BY <2>1, <2>2, Unseen
<1>7. CASE Crash
  <2>1. Life!Die
    BY <1>7 DEF Crash, Life!Die, StageAt, StopAt
  <2>2. QED
    BY <2>1
<1>8. CASE UNCHANGED vars
  BY <1>8, Unseen DEF vars
<1>9. QED
  BY <1>1, <1>2, <1>3, <1>4, <1>5, <1>6, <1>7, <1>8, SequencerAssumption DEF Next, EditStep

\* The sequencer of one controller implements SequenceLife, whatever others edit,
\* pause, retry, save or load (from the database: at rest), and across crashes: runs
\* follow one another, no run commits itself to a further target once stop() has
\* stored Stopping, and stop() is answered only when no run is under way.
THEOREM LivesAsPromised ==
  ASSUME OneController PROVE Spec /\ [][LoadsAtRest]_vars => ImplementsLife
<1>1. Init => Life!LifeInit /\ Heeded
  BY DEF Init, Life!LifeInit, Heeded, StageAt, StopAt
<1>2. TypeOK /\ Ownership /\ OrderInv /\ Heeded /\ [Next]_vars /\ [LoadsAtRest]_vars => Heeded'
  BY HeededStep
<1>3. TypeOK /\ Ownership /\ OrderInv /\ OrderInv' /\ Heeded /\ [Next]_vars
        => [Life!LifeNext]_Life!lifeVars
  BY LifeStep
<1>4. Spec /\ [][LoadsAtRest]_vars => []OrderInv
  BY RunsFollow
<1>5. QED
  BY <1>1, <1>2, <1>3, <1>4, Typing, Owned, PTL DEF Spec, ImplementsLife, Life!LifeSpec
=============================================================================
