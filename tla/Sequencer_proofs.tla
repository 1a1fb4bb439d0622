-------------------------- MODULE Sequencer_proofs --------------------------
(* Theorems about Sequencer for any number of targets, clients and runs: types, *)
(* who will bring the sequence back to Idle, what is joined, dependencies.      *)
EXTENDS Sequencer, ListLemmas

USE DEF graph, disk, SequenceUnchanged, ControlUnchanged, Move, Goto, Return,
        At, Calling, Resting, Runs, NoRun

\* The greatest supported set of names is among those marked.
LEMMA SupportedMarked ==
  ASSUME NEW marked, NEW deps PROVE Supported(marked, deps) \subseteq marked
  BY DEF Supported

\* Every step preserves the types.
LEMMA TypingStep == ASSUME TypeOK, [Next]_vars PROVE TypeOK'
<1> USE SequencerAssumption DEF TypeOK, SequenceState, TargetStatus, ThreadPc, ClientPc,
        ThreadState, ClientState
<1> USE DEF Dangle, ListFailure, BackToIdle
<1>1. ASSUME NEW r \in Runs, GetNextExecutableTarget(r) PROVE TypeOK'
  <2>1. PICK x \in {At("ending", Freed)} \cup {At("picked", t) : t \in Targets} :
          thread' = [thread EXCEPT ![r] = x]
    BY <1>1 DEF GetNextExecutableTarget, Executable
  <2>2. x \in ThreadState
    BY <2>1
  <2>3. QED
    BY <1>1, <2>1, <2>2 DEF GetNextExecutableTarget
<1>2. ASSUME NEW r \in Runs, CheckStopping(r) PROVE TypeOK'
  BY <1>2 DEF CheckStopping
<1>3. ASSUME NEW r \in Runs, StartTarget(r) PROVE TypeOK'
  <2>1. CASE thread[r].target \in enabled
    <3>1. status' \in [Targets -> TargetStatus \cup {"None"}]
      BY <1>3, <2>1 DEF StartTarget
    <3>2. thread' = [thread EXCEPT ![r] = At("executing", thread[r].target)]
      BY <1>3, <2>1 DEF StartTarget
    <3>3. At("executing", thread[r].target) \in ThreadState
      OBVIOUS
    <3>4. thread' \in [Runs -> ThreadState]
      BY <3>2, <3>3
    <3>5. QED
      BY <1>3, <3>1, <3>4 DEF StartTarget
  <2>2. CASE thread[r].target \notin enabled
    <3>1. status' \in [Targets -> TargetStatus \cup {"None"}]
      BY <1>3, <2>2 DEF StartTarget, SkipTarget, Alive
    <3>2. thread' = [thread EXCEPT ![r] = At("account", thread[r].target)]
      BY <1>3, <2>2 DEF StartTarget
    <3>3. At("account", thread[r].target) \in ThreadState
      OBVIOUS
    <3>4. thread' \in [Runs -> ThreadState]
      BY <3>2, <3>3
    <3>5. QED
      BY <1>3, <3>1, <3>4 DEF StartTarget
  <2>3. QED
    BY <2>1, <2>2
<1>4. ASSUME NEW r \in Runs, FinishTarget(r) PROVE TypeOK'
  <2>1. status' \in [Targets -> TargetStatus \cup {"None"}]
    BY <1>4 DEF FinishTarget, Alive
  <2>2. thread' \in [Runs -> ThreadState]
    BY <1>4 DEF FinishTarget
  <2>3. QED
    BY <1>4, <2>1, <2>2 DEF FinishTarget
<1>5. ASSUME NEW r \in Runs, AccountTarget(r) PROVE TypeOK'
  <2>1. failedTargetNames_' \in Seq(Names)
    <3>1. thread[r].target \in Targets
      BY <1>5 DEF AccountTarget, Alive
    <3>2. NameOf[thread[r].target] \in Names
      BY <3>1
    <3>3. Append(failedTargetNames_, NameOf[thread[r].target]) \in Seq(Names)
      BY <3>2, AppendProperties
    <3>4. failedTargetNames_' \in {failedTargetNames_, Append(failedTargetNames_, NameOf[thread[r].target])}
      BY <1>5 DEF AccountTarget
    <3>5. QED
      BY <3>3, <3>4
  <2>2. thread' \in [Runs -> ThreadState]
    BY <1>5 DEF AccountTarget
  <2>3. completedTargets_' \in Nat
    BY <1>5 DEF AccountTarget, Counted
  <2>4. QED
    BY <1>5, <2>1, <2>2, <2>3 DEF AccountTarget
<1>6. ASSUME NEW r \in Runs, UseAfterFree(r) PROVE TypeOK'
  BY <1>6 DEF UseAfterFree
<1>7. ASSUME NEW r \in Runs, EndSequence(r) PROVE TypeOK'
  BY <1>7 DEF EndSequence
<1>8. ASSUME NEW r \in Runs, NotifySequenceEnd(r) PROVE TypeOK'
  BY <1>8 DEF NotifySequenceEnd
<1>9. ASSUME NEW c \in Clients, ExecuteReset(c) PROVE TypeOK'
  BY <1>9 DEF ExecuteReset
<1>10. ASSUME NEW c \in Clients, ExecuteSpawn(c) PROVE TypeOK'
  <2>1. thread' \in [Runs -> ThreadState]
    BY <1>10 DEF ExecuteSpawn
  <2>2. CASE sequenceThread_ = NoRun
    <3>1. client' \in [Clients -> ClientState]
      <4>1. Resting \in ClientState
        OBVIOUS
      <4>2. client' = [client EXCEPT ![c] = Resting]
        BY <1>10, <2>2 DEF ExecuteSpawn
      <4>3. QED
        BY <4>1, <4>2
    <3>2. sequenceThread_' \in Runs \cup {NoRun} /\ fault' \in BOOLEAN
      BY <1>10, <2>2 DEF ExecuteSpawn
    <3>3. QED
      BY <1>10, <2>1, <3>1, <3>2 DEF ExecuteSpawn
  <2>3. CASE sequenceThread_ # NoRun
    <3>1. client' = [client EXCEPT ![c] = Calling("joinOld", sequenceThread_, <<>>, {})]
      BY <1>10, <2>3 DEF ExecuteSpawn
    <3>2. Calling("joinOld", sequenceThread_, <<>>, {}) \in ClientState
      OBVIOUS
    <3>3. client' \in [Clients -> ClientState]
      BY <3>1, <3>2
    <3>4. fault' \in BOOLEAN
      BY <1>10, <2>3 DEF ExecuteSpawn
    <3>5. QED
      BY <1>10, <2>1, <3>3, <3>4 DEF ExecuteSpawn
  <2>4. QED
    BY <2>2, <2>3
<1>11. ASSUME NEW c \in Clients, JoinOld(c) PROVE TypeOK'
  BY <1>11 DEF JoinOld
<1>12. ASSUME NEW c \in Clients, StopStore(c) PROVE TypeOK'
  BY <1>12 DEF StopStore
<1>13. ASSUME NEW c \in Clients, StopJoin(c) PROVE TypeOK'
  <2>1. PICK y \in {Calling("stopIdle", client[c].run, client[c].names, client[c].before),
                   Calling("joining", sequenceThread_, <<>>, client[c].before),
                   Resting} :
          client' = [client EXCEPT ![c] = y]
    BY <1>13 DEF StopJoin
  <2>2. y \in ClientState
    <3>1. client[c].run \in Runs \cup {NoRun} /\ client[c].names \in Seq(Names)
          /\ client[c].before \in SUBSET Runs
      OBVIOUS
    <3>2. "stopIdle" \in ClientPc /\ "joining" \in ClientPc
      OBVIOUS
    <3>3. Calling("stopIdle", client[c].run, client[c].names, client[c].before) \in ClientState
      BY <3>1, <3>2
    <3>4. Calling("joining", sequenceThread_, <<>>, client[c].before) \in ClientState
      BY <3>1, <3>2
    <3>5. Resting \in ClientState
      OBVIOUS
    <3> HIDE DEF ClientState, Calling, Resting
    <3>6. QED
      BY <2>1, <3>3, <3>4, <3>5
  <2>3. client' \in [Clients -> ClientState]
    BY <2>1, <2>2
  <2>4. QED
    BY <1>13, <2>3 DEF StopJoin
<1>14. ASSUME NEW c \in Clients, StopJoined(c) PROVE TypeOK'
  BY <1>14 DEF StopJoined
<1>15. ASSUME NEW c \in Clients, StopIdle(c) PROVE TypeOK'
  BY <1>15 DEF StopIdle
<1>16. ASSUME NEW c \in Clients, StopReturn(c) PROVE TypeOK'
  BY <1>16 DEF StopReturn
<1>17. ASSUME NEW c \in Clients, SetFailed(c) PROVE TypeOK'
  <2>1. status' \in [Targets -> TargetStatus \cup {"None"}]
    BY <1>17 DEF SetFailed, SetNamed
  <2>2. Tail(client[c].names) \in Seq(Names)
    BY <1>17, ToSetTail DEF SetFailed
  <2>3. PICK y \in {Resting, Calling(client[c].pc, NoRun, Tail(client[c].names), {})} :
          client' = [client EXCEPT ![c] = y]
    BY <1>17 DEF SetFailed
  <2>4. y \in ClientState
    <3>1. client[c].pc \in ClientPc
      OBVIOUS
    <3>2. Calling(client[c].pc, NoRun, Tail(client[c].names), {}) \in ClientState
      BY <2>2, <3>1
    <3>3. Resting \in ClientState
      OBVIOUS
    <3> HIDE DEF ClientState, Calling, Resting
    <3>4. QED
      BY <2>3, <3>2, <3>3
  <2>5. client' \in [Clients -> ClientState]
    BY <2>3, <2>4
  <2>6. QED
    BY <1>17, <2>1, <2>5 DEF SetFailed
<1>18. ASSUME NEW c \in Controllers, ExecuteAll(c) PROVE TypeOK'
  BY <1>18 DEF ExecuteAll
<1>19. ASSUME NEW c \in Controllers, Stop(c) PROVE TypeOK'
  BY <1>19 DEF Stop
<1>20. ASSUME NEW c \in Clients, TakeFailed(c) PROVE TypeOK'
  BY <1>20 DEF TakeFailed
<1>21. ASSUME NEW t \in Targets, AddTarget(t) PROVE TypeOK'
  BY <1>21 DEF AddTarget
<1>22. ASSUME NEW t \in Targets, RemoveTarget(t) PROVE TypeOK'
  BY <1>22 DEF RemoveTarget
<1>23. ASSUME NEW t \in Targets, ModifyTarget(t) PROVE TypeOK'
  BY <1>23 DEF ModifyTarget
<1>24. ASSUME NEW n \in Names, NEW d \in Names, AddTargetDependency(n, d)
       PROVE TypeOK'
  <2>1. targetDependencies_' \in [Names -> SUBSET Names]
    BY <1>24 DEF AddTargetDependency
  <2>2. ready' \subseteq Names
    BY <1>24, SupportedMarked DEF AddTargetDependency, Readied
  <2>3. QED
    BY <1>24, <2>1, <2>2 DEF AddTargetDependency
<1>25. ASSUME NEW n \in Names, NEW d \in Names, RemoveTargetDependency(n, d)
       PROVE TypeOK'
  <2>1. targetDependencies_' \in [Names -> SUBSET Names]
    BY <1>25 DEF RemoveTargetDependency
  <2>2. ready' \subseteq Names
    BY <1>25, SupportedMarked DEF RemoveTargetDependency, Readied
  <2>3. QED
    BY <1>25, <2>1, <2>2 DEF RemoveTargetDependency
<1>26. ASSUME Pause PROVE TypeOK'
  BY <1>26 DEF Pause
<1>27. ASSUME SetSchedulingStrategy PROVE TypeOK'
  <2>1. CASE ReorderTargetsByDependencies
    <3>1. PICK kept \in SUBSET Targets : Keep(kept)
      BY <2>1 DEF ReorderTargetsByDependencies
    <3>2. /\ status' \in [Targets -> TargetStatus \cup {"None"}]
          /\ enabled' \subseteq Targets
      BY <3>1 DEF Keep
    <3>3. thread' \in [Runs -> ThreadState]
      BY <3>1 DEF Keep
    <3>4. QED
      BY <1>27, <3>2, <3>3 DEF SetSchedulingStrategy
  <2>2. CASE ReorderTargetsByPriority
    BY <1>27, <2>2 DEF SetSchedulingStrategy, ReorderTargetsByPriority
  <2>3. QED
    BY <1>27, <2>1, <2>2 DEF SetSchedulingStrategy
<1>28. ASSUME SaveSequence PROVE TypeOK'
  BY <1>28 DEF SaveSequence
<1>29. ASSUME LoadSequence PROVE TypeOK'
  BY <1>29 DEF LoadSequence
<1>30. ASSUME SaveToDatabase PROVE TypeOK'
  BY <1>30 DEF SaveToDatabase, Row
<1>34. ASSUME DeleteFromDatabase PROVE TypeOK'
  BY <1>34 DEF DeleteFromDatabase, Nothing
<1>31. ASSUME LoadFromDatabase PROVE TypeOK'
  <2>1. ready' \subseteq Names
    BY <1>31, SupportedMarked DEF LoadFromDatabase, Readied
  <2>2. thread' \in [Runs -> ThreadState]
    BY <1>31 DEF LoadFromDatabase
  <2>3. QED
    BY <1>31, <2>1, <2>2 DEF LoadFromDatabase
<1>32. ASSUME Crash PROVE TypeOK'
  <2>1. thread' \in [Runs -> ThreadState]
    BY <1>32 DEF Crash
  <2>2. client' \in [Clients -> ClientState]
    BY <1>32 DEF Crash
  <2>3. status' \in [Targets -> TargetStatus \cup {"None"}]
    BY <1>32 DEF Crash, Nothing
  <2>4. targetDependencies_' \in [Names -> SUBSET Names]
    BY <1>32 DEF Crash, Nothing
  <2>5. /\ state_' \in SequenceState /\ enabled' \subseteq Targets
        /\ ready' \subseteq Names /\ failedTargetNames_' \in Seq(Names)
    BY <1>32 DEF Crash
  <2>6. /\ completedTargets_' \in Nat /\ sequenceThread_' \in Runs \cup {NoRun}
        /\ started' \in Runs \cup {NoRun} /\ calls' \in 0..MaxCalls
    BY <1>32 DEF Crash
  <2>7. fault' \in BOOLEAN
    BY <1>32 DEF Crash
  <2>8. UNCHANGED disk
    BY <1>32 DEF Crash
  <2>9. QED
    BY <2>1, <2>2, <2>3, <2>4, <2>5, <2>6, <2>7, <2>8
<1>33. CASE UNCHANGED vars
  BY <1>33 DEF vars, graph, disk
<1>35. QED
  BY <1>1, <1>2, <1>3, <1>4, <1>5, <1>6, <1>7, <1>8, <1>9, <1>10, <1>11,
     <1>12, <1>13, <1>14, <1>15, <1>16, <1>17, <1>18, <1>19, <1>20,
     <1>21, <1>22, <1>23, <1>24, <1>25, <1>26, <1>27, <1>28, <1>29,
     <1>30, <1>31, <1>32, <1>33, <1>34
     DEF Next, ThreadStep, CallStep, Edit

\* Types are preserved by every operation, loads and crashes included.
THEOREM Typing == Spec => []TypeOK
<1> USE SequencerAssumption DEF TypeOK, SequenceState, TargetStatus, ThreadPc, ClientPc,
        ThreadState, ClientState
<1>1. Init => TypeOK
  <2> SUFFICES ASSUME Init PROVE TypeOK
    OBVIOUS
  <2>1. thread \in [Runs -> ThreadState]
    BY DEF Init
  <2>2. client \in [Clients -> ClientState]
    BY DEF Init
  <2>3. /\ saved.state \in SequenceState
        /\ saved.status \in [Targets -> TargetStatus \cup {"None"}]
        /\ saved.deps \in [Names -> SUBSET Names]
        /\ saved.enabled \subseteq Targets /\ file.enabled \subseteq Targets
    BY DEF Init, Nothing, NoFile
  <2>4. /\ status \in [Targets -> TargetStatus \cup {"None"}]
        /\ targetDependencies_ \in [Names -> SUBSET Names]
    BY DEF Init
  <2>5. /\ state_ \in SequenceState /\ enabled \subseteq Targets
        /\ ready \subseteq Names /\ failedTargetNames_ \in Seq(Names)
    BY DEF Init
  <2>6. /\ completedTargets_ \in Nat /\ sequenceThread_ \in Runs \cup {NoRun}
        /\ started \in Runs \cup {NoRun} /\ calls \in 0..MaxCalls
    BY DEF Init
  <2>7. fault \in BOOLEAN
    BY DEF Init
  <2>8. QED
    BY <2>1, <2>2, <2>3, <2>4, <2>5, <2>6, <2>7
<1>2. TypeOK /\ [Next]_vars => TypeOK'
  BY TypingStep
<1>3. QED
  BY <1>1, <1>2, PTL DEF Spec

-----------------------------------------------------------------------------
(* The inductive invariant: whose run a created thread is, who still has    *)
(* names to deal with, and who will store Idle.                             *)

Starting(c) == client[c].pc \in {"reset", "spawn"}

\* only a retry or a skip holds names
NamesHeld ==
  \A c \in Clients : client[c].names # <<>> => client[c].pc \in {"retrying", "skipping"}

\* a run that executeAll has not begun has no thread
Unstarted == \A r \in Runs : started < r => thread[r].pc = "none"

\* a client inside executeAll owns a created thread, alone
StartingOwns ==
  /\ \A c \in Clients : Starting(c) =>
       /\ client[c].run \in Runs /\ client[c].run <= started
       /\ thread[client[c].run].pc = "created"
  /\ \A c, d \in Clients :
       Starting(c) /\ Starting(d) /\ client[c].run = client[d].run => c = d

\* and a created thread has such an owner
CreatedOwned ==
  \A r \in Runs : thread[r].pc = "created" =>
    \E c \in Clients : Starting(c) /\ client[c].run = r

Ownership == NamesHeld /\ Unstarted /\ StartingOwns /\ CreatedOwned

\* while the sequence is not Idle there is a thread or a stop() that will store Idle
SomebodyStoresIdle ==
  state_ # "Idle" =>
    \/ \E r \in Runs : Active(r) \/ thread[r].pc = "created"
    \/ \E c \in Clients : client[c].pc \in {"stopJoin", "joining", "stopIdle"}

\* what a load from the database may bring back: an Idle state
LoadsIdle == LoadFromDatabase => saved.state = "Idle"

\* A step of a sequence thread moves that thread only, from and to a place that
\* is neither "none" nor "created", and no client.
LEMMA ThreadFrame ==
  ASSUME TypeOK, NEW r \in Runs, ThreadStep(r)
  PROVE  /\ UNCHANGED <<client, started>>
         /\ thread[r].pc \notin {"none", "created"}
         /\ thread'[r].pc \notin {"none", "created"}
         /\ \A q \in Runs : q # r => thread'[q] = thread[q]
<1> USE DEF TypeOK, ThreadState
<1>1. CASE GetNextExecutableTarget(r)
  <2>1. PICK x \in {At("ending", Freed)} \cup {At("picked", t) : t \in Targets} :
          thread' = [thread EXCEPT ![r] = x]
    BY <1>1 DEF GetNextExecutableTarget, Executable
  <2>2. x.pc \notin {"none", "created"}
    BY <2>1
  <2>3. QED
    BY <1>1, <2>1, <2>2 DEF GetNextExecutableTarget
<1>2. CASE CheckStopping(r)
  BY <1>2 DEF CheckStopping
<1>3. CASE StartTarget(r)
  <2>1. PICK pc \in {"executing", "account"} :
          thread' = [thread EXCEPT ![r] = At(pc, thread[r].target)]
    BY <1>3 DEF StartTarget
  <2>2. QED
    BY <1>3, <2>1 DEF StartTarget
<1>4. CASE FinishTarget(r)
  BY <1>4 DEF FinishTarget
<1>5. CASE AccountTarget(r)
  BY <1>5 DEF AccountTarget
<1>6. CASE UseAfterFree(r)
  BY <1>6 DEF UseAfterFree
<1>7. CASE EndSequence(r)
  BY <1>7 DEF EndSequence
<1>8. CASE NotifySequenceEnd(r)
  BY <1>8 DEF NotifySequenceEnd
<1>9. QED
  BY <1>1, <1>2, <1>3, <1>4, <1>5, <1>6, <1>7, <1>8 DEF ThreadStep

\* An operation that edits, saves or loads leaves clients and runs alone, and
\* threads where they are.
LEMMA EditFrame ==
  ASSUME TypeOK,
         \/ Edit
         \/ Pause \/ SetSchedulingStrategy
         \/ SaveSequence \/ LoadSequence
         \/ SaveToDatabase \/ LoadFromDatabase \/ DeleteFromDatabase
  PROVE  /\ UNCHANGED <<client, started>>
         /\ \A r \in Runs : thread'[r].pc = thread[r].pc
<1> USE DEF TypeOK, ThreadState, Dangle
<1>1. ASSUME Edit
      PROVE  UNCHANGED <<client, started>> /\ \A r \in Runs : thread'[r].pc = thread[r].pc
  <2>1. CASE \E t \in Targets : AddTarget(t)
    BY <2>1 DEF AddTarget
  <2>2. CASE \E t \in Targets : RemoveTarget(t)
    BY <2>2 DEF RemoveTarget
  <2>3. CASE \E t \in Targets : ModifyTarget(t)
    BY <2>3 DEF ModifyTarget
  <2>4. CASE \E n, d \in Names : AddTargetDependency(n, d)
    BY <2>4 DEF AddTargetDependency
  <2>5. CASE \E n, d \in Names : RemoveTargetDependency(n, d)
    BY <2>5 DEF RemoveTargetDependency
  <2>6. QED
    BY <1>1, <2>1, <2>2, <2>3, <2>4, <2>5 DEF Edit
<1>2. CASE Pause
  BY <1>2 DEF Pause
<1>3. CASE SetSchedulingStrategy
  <2>1. UNCHANGED <<client, started>>
    BY <1>3 DEF SetSchedulingStrategy
  <2>2. CASE ReorderTargetsByDependencies
    <3>1. PICK gone \in SUBSET Targets : Dangle(gone)
      BY <2>2 DEF ReorderTargetsByDependencies, Keep
    <3>2. QED
      BY <2>1, <3>1
  <2>3. CASE ReorderTargetsByPriority
    BY <2>1, <2>3 DEF ReorderTargetsByPriority
  <2>4. QED
    BY <1>3, <2>2, <2>3 DEF SetSchedulingStrategy
<1>4. CASE SaveSequence
  BY <1>4 DEF SaveSequence
<1>5. CASE LoadSequence
  BY <1>5 DEF LoadSequence
<1>6. CASE SaveToDatabase
  BY <1>6 DEF SaveToDatabase
<1>7. CASE LoadFromDatabase
  BY <1>7 DEF LoadFromDatabase
<1>8. CASE DeleteFromDatabase
  BY <1>8 DEF DeleteFromDatabase
<1>9. QED
  BY <1>1, <1>2, <1>3, <1>4, <1>5, <1>6, <1>7, <1>8

\* Every step preserves who owns what.
LEMMA OwnershipStep ==
  ASSUME TypeOK, Ownership, [Next]_vars PROVE Ownership'
<1> USE DEF Ownership, NamesHeld, Unstarted, StartingOwns, CreatedOwned, Starting
<1>1. ASSUME NEW r \in Runs, ThreadStep(r) PROVE Ownership'
  BY <1>1, ThreadFrame
<1>2. ASSUME \/ Edit
             \/ Pause \/ SetSchedulingStrategy
             \/ SaveSequence \/ LoadSequence
             \/ SaveToDatabase \/ LoadFromDatabase \/ DeleteFromDatabase
      PROVE  Ownership'
  BY <1>2, EditFrame DEF TypeOK
<1>3. ASSUME NEW c \in Clients, CallStep(c) PROVE Ownership'
  <2> USE DEF TypeOK
  <2>1. CASE ExecuteReset(c)
    BY <2>1 DEF ExecuteReset
  <2>2. CASE ExecuteSpawn(c)
    <3>1. /\ client'[c].names = <<>> /\ client'[c].pc \in {"idle", "joinOld"}
          /\ \A d \in Clients : d # c => client'[d] = client[d]
      <4>1. CASE sequenceThread_ = NoRun
        BY <2>2, <4>1 DEF ExecuteSpawn
      <4>2. CASE sequenceThread_ # NoRun
        <5>1. client' = [client EXCEPT ![c] = Calling("joinOld", sequenceThread_, <<>>, {})]
          BY <2>2, <4>2 DEF ExecuteSpawn
        <5>2. QED
          BY <5>1
      <4>3. QED
        BY <4>1, <4>2
    <3>2. thread' = [thread EXCEPT ![client[c].run] = At("pick", Freed)]
      BY <2>2 DEF ExecuteSpawn
    <3>3. Starting(c) /\ started' = started
      BY <2>2 DEF ExecuteSpawn
    <3>4. NamesHeld'
      BY <3>1
    <3>5. Unstarted'
      BY <3>2, <3>3
    <3>6. StartingOwns'
      <4>1. \A d \in Clients : Starting(d)' => d # c /\ Starting(d) /\ client'[d].run = client[d].run
        BY <3>1
      <4>2. \A d \in Clients : Starting(d)' =>
              /\ client[d].run \in Runs /\ client[d].run # client[c].run
              /\ thread'[client[d].run] = thread[client[d].run]
        BY <3>2, <3>3, <4>1
      <4>3. QED
        BY <3>3, <4>1, <4>2
    <3>7. CreatedOwned'
      BY <3>1, <3>2, <3>3
    <3>8. QED
      BY <3>4, <3>5, <3>6, <3>7
  <2>3. CASE JoinOld(c)
    BY <2>3 DEF JoinOld
  <2>4. CASE StopStore(c)
    BY <2>4 DEF StopStore
  <2>5. CASE StopJoin(c)
    <3>1. client[c].names = <<>>
      BY <2>5 DEF StopJoin
    <3>2. PICK y : /\ client' = [client EXCEPT ![c] = y]
                   /\ y.names = <<>> /\ y.pc \in {"idle", "joining", "stopIdle"}
      BY <2>5, <3>1 DEF StopJoin
    <3>3. UNCHANGED <<thread, started>> /\ ~Starting(c)
      BY <2>5 DEF StopJoin
    <3>4. QED
      BY <3>2, <3>3
  <2>6. CASE StopJoined(c)
    BY <2>6 DEF StopJoined
  <2>7. CASE StopIdle(c)
    BY <2>7 DEF StopIdle
  <2>8. CASE StopReturn(c)
    BY <2>8 DEF StopReturn
  <2>9. CASE SetFailed(c)
    BY <2>9 DEF SetFailed
  <2>10. QED
    BY <1>3, <2>1, <2>2, <2>3, <2>4, <2>5, <2>6, <2>7, <2>8, <2>9 DEF CallStep
<1>4. ASSUME NEW c \in Clients, ExecuteAll(c) PROVE Ownership'
  <2> USE SequencerAssumption DEF TypeOK, ThreadState
  <2>1. /\ started' = started + 1 /\ started' \in Runs
        /\ thread' = [thread EXCEPT ![started'] = At("created", Freed)]
        /\ client' = [client EXCEPT ![c] = Calling("reset", started', <<>>, {})]
    BY <1>4 DEF ExecuteAll
  <2>2. NamesHeld'
    BY <2>1
  <2>3. Unstarted'
    BY <2>1
  <2>4. thread[started'].pc = "none"
    BY <2>1
  <2>5. StartingOwns'
    BY <2>1, <2>4
  <2>6. CreatedOwned'
    <3>1. Starting(c)' /\ client'[c].run = started'
      BY <2>1
    <3>2. ~Starting(c)
      BY <1>4 DEF ExecuteAll
    <3>3. \A d \in Clients : d # c => client'[d] = client[d]
      BY <2>1
    <3>4. \A r \in Runs : r # started' => thread'[r] = thread[r]
      BY <2>1
    <3>5. ASSUME NEW r \in Runs, r # started', thread'[r].pc = "created"
          PROVE  \E d \in Clients : Starting(d)' /\ client'[d].run = r
      <4>1. PICK d \in Clients : Starting(d) /\ client[d].run = r
        BY <3>4, <3>5
      <4>2. client'[d] = client[d]
        BY <3>2, <3>3, <4>1
      <4>3. QED
        BY <4>1, <4>2
    <3>6. QED
      BY <3>1, <3>5
  <2>7. QED
    BY <2>2, <2>3, <2>5, <2>6
<1>5. ASSUME NEW c \in Clients, Stop(c) PROVE Ownership'
  <2>1. /\ client'[c].names = <<>> /\ ~Starting(c) /\ ~Starting(c)'
        /\ \A d \in Clients : d # c => client'[d] = client[d]
        /\ UNCHANGED <<thread, started>>
    BY <1>5 DEF Stop, TypeOK
  <2>2. QED
    BY <2>1
<1>6. ASSUME NEW c \in Clients, TakeFailed(c) PROVE Ownership'
  BY <1>6 DEF TakeFailed, TypeOK
<1>7. CASE Crash
  BY <1>7 DEF Crash
<1>8. CASE UNCHANGED vars
  BY <1>8 DEF vars
<1>9. QED
  BY <1>1, <1>2, <1>3, <1>4, <1>5, <1>6, <1>7, <1>8, SequencerAssumption DEF Next

\* No step takes away the last thread or stop() that would store Idle.
LEMMA StoresIdleStep ==
  ASSUME TypeOK, TypeOK', Ownership, SomebodyStoresIdle, [LoadsIdle]_vars, [Next]_vars
  PROVE  SomebodyStoresIdle'
<1> USE DEF SomebodyStoresIdle, Active
<1>1. ASSUME NEW r \in Runs, ThreadStep(r) PROVE SomebodyStoresIdle'
  <2> USE DEF TypeOK, ThreadState
  <2>1. CASE EndSequence(r)
    BY <2>1 DEF EndSequence, BackToIdle
  <2>2. CASE NotifySequenceEnd(r)
    BY <2>2, <1>1, ThreadFrame DEF NotifySequenceEnd
  <2>3. CASE ~EndSequence(r) /\ ~NotifySequenceEnd(r)
    <3>1. UNCHANGED <<state_, client>>
      BY <1>1, <2>3 DEF ThreadStep, GetNextExecutableTarget, CheckStopping,
         StartTarget, FinishTarget, AccountTarget, UseAfterFree
    <3>2. thread'[r].pc \notin {"notifying", "done"}
      <4>1. CASE GetNextExecutableTarget(r)
        <5>1. PICK x \in {At("ending", Freed)} \cup {At("picked", t) : t \in Targets} :
                thread' = [thread EXCEPT ![r] = x]
          BY <4>1 DEF GetNextExecutableTarget, Executable
        <5>2. QED
          BY <5>1
      <4>2. CASE CheckStopping(r)
        BY <4>2 DEF CheckStopping
      <4>3. CASE StartTarget(r)
        <5>1. PICK pc \in {"executing", "account"} :
                thread' = [thread EXCEPT ![r] = At(pc, thread[r].target)]
          BY <4>3 DEF StartTarget
        <5>2. QED
          BY <5>1
      <4>4. CASE FinishTarget(r)
        BY <4>4 DEF FinishTarget
      <4>5. CASE AccountTarget(r)
        BY <4>5 DEF AccountTarget
      <4>6. CASE UseAfterFree(r)
        BY <4>6 DEF UseAfterFree
      <4>7. QED
        BY <1>1, <2>3, <4>1, <4>2, <4>3, <4>4, <4>5, <4>6 DEF ThreadStep
    <3>3. Active(r)'
      <4>1. thread'[r].pc \in ThreadPc
        OBVIOUS
      <4>2. QED
        BY <1>1, <3>2, <4>1, ThreadFrame DEF ThreadPc
    <3>4. QED
      BY <3>3
  <2>4. QED
    BY <2>1, <2>2, <2>3
<1>2. ASSUME \/ Edit
             \/ Pause \/ SetSchedulingStrategy
             \/ SaveSequence \/ LoadSequence
             \/ SaveToDatabase \/ LoadFromDatabase \/ DeleteFromDatabase
      PROVE  SomebodyStoresIdle'
  <2>1. state_' # "Idle" => state_ # "Idle"
    BY <1>2 DEF vars, LoadsIdle, Edit, AddTarget, RemoveTarget, ModifyTarget, AddTargetDependency,
       RemoveTargetDependency, Pause, SetSchedulingStrategy, SaveSequence,
       LoadSequence, SaveToDatabase, LoadFromDatabase, DeleteFromDatabase
  <2>2. QED
    BY <1>2, <2>1, EditFrame
<1>3. ASSUME NEW c \in Clients, CallStep(c) PROVE SomebodyStoresIdle'
  <2> USE DEF TypeOK, ClientState, ThreadState
  <2>1. CASE ExecuteReset(c)
    BY <2>1 DEF ExecuteReset
  <2>2. CASE ExecuteSpawn(c)
    <3>1. client[c].run \in Runs /\ thread'[client[c].run].pc = "pick"
      BY <2>2 DEF ExecuteSpawn, Ownership, StartingOwns, Starting
    <3>2. QED
      BY <3>1
  <2>3. CASE JoinOld(c)
    BY <2>3 DEF JoinOld
  <2>4. CASE StopStore(c)
    BY <2>4 DEF StopStore
  <2>5. CASE StopJoin(c)
    <3>1. CASE \E d \in Clients : client[d].pc = "joining"
      <4>1. PICK d \in Clients : client[d].pc = "joining"
        BY <3>1
      <4>2. client'[d] = client[d]
        BY <2>5, <4>1 DEF StopJoin
      <4>3. QED
        BY <4>1, <4>2
    <3>2. CASE ~ \E d \in Clients : client[d].pc = "joining"
      <4>1. client'[c].pc \in {"joining", "stopIdle"}
        BY <2>5, <3>2 DEF StopJoin
      <4>2. QED
        BY <4>1
    <3>3. QED
      BY <3>1, <3>2
  <2>6. CASE StopJoined(c)
    BY <2>6 DEF StopJoined
  <2>7. CASE StopIdle(c)
    BY <2>7 DEF StopIdle
  <2>8. CASE StopReturn(c)
    BY <2>8 DEF StopReturn
  <2>9. CASE SetFailed(c)
    <3>1. UNCHANGED <<state_, thread>>
      BY <2>9 DEF SetFailed
    <3>2. /\ client[c].pc \in {"retrying", "skipping"}
          /\ \A d \in Clients : d # c => client'[d] = client[d]
      BY <2>9 DEF SetFailed
    <3>3. QED
      BY <3>1, <3>2
  <2>10. QED
    BY <1>3, <2>1, <2>2, <2>3, <2>4, <2>5, <2>6, <2>7, <2>8, <2>9 DEF CallStep
<1>4. ASSUME NEW c \in Clients, ExecuteAll(c) PROVE SomebodyStoresIdle'
  <2>1. started + 1 \in Runs /\ thread'[started + 1].pc = "created"
    BY <1>4, SequencerAssumption DEF ExecuteAll, TypeOK
  <2>2. QED
    BY <2>1
<1>5. ASSUME NEW c \in Clients, Stop(c) PROVE SomebodyStoresIdle'
  BY <1>5 DEF Stop, TypeOK, ClientState
<1>6. ASSUME NEW c \in Clients, TakeFailed(c) PROVE SomebodyStoresIdle'
  <2>1. UNCHANGED <<state_, thread>>
    BY <1>6 DEF TakeFailed
  <2>2. client[c].pc = "idle" /\ \A d \in Clients : d # c => client'[d] = client[d]
    BY <1>6 DEF TakeFailed, TypeOK
  <2>3. QED
    BY <2>1, <2>2
<1>7. CASE Crash
  BY <1>7 DEF Crash
<1>8. CASE UNCHANGED vars
  BY <1>8 DEF vars
<1>9. QED
  BY <1>1, <1>2, <1>3, <1>4, <1>5, <1>6, <1>7, <1>8, SequencerAssumption DEF Next

-----------------------------------------------------------------------------
\* Who owns what holds in every reachable state.
THEOREM Owned == Spec => []Ownership
<1>1. Init => Ownership
  BY DEF Init, Ownership, NamesHeld, Unstarted, StartingOwns, CreatedOwned, Starting
<1>2. QED
  BY <1>1, OwnershipStep, Typing, PTL DEF Spec

\* As long as what is loaded from the database was saved Idle, no interleaving of
\* executeAll, stop, pause, resume, loads and the ends of runs leaves the sequence in
\* a state other than Idle with nobody left to bring it back.
THEOREM ComesToRest ==
  Spec /\ [][LoadsIdle]_vars => []IdleAtRest
<1>1. Init => SomebodyStoresIdle
  BY DEF Init, SomebodyStoresIdle
<1>2. TypeOK /\ TypeOK' /\ Ownership /\ SomebodyStoresIdle /\ [LoadsIdle]_vars /\ [Next]_vars
        => SomebodyStoresIdle'
  BY StoresIdleStep
<1>3. Ownership /\ SomebodyStoresIdle => IdleAtRest
  BY DEF Ownership, CreatedOwned, Starting, SomebodyStoresIdle, IdleAtRest
<1>4. QED
  BY <1>1, <1>2, <1>3, Typing, Owned, PTL DEF Spec

-----------------------------------------------------------------------------
(* What is joined *)

\* the thread of run r was started
Walks(r) == r \in Runs /\ thread[r].pc \notin {"none", "created"}

\* what the jthread holds, and what a call inside a join waits for, is a thread that
\* was started, and so one that is done or will take its next step by itself
JoinsStarted ==
  /\ sequenceThread_ # NoRun => Walks(sequenceThread_)
  /\ \A c \in Clients : client[c].pc \in {"joining", "joinOld"} => Walks(client[c].run)

\* Every step preserves that.
LEMMA JoinsStep ==
  ASSUME TypeOK, Ownership, JoinsStarted, [Next]_vars PROVE JoinsStarted'
<1> USE DEF JoinsStarted, Walks, TypeOK, ClientState
<1>1. ASSUME NEW r \in Runs, ThreadStep(r) PROVE JoinsStarted'
  <2>1. UNCHANGED sequenceThread_
    BY <1>1 DEF ThreadStep, GetNextExecutableTarget, CheckStopping, StartTarget,
       FinishTarget, AccountTarget, UseAfterFree, EndSequence, NotifySequenceEnd
  <2>2. QED
    BY <1>1, <2>1, ThreadFrame
<1>2. ASSUME NEW c \in Clients, CallStep(c) PROVE JoinsStarted'
  <2>1. CASE ExecuteSpawn(c)
    <3>1. /\ client[c].run \in Runs /\ sequenceThread_' = client[c].run
          /\ thread' = [thread EXCEPT ![client[c].run] = At("pick", Freed)]
      BY <2>1 DEF ExecuteSpawn, Ownership, StartingOwns, Starting
    <3>2. \A r \in Runs : Walks(r) \/ r = client[c].run => Walks(r)'
      BY <3>1
    <3>3. /\ client'[c].pc # "joining"
          /\ client'[c].pc = "joinOld" => sequenceThread_ # NoRun /\ client'[c].run = sequenceThread_
      <4>1. CASE sequenceThread_ = NoRun
        BY <2>1, <4>1 DEF ExecuteSpawn
      <4>2. CASE sequenceThread_ # NoRun
        <5>1. client' = [client EXCEPT ![c] = Calling("joinOld", sequenceThread_, <<>>, {})]
          BY <2>1, <4>2 DEF ExecuteSpawn
        <5>2. QED
          BY <4>2, <5>1
      <4>3. QED
        BY <4>1, <4>2
    <3>4. \A d \in Clients : d # c => client'[d] = client[d]
      BY <2>1 DEF ExecuteSpawn
    <3>5. (sequenceThread_ # NoRun => Walks(sequenceThread_))'
      BY <3>1, <3>2
    <3>6. ASSUME NEW d \in Clients, client'[d].pc \in {"joining", "joinOld"}
          PROVE  Walks(client[d].run)'
      <4>1. \E r \in Runs : client'[d].run = r /\ Walks(r)
        BY <3>3, <3>4, <3>6
      <4>2. QED
        BY <3>2, <4>1
    <3>7. QED
      BY <3>5, <3>6
  <2>2. CASE StopJoin(c)
    <3>1. PICK y : /\ client' = [client EXCEPT ![c] = y]
                   /\ y.pc \in {"idle", "joining", "stopIdle"}
                   /\ y.pc = "joining" => y.run = sequenceThread_ /\ sequenceThread_ # NoRun
      BY <2>2 DEF StopJoin
    <3>2. UNCHANGED <<thread, sequenceThread_>>
      BY <2>2 DEF StopJoin
    <3>3. QED
      BY <3>1, <3>2
  <2>3. CASE ExecuteReset(c) \/ StopStore(c) \/ StopIdle(c)
    <3>1. PICK pc \in {"spawn", "stopJoin", "stopNotify"} : Goto(c, pc)
      BY <2>3 DEF ExecuteReset, StopStore, StopIdle
    <3>2. UNCHANGED <<thread, sequenceThread_>>
      BY <2>3 DEF ExecuteReset, StopStore, StopIdle
    <3>3. QED
      BY <3>1, <3>2
  <2>4. CASE JoinOld(c) \/ StopReturn(c)
    <3>1. Return(c) /\ UNCHANGED <<thread, sequenceThread_>>
      BY <2>4 DEF JoinOld, StopReturn
    <3>2. QED
      BY <3>1
  <2>5. CASE StopJoined(c)
    BY <2>5 DEF StopJoined
  <2>6. CASE SetFailed(c)
    <3>1. client'[c].pc \in {"retrying", "skipping", "idle"} /\ UNCHANGED <<thread, sequenceThread_>>
      BY <2>6 DEF SetFailed
    <3>2. \A d \in Clients : d # c => client'[d] = client[d]
      BY <2>6 DEF SetFailed
    <3>3. QED
      BY <3>1, <3>2
  <2>7. QED
    BY <1>2, <2>1, <2>2, <2>3, <2>4, <2>5, <2>6 DEF CallStep
<1>3. ASSUME NEW c \in Clients, ExecuteAll(c) PROVE JoinsStarted'
  <2>1. thread[started + 1].pc = "none" /\ started + 1 \in Runs
    BY <1>3, SequencerAssumption DEF ExecuteAll, Ownership, Unstarted
  <2>2. \A r \in Runs : Walks(r) => Walks(r)'
    BY <1>3, <2>1 DEF ExecuteAll
  <2>3. QED
    BY <1>3, <2>2 DEF ExecuteAll
<1>4. ASSUME NEW c \in Clients, Stop(c) \/ TakeFailed(c) PROVE JoinsStarted'
  <2>1. /\ UNCHANGED <<thread, sequenceThread_>> /\ client'[c].pc \notin {"joining", "joinOld"}
        /\ \A d \in Clients : d # c => client'[d] = client[d]
    BY <1>4 DEF Stop, TakeFailed
  <2>2. QED
    BY <2>1
<1>5. CASE \/ Edit
           \/ Pause \/ SetSchedulingStrategy
           \/ SaveSequence \/ LoadSequence
           \/ SaveToDatabase \/ LoadFromDatabase \/ DeleteFromDatabase
  <2>1. UNCHANGED sequenceThread_
    BY <1>5 DEF Edit, AddTarget, RemoveTarget, ModifyTarget, AddTargetDependency,
       RemoveTargetDependency, Pause, SetSchedulingStrategy, SaveSequence,
       LoadSequence, SaveToDatabase, LoadFromDatabase, DeleteFromDatabase
  <2>2. QED
    BY <1>5, <2>1, EditFrame
<1>6. CASE Crash
  BY <1>6 DEF Crash
<1>7. CASE UNCHANGED vars
  BY <1>7 DEF vars
<1>8. QED
  BY <1>1, <1>2, <1>3, <1>4, <1>5, <1>6, <1>7, SequencerAssumption DEF Next

\* Neither stop() nor the assignment to the jthread ever waits for a thread that has
\* not been started: however many clients call executeAll and stop at once, and
\* whatever is loaded or crashes, the thread a call waits for does not wait itself.
THEOREM JoinsEnd == Spec => []JoinsStarted
<1>1. Init => JoinsStarted
  BY DEF Init, JoinsStarted
<1>2. TypeOK /\ Ownership /\ JoinsStarted /\ [Next]_vars => JoinsStarted'
  BY JoinsStep
<1>3. QED
  BY <1>1, <1>2, Typing, Owned, PTL DEF Spec

-----------------------------------------------------------------------------
(* Dependencies *)

\* the dependencies, and those that were saved, have no cycle, and what is marked
\* ready depends on nothing that is not
DependenciesSound ==
  /\ Acyclic(targetDependencies_) /\ Acyclic(saved.deps)
  /\ \A n \in ready : targetDependencies_[n] \subseteq ready

\* A supported set holds what its members depend on.
LEMMA SupportedCloses ==
  ASSUME NEW marked, NEW deps, NEW t \in Supported(marked, deps)
  PROVE  deps[t] \subseteq Supported(marked, deps)
<1>1. PICK S \in SUBSET marked : t \in S /\ \A u \in S : deps[u] \subseteq S
  BY DEF Supported
<1>2. QED
  BY <1>1 DEF Supported

\* Taking dependencies away makes no cycle.
LEMMA FewerStayAcyclic ==
  ASSUME NEW deps, NEW fewer, Acyclic(deps), \A n \in Names : fewer[n] \subseteq deps[n]
  PROVE  Acyclic(fewer)
<1> SUFFICES ASSUME NEW S \in (SUBSET Names) \ {{}}
             PROVE  \E t \in S : fewer[t] \cap S = {}
  BY DEF Acyclic
<1>1. PICK t \in S : deps[t] \cap S = {}
  BY DEF Acyclic
<1>2. t \in Names
  OBVIOUS
<1>3. QED
  BY <1>1, <1>2

\* Names that depend on nothing depend on no cycle.
LEMMA NoneIsAcyclic == Acyclic(Nothing.deps)
  BY DEF Acyclic, Nothing

\* Every step keeps the dependencies sound.
LEMMA DependenciesStep ==
  ASSUME TypeOK, DependenciesSound, [Next]_vars PROVE DependenciesSound'
<1> USE DEF DependenciesSound
<1>1. ASSUME NEW n \in Names, NEW d \in Names, AddTargetDependency(n, d)
      PROVE  DependenciesSound'
  BY <1>1, SupportedCloses DEF AddTargetDependency, Readied
<1>2. ASSUME NEW n \in Names, NEW d \in Names, RemoveTargetDependency(n, d)
      PROVE  DependenciesSound'
  <2>1. \A u \in Names : targetDependencies_'[u] \subseteq targetDependencies_[u]
    BY <1>2 DEF RemoveTargetDependency, TypeOK
  <2>2. Acyclic(targetDependencies_')
    BY <2>1, FewerStayAcyclic
  <2>3. QED
    BY <1>2, <2>2, SupportedCloses DEF RemoveTargetDependency, Readied
<1>3. CASE SaveToDatabase
  BY <1>3 DEF SaveToDatabase, Row
<1>4. CASE DeleteFromDatabase
  BY <1>4, NoneIsAcyclic DEF DeleteFromDatabase
<1>5. CASE LoadFromDatabase
  BY <1>5, SupportedCloses DEF LoadFromDatabase, Readied
<1>6. CASE Crash
  BY <1>6, NoneIsAcyclic DEF Crash
<1>7. CASE \/ \E r \in Runs : ThreadStep(r)
           \/ \E c \in Clients : CallStep(c) \/ TakeFailed(c)
           \/ \E c \in Controllers : ExecuteAll(c) \/ Stop(c)
           \/ \E t \in Targets : AddTarget(t) \/ RemoveTarget(t) \/ ModifyTarget(t)
           \/ Pause \/ SetSchedulingStrategy \/ SaveSequence \/ LoadSequence
           \/ UNCHANGED vars
  <2>1. UNCHANGED <<targetDependencies_, ready, saved>>
    BY <1>7 DEF ThreadStep, GetNextExecutableTarget, CheckStopping, StartTarget,
       FinishTarget, AccountTarget, UseAfterFree, EndSequence, NotifySequenceEnd,
       CallStep, ExecuteReset, ExecuteSpawn, JoinOld, StopStore, StopJoin, StopJoined,
       StopIdle, StopReturn, SetFailed, TakeFailed, ExecuteAll, Stop, AddTarget,
       RemoveTarget, ModifyTarget, Pause, SetSchedulingStrategy, SaveSequence,
       LoadSequence, vars
  <2>2. QED
    BY <2>1
<1>8. QED
  BY <1>1, <1>2, <1>3, <1>4, <1>5, <1>6, <1>7 DEF Next, Edit

\* The dependencies never have a cycle, not after a crash and a load of what was saved
\* either, and nothing is marked ready that depends on what is not: removing a target,
\* adding one or reordering them, which leave the marks alone, breaks neither.
THEOREM DependenciesHold == Spec => []DependenciesSound
<1>1. Init => DependenciesSound
  BY NoneIsAcyclic DEF Init, DependenciesSound, Nothing
<1>2. QED
  BY <1>1, DependenciesStep, Typing, PTL DEF Spec
=============================================================================
