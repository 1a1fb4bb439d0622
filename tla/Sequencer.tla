------------------------------ MODULE Sequencer ------------------------------
(***************************************************************************)
(* The exposure sequencer (class ExposureSequence, task/core/sequencer.cpp)*)
(* and Target::execute.  REST threads call executeAll, stop, pause, resume,*)
(* retryFailedTargets and the editing operations on one object while the   *)
(* thread that executeAll started walks the targets.                       *)
(*                                                                         *)
(* state_ is an atomic that executeAll, stop and the sequence thread load  *)
(* and store at different moments, and a picked target is a raw pointer    *)
(* used after mutex_ was released: those moments are separate steps.  What *)
(* happens under mutex_ is one step.  After undefined behaviour or a call  *)
(* of std::terminate (fault) nothing more is said.                         *)
(***************************************************************************)
EXTENDS TargetGraph, Sublists, Naturals, FiniteSets, Sequences, SequencesExt

CONSTANTS Targets,              \* target objects, told apart by their UUIDs
          NameOf,               \* their names, which may repeat
          Clients,              \* threads that call the sequence
          Controllers,          \* those of them that call executeAll and stop
          Ops,                  \* groups of operations that are called
          MaxRuns,              \* bound: successful calls of executeAll
          MaxCalls,             \* bound: calls of retry, remove, reorder, load
          MaxConcurrentTargets, \* maxConcurrentTargets_; 0 is no limit
          Freed                 \* a pointer to a target that was destroyed

OpGroups == {"stop", "pause", "modify", "depend", "schedule", "retry", "remove",
             "file", "database", "crash"}

ASSUME SequencerAssumption ==
  /\ IsFiniteSet(Targets) /\ Freed \notin Targets
  /\ NameOf \in [Targets -> Names]
  /\ Controllers \subseteq Clients
  /\ Ops \subseteq OpGroups
  /\ MaxRuns \in Nat /\ MaxCalls \in Nat
  /\ MaxConcurrentTargets \in Nat

Runs == 1..MaxRuns
NoRun == 0

VARIABLES
  state_,             \* SequenceState
  targets_,           \* the targets in their order
  status,             \* Target::status_, "None" while there is no such target
  enabled,            \* the targets with enabled_
  targetDependencies_,
  ready,              \* the names targetReadyStatus_ maps to true
  failedTargetNames_,
  completedTargets_,
  totalTargets_,
  thread,             \* sequence threads: what they do, and the target picked
  sequenceThread_,    \* the jthread: the run it holds, NoRun if not joinable
  client,             \* the call a client is in
  started,            \* calls of executeAll so far; the last one's run
  calls,              \* bounded calls so far
  saved,              \* the first row saveToDatabase wrote, the one that is loaded
  file,               \* the file saveSequence wrote
  fault               \* undefined behaviour or std::terminate was reached

graph == <<targetDependencies_, ready>>
disk == <<saved, file>>
vars == <<state_, targets_, status, enabled, graph, failedTargetNames_,
          completedTargets_, totalTargets_, thread, sequenceThread_, client,
          started, calls, disk, fault>>

\* the enum has Stopped too, which nothing stores
SequenceState == {"Idle", "Running", "Paused", "Stopping"}
TargetStatus  == {"Pending", "InProgress", "Completed", "Failed", "Skipped"}
ThreadPc == {"none", "created", "pick", "picked", "start", "executing",
             "account", "ending", "notifying", "done"}
ClientPc == {"idle", "reset", "spawn", "joinOld", "stopStore", "stopJoin",
             "joining", "stopIdle", "stopNotify", "retrying", "skipping"}

ThreadState == [pc : ThreadPc, target : Targets \cup {Freed}]
ClientState == [pc : ClientPc, run : Runs \cup {NoRun}, names : Seq(Names),
                before : SUBSET Runs]

\* where a sequence thread is, and the target it points to
At(pc, target) == [pc |-> pc, target |-> target]

\* a client inside executeAll (of a run), stop (with the runs that were under way
\* when it was called, and the one it joins) or a retry (with names to go)
Calling(pc, run, names, before) ==
  [pc |-> pc, run |-> run, names |-> names, before |-> before]
Resting == Calling("idle", NoRun, <<>>, {})

\* nothing has been saved
Nothing == [exists |-> FALSE, state |-> "Idle", targets |-> <<>>,
            enabled |-> {}, status |-> [t \in Targets |-> "None"],
            deps |-> [n \in Names |-> {}]]
NoFile == [exists |-> FALSE, targets |-> <<>>, enabled |-> {}]

Init ==
  /\ state_ = "Idle" /\ targets_ = <<>>
  /\ status = [t \in Targets |-> "None"]
  /\ enabled = {}
  /\ targetDependencies_ = [n \in Names |-> {}] /\ ready = {}
  /\ failedTargetNames_ = <<>> /\ completedTargets_ = 0 /\ totalTargets_ = 0
  /\ thread = [r \in Runs |-> At("none", Freed)] /\ sequenceThread_ = NoRun
  /\ client = [c \in Clients |-> Resting]
  /\ started = 0
  /\ calls = 0
  /\ saved = Nothing /\ file = NoFile
  /\ fault = FALSE

-----------------------------------------------------------------------------
(* Dependencies between targets. *)

\* updateTargetReadyStatus first marks every target ready; entries of targets
\* that are gone stay as they were
Readied(st, deps) ==
  Supported(ready \cup {NameOf[t] : t \in {u \in Targets : st[u] # "None"}}, deps)

AddTargetDependency(n, d) ==
  LET deps == [targetDependencies_ EXCEPT ![n] = @ \cup {d}] IN
  /\ "depend" \in Ops
  /\ Acyclic(deps)
  /\ targetDependencies_' = deps
  /\ ready' = Readied(status, deps)
  /\ UNCHANGED <<state_, targets_, status, enabled, failedTargetNames_,
                 completedTargets_, totalTargets_, thread, sequenceThread_,
                 client, started, calls, disk, fault>>

RemoveTargetDependency(n, d) ==
  LET deps == [targetDependencies_ EXCEPT ![n] = @ \ {d}] IN
  /\ "depend" \in Ops
  /\ targetDependencies_' = deps
  /\ ready' = Readied(status, deps)
  /\ UNCHANGED <<state_, targets_, status, enabled, failedTargetNames_,
                 completedTargets_, totalTargets_, thread, sequenceThread_,
                 client, started, calls, disk, fault>>

-----------------------------------------------------------------------------
(* Editing the sequence. *)

Precedes(t, u) == \E i, j \in DOMAIN targets_ :
                    i < j /\ targets_[i] = t /\ targets_[j] = u

\* t is the target that std::find_if finds by the name it has
IsFirst(t) == /\ t \in ToSet(targets_)
              /\ \A u \in Targets : NameOf[u] = NameOf[t] => ~Precedes(u, t)

\* only a target with the same UUID is refused, never one with the same name
AddTarget(t) ==
  /\ status[t] = "None"
  /\ targets_' = Append(targets_, t)
  /\ status' = [status EXCEPT ![t] = "Pending"]
  /\ enabled' = enabled \cup {t}
  /\ totalTargets_' = Len(targets_) + 1
  /\ UNCHANGED <<state_, graph, failedTargetNames_, completedTargets_, thread,
                 sequenceThread_, client, started, calls, disk, fault>>

\* the target objects in gone are destroyed under whoever still points to them
Dangle(gone) ==
  thread' = [r \in Runs |-> IF thread[r].target \in gone
                            THEN At(thread[r].pc, Freed)
                            ELSE thread[r]]

RemoveTarget(t) ==
  /\ "remove" \in Ops /\ calls < MaxCalls
  /\ IsFirst(t)
  /\ targets_' = RemoveFirst(targets_, t)
  /\ status' = [status EXCEPT ![t] = "None"]
  /\ enabled' = enabled \ {t}
  /\ totalTargets_' = Len(targets_) - 1
  /\ Dangle({t})
  /\ calls' = calls + 1
  /\ UNCHANGED <<state_, graph, failedTargetNames_, completedTargets_,
                 sequenceThread_, client, started, disk, fault>>

\* modifyTarget with setEnabled, the field of a target that execute() reads
ModifyTarget(t) ==
  /\ "modify" \in Ops
  /\ IsFirst(t)
  /\ enabled' \in {enabled \cup {t}, enabled \ {t}}
  /\ UNCHANGED <<state_, targets_, status, graph, failedTargetNames_,
                 completedTargets_, totalTargets_, thread, sequenceThread_,
                 client, started, calls, disk, fault>>

\* the targets outside kept are destroyed with the vector they were left in
Keep(kept) ==
  /\ targets_' = Reverse(Found(targets_, kept))
  /\ status' = [t \in Targets |-> IF t \in kept THEN status[t] ELSE "None"]
  /\ enabled' = enabled \cap kept
  /\ Dangle(Targets \ kept)

\* slip: the target at the bottom of the stack is not taken over
ReorderLosesOne == Keep({t \in Targets : IsFirst(t) /\ t # targets_[1]})

\* targets_ has been moved from when the visitor searches it for dependencies,
\* so it finds none, and popping the stack turns the order around.  A name is
\* visited once: a further target that has it is not taken over.
ReorderTargetsByDependencies == Keep({t \in Targets : IsFirst(t)})

\* std::sort by the number of dependencies: any order that sorts it
ReorderTargetsByPriority ==
  \E order \in SetToSeqs(ToSet(targets_)) :
    /\ \A i, j \in DOMAIN order :
         i < j => Cardinality(targetDependencies_[NameOf[order[i]]])
                    <= Cardinality(targetDependencies_[NameOf[order[j]]])
    /\ targets_' = order
    /\ UNCHANGED <<status, enabled, thread>>

SetSchedulingStrategy ==
  /\ "schedule" \in Ops /\ calls < MaxCalls
  /\ ReorderTargetsByDependencies \/ ReorderTargetsByPriority
  /\ calls' = calls + 1
  /\ UNCHANGED <<state_, graph, failedTargetNames_, completedTargets_,
                 totalTargets_, sequenceThread_, client, started, disk, fault>>

-----------------------------------------------------------------------------
(* executeAll and stop.  A call that is refused (it throws, or stop finds the *)
(* sequence Idle) changes nothing.                                            *)

Goto(c, pc) ==
  client' = [client EXCEPT ![c] = Calling(pc, client[c].run, client[c].names,
                                          client[c].before)]
Return(c) == client' = [client EXCEPT ![c] = Resting]
SequenceUnchanged == UNCHANGED <<targets_, status, enabled, graph,
                                 failedTargetNames_, totalTargets_, calls, disk>>

\* slip: the state is not compared
ExecuteAnyway(c) ==
  /\ client[c].pc = "idle" /\ started < MaxRuns
  /\ state_' = "Running"
  /\ started' = started + 1
  /\ thread' = [thread EXCEPT ![started + 1] = At("created", Freed)]
  /\ client' = [client EXCEPT ![c] = Calling("reset", started + 1, <<>>, {})]
  /\ UNCHANGED <<completedTargets_, sequenceThread_, fault>> /\ SequenceUnchanged

\* the compare_exchange from Idle to Running
ExecuteAll(c) ==
  /\ client[c].pc = "idle" /\ started < MaxRuns
  /\ state_ = "Idle"
  /\ state_' = "Running"
  /\ started' = started + 1
  /\ thread' = [thread EXCEPT ![started + 1] = At("created", Freed)]
  /\ client' = [client EXCEPT ![c] = Calling("reset", started + 1, <<>>, {})]
  /\ UNCHANGED <<completedTargets_, sequenceThread_, fault>> /\ SequenceUnchanged

ExecuteReset(c) ==
  /\ client[c].pc = "reset"
  /\ completedTargets_' = 0
  /\ Goto(c, "spawn")
  /\ UNCHANGED <<state_, thread, sequenceThread_, started, fault>>
  /\ SequenceUnchanged

\* The new thread runs before the assignment to sequenceThread_ joins the old
\* one; that join throws in a destructor if a stop() is already joining it.
ExecuteSpawn(c) ==
  /\ client[c].pc = "spawn"
  /\ thread' = [thread EXCEPT ![client[c].run] = At("pick", Freed)]
  /\ sequenceThread_' = client[c].run
  /\ IF sequenceThread_ = NoRun
     THEN Return(c) /\ UNCHANGED fault
     ELSE /\ client' = [client EXCEPT ![c] = Calling("joinOld", sequenceThread_, <<>>, {})]
          /\ fault' = \E d \in Clients : client[d].pc = "joining"
  /\ UNCHANGED <<state_, completedTargets_, started>> /\ SequenceUnchanged

JoinOld(c) ==
  /\ client[c].pc = "joinOld"
  /\ thread[client[c].run].pc = "done"
  /\ Return(c)
  /\ UNCHANGED <<state_, completedTargets_, thread, sequenceThread_, started, fault>>
  /\ SequenceUnchanged

\* the load of state_ at the top of stop()
Stop(c) ==
  /\ "stop" \in Ops
  /\ client[c].pc = "idle"
  /\ state_ # "Idle"
  /\ client' = [client EXCEPT ![c] = Calling("stopStore", NoRun, <<>>, 1..started)]
  /\ UNCHANGED <<state_, completedTargets_, thread, sequenceThread_, started, fault>>
  /\ SequenceUnchanged

StopStore(c) ==
  /\ client[c].pc = "stopStore"
  /\ state_' = "Stopping"
  /\ Goto(c, "stopJoin")
  /\ UNCHANGED <<completedTargets_, thread, sequenceThread_, started, fault>>
  /\ SequenceUnchanged

\* slip: the thread is not joined
StopWithoutJoin(c) ==
  /\ client[c].pc = "stopJoin"
  /\ Goto(c, "stopIdle")
  /\ UNCHANGED <<state_, completedTargets_, thread, sequenceThread_, started, fault>>
  /\ SequenceUnchanged

\* joinable() and join(); joining what somebody else is joining throws
StopJoin(c) ==
  /\ client[c].pc = "stopJoin"
  /\ \/ sequenceThread_ = NoRun /\ Goto(c, "stopIdle")
     \/ /\ sequenceThread_ # NoRun
        /\ \A d \in Clients : client[d].pc # "joining"
        /\ client' = [client EXCEPT ![c] =
             Calling("joining", sequenceThread_, <<>>, client[c].before)]
     \/ /\ sequenceThread_ # NoRun
        /\ \E d \in Clients : client[d].pc = "joining"
        /\ Return(c)
  /\ UNCHANGED <<state_, completedTargets_, thread, sequenceThread_, started, fault>>
  /\ SequenceUnchanged

StopJoined(c) ==
  /\ client[c].pc = "joining"
  /\ thread[client[c].run].pc = "done"
  /\ sequenceThread_' = NoRun
  /\ Goto(c, "stopIdle")
  /\ UNCHANGED <<state_, completedTargets_, thread, started, fault>>
  /\ SequenceUnchanged

StopIdle(c) ==
  /\ client[c].pc = "stopIdle"
  /\ state_' = "Idle"
  /\ Goto(c, "stopNotify")
  /\ UNCHANGED <<completedTargets_, thread, sequenceThread_, started, fault>>
  /\ SequenceUnchanged

StopReturn(c) ==
  /\ client[c].pc = "stopNotify"
  /\ Return(c)
  /\ UNCHANGED <<state_, completedTargets_, thread, sequenceThread_, started, fault>>
  /\ SequenceUnchanged

\* pause() and resume(): compare_exchange
Pause ==
  /\ "pause" \in Ops
  /\ \/ state_ = "Running" /\ state_' = "Paused"
     \/ state_ = "Paused" /\ state_' = "Running"
  /\ UNCHANGED <<completedTargets_, thread, sequenceThread_, client, started, fault>>
  /\ SequenceUnchanged

-----------------------------------------------------------------------------
(* executeSequence on the thread of run r, with Target::execute inside.       *)

ControlUnchanged == UNCHANGED <<targets_, enabled, graph, totalTargets_,
                                sequenceThread_, client, started, calls, disk>>

Move(r, from, to) ==
  /\ thread[r].pc = from
  /\ thread' = [thread EXCEPT ![r] = At(to, thread[r].target)]

\* the thread dereferences its target, or what is left of it
Alive(r) == thread[r].target # Freed

Executable == {t \in Targets : status[t] = "Pending" /\ NameOf[t] \in ready}

AtLimit == /\ MaxConcurrentTargets > 0
           /\ Cardinality({t \in Targets : status[t] = "InProgress"})
                >= MaxConcurrentTargets

Stopping == state_ = "Stopping"

\* getNextExecutableTarget returns the first one; the pointer outlives the lock
GetNextExecutableTarget(r) ==
  /\ thread[r].pc = "pick"
  /\ \/ /\ Stopping \/ AtLimit \/ Executable = {}
        /\ thread' = [thread EXCEPT ![r] = At("ending", Freed)]
     \/ /\ ~Stopping /\ ~AtLimit
        /\ \E t \in Executable :
             /\ \A u \in Executable : ~Precedes(u, t)
             /\ thread' = [thread EXCEPT ![r] = At("picked", t)]
  /\ UNCHANGED <<state_, status, failedTargetNames_, completedTargets_, fault>>
  /\ ControlUnchanged

\* slip: the state is not looked at again after the search
CommitUnchecked(r) ==
  /\ Move(r, "picked", "start")
  /\ UNCHANGED <<state_, status, failedTargetNames_, completedTargets_, fault>>
  /\ ControlUnchanged

CheckStopping(r) ==
  /\ thread[r].pc = "picked"
  /\ thread' = [thread EXCEPT ![r] =
       IF Stopping THEN At("ending", Freed)
                   ELSE At("start", thread[r].target)]
  /\ UNCHANGED <<state_, status, failedTargetNames_, completedTargets_, fault>>
  /\ ControlUnchanged

\* slip: a disabled target stays Pending
SkipLeavesPending(t) == status' = status

\* execute() of a disabled target
SkipTarget(t) == status' = [status EXCEPT ![t] = "Skipped"]

\* notifyTargetStart, then execute() up to its first status
StartTarget(r) ==
  /\ Alive(r)
  /\ \/ /\ thread[r].target \in enabled
        /\ Move(r, "start", "executing")
        /\ status' = [status EXCEPT ![thread[r].target] = "InProgress"]
     \/ /\ thread[r].target \notin enabled
        /\ Move(r, "start", "account")
        /\ SkipTarget(thread[r].target)
  /\ UNCHANGED <<state_, failedTargetNames_, completedTargets_, fault>>
  /\ ControlUnchanged

\* the tasks are through; execute() does not throw
FinishTarget(r) ==
  /\ Alive(r)
  /\ Move(r, "executing", "account")
  /\ \E s \in {"Completed", "Failed"} :
       status' = [status EXCEPT ![thread[r].target] = s]
  /\ UNCHANGED <<state_, failedTargetNames_, completedTargets_, fault>>
  /\ ControlUnchanged

\* slip: the name of a failed target is not noted
FailureUnlisted(t) == UNCHANGED failedTargetNames_

ListFailure(t) == failedTargetNames_' = Append(failedTargetNames_, NameOf[t])

Counted(t) == IF status[t] = "Completed" THEN completedTargets_ + 1
                                         ELSE completedTargets_

\* the status is read back, counted, and the end notified
AccountTarget(r) ==
  LET t == thread[r].target IN
  /\ Alive(r)
  /\ thread[r].pc = "account"
  /\ thread' = [thread EXCEPT ![r] = At("pick", Freed)]
  /\ completedTargets_' = Counted(t)
  /\ IF status[t] = "Failed" THEN ListFailure(t) ELSE UNCHANGED failedTargetNames_
  /\ UNCHANGED <<state_, status, fault>> /\ ControlUnchanged

\* any of these three through a pointer to a target that is gone
UseAfterFree(r) ==
  /\ thread[r].pc \in {"start", "executing", "account"} /\ ~Alive(r)
  /\ fault' = TRUE
  /\ UNCHANGED <<state_, status, failedTargetNames_, completedTargets_, thread>>
  /\ ControlUnchanged

\* slip: the thread leaves the state as it is
KeepState == UNCHANGED state_

BackToIdle == state_' = "Idle"

EndSequence(r) ==
  /\ Move(r, "ending", "notifying")
  /\ BackToIdle
  /\ UNCHANGED <<status, failedTargetNames_, completedTargets_, fault>>
  /\ ControlUnchanged

NotifySequenceEnd(r) ==
  /\ Move(r, "notifying", "done")
  /\ UNCHANGED <<state_, status, failedTargetNames_, completedTargets_, fault>>
  /\ ControlUnchanged

-----------------------------------------------------------------------------
(* retryFailedTargets and skipFailedTargets: the list is taken under the     *)
(* mutex and then worked off one lock at a time.                             *)

TakeFailed(c) ==
  /\ "retry" \in Ops /\ calls < MaxCalls
  /\ client[c].pc = "idle" /\ failedTargetNames_ # <<>>
  /\ \E pc \in {"retrying", "skipping"} :
       client' = [client EXCEPT ![c] = Calling(pc, NoRun, failedTargetNames_, {})]
  /\ failedTargetNames_' = <<>>
  /\ calls' = calls + 1
  /\ UNCHANGED <<state_, targets_, status, enabled, graph, completedTargets_,
                 totalTargets_, thread, sequenceThread_, started, disk, fault>>

\* the next name to deal with, whose first target is set, if there is one
SetNamed(c) ==
  status' = [t \in Targets |->
    IF IsFirst(t) /\ NameOf[t] = Head(client[c].names)
    THEN IF client[c].pc = "retrying" THEN "Pending" ELSE "Skipped"
    ELSE status[t]]

\* slip: the loop over the names does not move on past the first
SetFirstFailed(c) ==
  /\ client[c].pc \in {"retrying", "skipping"}
  /\ SetNamed(c)
  /\ UNCHANGED <<state_, targets_, enabled, graph, failedTargetNames_, client,
                 completedTargets_, totalTargets_, thread, sequenceThread_,
                 started, calls, disk, fault>>

SetFailed(c) ==
  /\ client[c].pc \in {"retrying", "skipping"} /\ client[c].names # <<>>
  /\ SetNamed(c)
  /\ client' = [client EXCEPT ![c] =
       IF Tail(client[c].names) = <<>> THEN Resting
       ELSE Calling(client[c].pc, NoRun, Tail(client[c].names), {})]
  /\ UNCHANGED <<state_, targets_, enabled, graph, failedTargetNames_,
                 completedTargets_, totalTargets_, thread, sequenceThread_,
                 started, calls, disk, fault>>

-----------------------------------------------------------------------------
(* Saving and loading. *)

\* saveSequence: names and enabled flags only
SaveSequence ==
  /\ "file" \in Ops
  /\ file' = [exists |-> TRUE, targets |-> targets_, enabled |-> enabled]
  /\ UNCHANGED <<state_, targets_, status, enabled, graph, failedTargetNames_,
                 completedTargets_, totalTargets_, thread, sequenceThread_,
                 client, started, calls, saved, fault>>

LoadSequence ==
  /\ "file" \in Ops /\ calls < MaxCalls /\ file # NoFile
  /\ targets_' = file.targets /\ enabled' = file.enabled
  /\ status' = [t \in Targets |-> IF t \in ToSet(file.targets) THEN "Pending"
                                                               ELSE "None"]
  /\ totalTargets_' = Len(file.targets)
  /\ Dangle(Targets)
  /\ calls' = calls + 1
  /\ UNCHANGED <<state_, graph, failedTargetNames_, completedTargets_,
                 sequenceThread_, client, started, disk, fault>>

\* what serializeToJson writes
Row == [exists |-> TRUE, state |-> state_, targets |-> targets_,
        enabled |-> enabled, status |-> status, deps |-> targetDependencies_]

\* saveToDatabase inserts a row, whatever rows there are: uuid_ is always the
\* empty string and no key, and a query with limit 1 returns the first row.  The
\* transaction object is dropped at once, so the row stays although COMMIT and
\* then ROLLBACK throw.
SaveToDatabase ==
  /\ "database" \in Ops
  /\ saved = Nothing
  /\ saved' = Row
  /\ UNCHANGED <<state_, targets_, status, enabled, graph, failedTargetNames_,
                 completedTargets_, totalTargets_, thread, sequenceThread_,
                 client, started, calls, file, fault>>

\* every row goes
DeleteFromDatabase ==
  /\ "database" \in Ops
  /\ saved # Nothing
  /\ saved' = Nothing
  /\ UNCHANGED <<state_, targets_, status, enabled, graph, failedTargetNames_,
                 completedTargets_, totalTargets_, thread, sequenceThread_,
                 client, started, calls, file, fault>>

\* loadFromDatabase with deserializeFromJson; totalTargets_ is left alone
LoadFromDatabase ==
  /\ "database" \in Ops /\ calls < MaxCalls /\ saved # Nothing
  /\ state_' = saved.state
  /\ targets_' = saved.targets /\ enabled' = saved.enabled
  /\ status' = saved.status
  /\ targetDependencies_' = saved.deps
  /\ ready' = Readied(saved.status, saved.deps)
  /\ Dangle(Targets)
  /\ calls' = calls + 1
  /\ UNCHANGED <<failedTargetNames_, completedTargets_, totalTargets_,
                 sequenceThread_, client, started, disk, fault>>

\* the process dies and a new one starts with an empty sequence
Crash ==
  /\ "crash" \in Ops /\ calls < MaxCalls
  /\ state_' = "Idle" /\ targets_' = <<>>
  /\ status' = Nothing.status /\ enabled' = {}
  /\ targetDependencies_' = Nothing.deps /\ ready' = {}
  /\ failedTargetNames_' = <<>> /\ completedTargets_' = 0 /\ totalTargets_' = 0
  /\ thread' = [r \in Runs |-> At("none", Freed)] /\ sequenceThread_' = NoRun
  /\ client' = [c \in Clients |-> Resting]
  /\ started' = 0 /\ fault' = FALSE
  /\ calls' = calls + 1
  /\ UNCHANGED disk

-----------------------------------------------------------------------------
ThreadStep(r) ==
  /\ ~fault
  /\ \/ GetNextExecutableTarget(r) \/ CheckStopping(r) \/ StartTarget(r)
     \/ FinishTarget(r) \/ AccountTarget(r) \/ UseAfterFree(r)
     \/ EndSequence(r) \/ NotifySequenceEnd(r)

\* the steps a call takes once it has begun
CallStep(c) ==
  /\ ~fault
  /\ \/ ExecuteReset(c) \/ ExecuteSpawn(c) \/ JoinOld(c) \/ StopStore(c)
     \/ StopJoin(c) \/ StopJoined(c) \/ StopIdle(c) \/ StopReturn(c)
     \/ SetFailed(c)

Edit ==
  \/ \E t \in Targets : AddTarget(t) \/ RemoveTarget(t) \/ ModifyTarget(t)
  \/ \E n, d \in Names : AddTargetDependency(n, d) \/ RemoveTargetDependency(n, d)

Next ==
  \/ \E r \in Runs : ThreadStep(r)
  \/ \E c \in Clients : CallStep(c)
  \/ /\ ~fault
     /\ \/ \E c \in Controllers : ExecuteAll(c) \/ Stop(c)
        \/ \E c \in Clients : TakeFailed(c)
        \/ Edit \/ Pause \/ SetSchedulingStrategy
        \/ SaveSequence \/ LoadSequence
        \/ SaveToDatabase \/ LoadFromDatabase \/ DeleteFromDatabase
        \/ Crash

Spec == Init /\ [][Next]_vars

\* threads keep running: a target's tasks end and a call goes on
Fairness == /\ \A r \in Runs : WF_vars(ThreadStep(r))
            /\ \A c \in Clients : WF_vars(CallStep(c))
FairSpec == Spec /\ Fairness

-----------------------------------------------------------------------------
(* Properties *)

\* Types.
TypeOK ==
  /\ state_ \in SequenceState
  /\ status \in [Targets -> TargetStatus \cup {"None"}]
  /\ enabled \subseteq Targets /\ ready \subseteq Names
  /\ targetDependencies_ \in [Names -> SUBSET Names]
  /\ failedTargetNames_ \in Seq(Names)
  /\ completedTargets_ \in Nat
  /\ thread \in [Runs -> ThreadState]
  /\ sequenceThread_ \in Runs \cup {NoRun}
  /\ client \in [Clients -> ClientState]
  /\ started \in Runs \cup {NoRun}
  /\ calls \in 0..MaxCalls
  /\ fault \in BOOLEAN
  /\ saved.state \in SequenceState
  /\ saved.status \in [Targets -> TargetStatus \cup {"None"}]
  /\ saved.deps \in [Names -> SUBSET Names]
  /\ saved.enabled \subseteq Targets /\ file.enabled \subseteq Targets

\* targets_ lists every target there is once
ListedOnce == /\ ToSet(targets_) = {t \in Targets : status[t] # "None"}
              /\ Len(targets_) = Cardinality(ToSet(targets_))

\* the step removes t, replaces it or loses it with the process, or keeps an
\* earlier target of its name in its place
TargetLeaves(t) ==
  \/ RemoveTarget(t) \/ LoadSequence \/ LoadFromDatabase \/ Crash
  \/ \E u \in ToSet(targets_') : Precedes(u, t) /\ NameOf[u] = NameOf[t]

KeepStep == \A t \in ToSet(targets_) : status'[t] = "None" => TargetLeaves(t)

\* The sequence holds every target once and loses none but by removeTarget, a load
\* or the end of the process, and by a reordering by dependencies, which drops
\* the targets whose name an earlier one has (sequencer.cpp:740) but keeps that
\* one: of every name a target is left.
TargetsKept == []ListedOnce /\ [][KeepStep]_vars

\* No failure is lost: a target that failed is in failedTargetNames_, or the
\* thread that ran it is about to put it there, or a retryFailedTargets or
\* skipFailedTargets that took the list is about to deal with it.  (It is by
\* their names that targets are listed: of two failed ones with the same name
\* only the first is dealt with.)
FailedIsListed ==
  \A t \in Targets : status[t] = "Failed" =>
    \/ NameOf[t] \in ToSet(failedTargetNames_)
    \/ \E r \in Runs : thread[r] = At("account", t)
    \/ \E c \in Clients : NameOf[t] \in ToSet(client[c].names)

Active(r) == thread[r].pc \in {"pick", "picked", "start", "executing", "account",
                              "ending"}

\* With nobody in executeAll or stop and no thread at work the sequence is Idle:
\* no order of stop(), executeAll(), pause() and the end of a run leaves it in a
\* state from which executeAll() is refused for ever.
IdleAtRest ==
  /\ ~fault
  /\ \A r \in Runs : ~Active(r)
  /\ \A c \in Clients : client[c].pc \in {"idle", "joinOld", "stopNotify",
                                          "retrying", "skipping"}
  => state_ = "Idle"

\* When stop() has stored Idle and returns, the runs that were under way when
\* it was called are over.
StopStops ==
  \A c \in Clients : client[c].pc = "stopNotify" =>
    \A r \in client[c].before : thread[r].pc \in {"notifying", "done"}

\* One sequence thread at a time walks the targets, and a target that is
\* InProgress is being executed by it.
OneRunAtATime ==
  /\ \A r, q \in Runs : Active(r) /\ Active(q) => r = q
  /\ \A t \in Targets : status[t] = "InProgress" =>
       \E r \in Runs : thread[r] = At("executing", t)

\* Every run ends, and every call returns: disabled, failing and retried targets
\* do not keep the thread busy for ever.
RunsEnd == /\ \A r \in Runs : thread[r].pc = "created" ~> thread[r].pc = "done"
           /\ \A c \in Clients : client[c].pc # "idle" ~> client[c].pc = "idle"

-----------------------------------------------------------------------------
\* How far the thread of a run is with its target, and how far a call of stop()
\* is, as the callers of executeAll() and stop() see them.
StageAt(pc) == CASE pc = "start"     -> "committed"
                 [] pc = "executing" -> "executing"
                 [] pc = "account"   -> "settling"
                 [] pc \in {"none", "notifying", "done"} -> "over"
                 [] OTHER -> "between"
StopAt(pc) == CASE pc = "stopStore" -> "asked"
                [] pc \in {"stopJoin", "joining"} -> "heard"
                [] pc \in {"stopIdle", "stopNotify"} -> "answered"
                [] OTHER -> "none"

\* executeAll(), stop() and the sequence thread implement SequenceLife: runs follow
\* one another, a run takes up no further target once stop() has stored Stopping
\* (but for the one it was committed to), whatever pause() and resume() store in
\* between, and stop() is answered only when no run is under way.
Life == INSTANCE SequenceLife WITH
          Callers <- Clients,
          stage   <- [r \in Runs |-> StageAt(thread[r].pc)],
          runs    <- started,
          stop    <- [c \in Clients |-> StopAt(client[c].pc)]
ImplementsLife == Life!LifeSpec
=============================================================================
