------------------------- MODULE TaskManager_proofs -------------------------
(* Theorems about TaskManager for any number of tasks and client threads.   *)
EXTENDS TaskManager, ListLemmas

USE DEF registry, early, vars

(* The inductive invariant, in parts. *)

NotRunYet == {"none", "queued", "cancelling", "starting", "startStamp",
              "startNotify"}
Submitting(c) == client[c].pc \in {"submitCount", "submitNotify", "submitPost"}

\* A task exists wherever anything refers to it, and a task being submitted
\* belongs to one client and has no closure yet.
SubmissionInv ==
  /\ \A t \in Tasks : closure[t] # "none" => status[t] # "None"
  /\ \A t \in tasks_ : status[t] # "None"
  /\ \A c \in Clients : client[c].pc # "idle" => status[client[c].task] # "None"
  /\ \A c \in Clients : Submitting(c) => closure[client[c].task] = "none"
  /\ \A c, d \in Clients : c # d /\ Submitting(c) /\ Submitting(d)
                             => client[c].task # client[d].task

\* What a cancellation that came in time has already excluded.
CancelInv ==
  /\ \A t \in Tasks : closure[t] \in NotRunYet => t \notin started
  /\ \A t \in cancelledEarly :
       /\ cancelRequested[t] /\ t \notin started
       /\ closure[t] \in {"none", "queued", "cancelling"} \cup Written
  /\ \A t \in Tasks : closure[t] \in BeforeDecision => status[t] # "Completed"
  /\ \A t \in cancelledInTime :
       cancelRequested[t] /\ closure[t] # "finComplete" /\ status[t] # "Completed"

\* A closure past its last status write left a final status, and is neither done
\* nor inside its last callback while a client is about to write Cancelled:
\* notifyStatus needs mutex_.
EndInv ==
  /\ \A t \in Tasks : closure[t] \in Written => status[t] \notin Active
  /\ \A c \in Clients :
       client[c].pc = "cancelWrite"
         => LET t == client[c].task
            IN  closure[t] # "done" /\ (closure[t] = "endNotify" => callback[t] = "out")

\* Why a task may have a final status.
Accounted(t) ==
  \/ closure[t] \in Written \/ cancelRequested[t] \/ failCalls[t] > 0
  \/ /\ closure[t] = "none" /\ status[t] = "Failed"
     /\ \A c \in Clients : Submitting(c) => client[c].task # t
AccountedInv ==
  /\ \A t \in Tasks : status[t] \notin Active \cup {"None"} => Accounted(t)
  /\ \A t \in Tasks \ tasks_ : status[t] # "None" => Accounted(t)
  /\ \A c \in Clients :
       /\ client[c].pc \in {"fail", "failStamp"} => failCalls[client[c].task] > 0
       /\ client[c].pc = "cancelWrite" => cancelRequested[client[c].task]

\* Only a thread that notifies is inside the callback.
CallbackInv ==
  /\ \A t \in Tasks : callback[t] # "out" => closure[t] \in {"startNotify", "endNotify"}
  /\ \A c \in Clients : callback[c] # "out" => client[c].pc \in {"submitNotify", "notify"}

\* Somebody will broadcast the status t has now: a thread that has not read it
\* yet, or that has read this one.
WillBeHeard(t) ==
  \/ /\ closure[t] \in {"startStamp", "startNotify", "stamp", "endNotify"} \cup Counting
     /\ callback[t] \in {"out", "in", status[t]}
  \/ \E c \in Clients :
       /\ client[c].task = t
       /\ client[c].pc \in {"submitCount", "submitNotify", "failStamp", "failCount", "notify"}
       /\ callback[c] \in {"out", "in", status[t]}
HeardInv == \A t \in Tasks : status[t] # "None" => t \in heard \/ WillBeHeard(t)

\* Every operation preserves the types; that a task exists where it is notified
\* about is what SubmissionInv adds.
LEMMA TypeStep ==
  ASSUME TypeOK, SubmissionInv, [Next]_vars
  PROVE  TypeOK'
<1> USE ConstantsAssumption DEF TypeOK, Status, Counters, Counting, ClosurePc, ClientPc, CallbackPc,
      SubmissionInv,
      Bump, Stamp, SetStatus, Goto, NotifyStatus, CopyCallback, ReadStatus, Broadcast,
      Unlocked, Step, LookUp, StartOrCancel, Outcome, NotStarted, Unlock, Erase, Active
<1>1. ASSUME NEW t \in Tasks, ClosureCheck(t) PROVE TypeOK'
  BY <1>1 DEF ClosureCheck
<1>2. ASSUME NEW t \in Tasks, ClosureStart(t) PROVE TypeOK'
  BY <1>2 DEF ClosureStart
<1>3. ASSUME NEW t \in Tasks, ClosureStamp(t) PROVE TypeOK'
  BY <1>3 DEF ClosureStamp
<1>4. ASSUME NEW t \in Tasks, ClosureRun(t) PROVE TypeOK'
  BY <1>4 DEF ClosureRun
<1>5. ASSUME NEW t \in Tasks, RunnerEnds(t) PROVE TypeOK'
  BY <1>5 DEF RunnerEnds
<1>6. ASSUME NEW t \in Tasks, ClosureDecide(t) PROVE TypeOK'
  BY <1>6 DEF ClosureDecide
<1>7. ASSUME NEW t \in Tasks, ClosureFinish(t) PROVE TypeOK'
  <2>1. CASE closure[t] = "finCancel"
    BY <1>7, <2>1 DEF ClosureFinish
  <2>2. CASE closure[t] = "finComplete"
    BY <1>7, <2>2 DEF ClosureFinish
  <2>3. CASE closure[t] = "failing"
    BY <1>7, <2>3 DEF ClosureFinish
  <2>4. CASE closure[t] = "cancelling"
    BY <1>7, <2>4 DEF ClosureFinish
  <2>5. QED
    BY <1>7, <2>1, <2>2, <2>3, <2>4 DEF ClosureFinish
<1>8. ASSUME NEW t \in Tasks, ClosureCount(t) PROVE TypeOK'
  <2>1. CASE closure[t] = "countCancelled"
    BY <1>8, <2>1 DEF ClosureCount
  <2>2. CASE closure[t] = "countCompleted"
    BY <1>8, <2>2 DEF ClosureCount
  <2>3. CASE closure[t] = "countFailed"
    BY <1>8, <2>3 DEF ClosureCount
  <2>4. CASE closure[t] = "cancelCount"
    BY <1>8, <2>4 DEF ClosureCount
  <2>5. QED
    BY <1>8, <2>1, <2>2, <2>3, <2>4 DEF ClosureCount
<1>9. ASSUME NEW t \in Tasks, ClosureNotify(t) PROVE TypeOK'
  BY <1>9 DEF ClosureNotify
<1>10. ASSUME NEW t \in Tasks, ClosureDone(t) PROVE TypeOK'
  BY <1>10 DEF ClosureDone
<1>11. ASSUME NEW t \in Tasks, GrowOld(t) PROVE TypeOK'
  BY <1>11 DEF GrowOld
<1>12. ASSUME NEW c \in Clients, SubmitCount(c) PROVE TypeOK'
  BY <1>12 DEF SubmitCount
<1>13. ASSUME NEW c \in Clients, SubmitPost(c) PROVE TypeOK'
  BY <1>13 DEF SubmitPost
<1>14. ASSUME NEW c \in Clients, SubmitWithoutLoop(c) PROVE TypeOK'
  BY <1>14 DEF SubmitWithoutLoop
<1>15. ASSUME NEW c \in Clients, CancelWrite(c) PROVE TypeOK'
  BY <1>15 DEF CancelWrite
<1>16. ASSUME NEW c \in Clients, FailWrite(c) PROVE TypeOK'
  BY <1>16 DEF FailWrite
<1>17. ASSUME NEW c \in Clients, FailStamp(c) PROVE TypeOK'
  BY <1>17 DEF FailStamp
<1>18. ASSUME NEW c \in Clients, FailCount(c) PROVE TypeOK'
  BY <1>18 DEF FailCount
<1>19. ASSUME NEW c \in Clients, TouchWrite(c) PROVE TypeOK'
  BY <1>19 DEF TouchWrite
<1>20. ASSUME NEW c \in Clients, ClientNotify(c) PROVE TypeOK'
  BY <1>20 DEF ClientNotify
<1>21. ASSUME NEW c \in Clients, ClientBroadcast(c) PROVE TypeOK'
  <2>1. /\ UNCHANGED <<status, cancelRequested, old, registry, totals, closure, mutex,
                       failCalls, early, loopAlive, started>>
        /\ callback' = [callback EXCEPT ![c] = "out"]
        /\ heard' \in {heard, heard \cup {client[c].task}}
        /\ client[c].pc \in {"submitNotify", "notify"}
    BY <1>21 DEF ClientBroadcast
  <2>2. PICK pc \in {"submitPost", "idle"} :
          /\ client' = [client EXCEPT ![c] = [pc |-> pc, task |-> client[c].task]]
          /\ pc = "submitPost" => client[c].pc = "submitNotify"
    BY <1>21 DEF ClientBroadcast
  <2>3. QED
    BY <2>1, <2>2
<1>22. ASSUME NEW c \in Clients, NEW t \in Tasks, SubmitInsert(c, t) PROVE TypeOK'
  BY <1>22 DEF SubmitInsert
<1>23. ASSUME NEW c \in Clients, NEW t \in Tasks, CancelRequest(c, t) PROVE TypeOK'
  <2>1. CASE status[t] = "Pending"
    BY <1>23, <2>1 DEF CancelRequest
  <2>2. CASE status[t] # "Pending"
    BY <1>23, <2>2 DEF CancelRequest
  <2>3. QED
    BY <2>1, <2>2
<1>24. ASSUME NEW c \in Clients, NEW t \in Tasks, FailTask(c, t) PROVE TypeOK'
  BY <1>24 DEF FailTask
<1>25. ASSUME NEW c \in Clients, NEW t \in Tasks, TouchTask(c, t) PROVE TypeOK'
  BY <1>25 DEF TouchTask
<1>26. CASE CleanupOldTasks
  BY <1>26 DEF CleanupOldTasks, Expired
<1>27. CASE LoopGone
  BY <1>27 DEF LoopGone
<1>28. CASE UNCHANGED vars
  BY <1>28
<1>29. QED
  BY <1>1, <1>2, <1>3, <1>4, <1>5, <1>6, <1>7, <1>8, <1>9, <1>10, <1>11,
     <1>12, <1>13, <1>14, <1>15, <1>16, <1>17, <1>18, <1>19, <1>20,
     <1>21, <1>22, <1>23, <1>24, <1>25, <1>26, <1>27, <1>28 DEF Next, ClosureStep, CallStep, Call

\* Every operation preserves SubmissionInv.
LEMMA SubmissionStep ==
  ASSUME TypeOK, SubmissionInv, [Next]_vars
  PROVE  SubmissionInv'
<1> USE ConstantsAssumption DEF TypeOK, Status, Counters, Counting, ClosurePc, ClientPc, CallbackPc,
      SubmissionInv, Submitting,
      Bump, Stamp, SetStatus, Goto, NotifyStatus, CopyCallback, ReadStatus, Broadcast,
      Unlocked, Step, LookUp, StartOrCancel, Outcome, NotStarted, Unlock, Erase, Active
<1>1. ASSUME NEW t \in Tasks, ClosureCheck(t) PROVE SubmissionInv'
  BY <1>1 DEF ClosureCheck
<1>2. ASSUME NEW t \in Tasks, ClosureStart(t) PROVE SubmissionInv'
  BY <1>2 DEF ClosureStart
<1>3. ASSUME NEW t \in Tasks, ClosureStamp(t) PROVE SubmissionInv'
  BY <1>3 DEF ClosureStamp
<1>4. ASSUME NEW t \in Tasks, ClosureRun(t) PROVE SubmissionInv'
  BY <1>4 DEF ClosureRun
<1>5. ASSUME NEW t \in Tasks, RunnerEnds(t) PROVE SubmissionInv'
  BY <1>5 DEF RunnerEnds
<1>6. ASSUME NEW t \in Tasks, ClosureDecide(t) PROVE SubmissionInv'
  BY <1>6 DEF ClosureDecide
<1>7. ASSUME NEW t \in Tasks, ClosureFinish(t) PROVE SubmissionInv'
  <2>1. CASE closure[t] = "finCancel"
    BY <1>7, <2>1 DEF ClosureFinish
  <2>2. CASE closure[t] = "finComplete"
    BY <1>7, <2>2 DEF ClosureFinish
  <2>3. CASE closure[t] = "failing"
    BY <1>7, <2>3 DEF ClosureFinish
  <2>4. CASE closure[t] = "cancelling"
    BY <1>7, <2>4 DEF ClosureFinish
  <2>5. QED
    BY <1>7, <2>1, <2>2, <2>3, <2>4 DEF ClosureFinish
<1>8. ASSUME NEW t \in Tasks, ClosureCount(t) PROVE SubmissionInv'
  BY <1>8 DEF ClosureCount
<1>9. ASSUME NEW t \in Tasks, ClosureNotify(t) PROVE SubmissionInv'
  BY <1>9 DEF ClosureNotify
<1>10. ASSUME NEW t \in Tasks, ClosureDone(t) PROVE SubmissionInv'
  BY <1>10 DEF ClosureDone
<1>11. ASSUME NEW t \in Tasks, GrowOld(t) PROVE SubmissionInv'
  BY <1>11 DEF GrowOld
<1>12. ASSUME NEW c \in Clients, SubmitCount(c) PROVE SubmissionInv'
  BY <1>12 DEF SubmitCount
<1>13. ASSUME NEW c \in Clients, SubmitPost(c) PROVE SubmissionInv'
  BY <1>13 DEF SubmitPost
<1>14. ASSUME NEW c \in Clients, SubmitWithoutLoop(c) PROVE SubmissionInv'
  BY <1>14 DEF SubmitWithoutLoop
<1>15. ASSUME NEW c \in Clients, CancelWrite(c) PROVE SubmissionInv'
  BY <1>15 DEF CancelWrite
<1>16. ASSUME NEW c \in Clients, FailWrite(c) PROVE SubmissionInv'
  BY <1>16 DEF FailWrite
<1>17. ASSUME NEW c \in Clients, FailStamp(c) PROVE SubmissionInv'
  BY <1>17 DEF FailStamp
<1>18. ASSUME NEW c \in Clients, FailCount(c) PROVE SubmissionInv'
  BY <1>18 DEF FailCount
<1>19. ASSUME NEW c \in Clients, TouchWrite(c) PROVE SubmissionInv'
  BY <1>19 DEF TouchWrite
<1>20. ASSUME NEW c \in Clients, ClientNotify(c) PROVE SubmissionInv'
  BY <1>20 DEF ClientNotify
<1>21. ASSUME NEW c \in Clients, ClientBroadcast(c) PROVE SubmissionInv'
  <2>1. /\ UNCHANGED <<status, cancelRequested, old, registry, totals, closure, mutex,
                       failCalls, early, loopAlive, started>>
        /\ callback' = [callback EXCEPT ![c] = "out"]
        /\ heard' \in {heard, heard \cup {client[c].task}}
        /\ client[c].pc \in {"submitNotify", "notify"}
    BY <1>21 DEF ClientBroadcast
  <2>2. PICK pc \in {"submitPost", "idle"} :
          /\ client' = [client EXCEPT ![c] = [pc |-> pc, task |-> client[c].task]]
          /\ pc = "submitPost" => client[c].pc = "submitNotify"
    BY <1>21 DEF ClientBroadcast
  <2>3. QED
    BY <2>1, <2>2
<1>22. ASSUME NEW c \in Clients, NEW t \in Tasks, SubmitInsert(c, t) PROVE SubmissionInv'
  BY <1>22 DEF SubmitInsert
<1>23. ASSUME NEW c \in Clients, NEW t \in Tasks, CancelRequest(c, t) PROVE SubmissionInv'
  <2>1. /\ UNCHANGED <<status, tasks_, closure, failCalls>>
        /\ cancelRequested' = [cancelRequested EXCEPT ![t] = TRUE]
        /\ t \in tasks_ /\ client[c].pc = "idle"
    BY <1>23 DEF CancelRequest
  <2>2. PICK pc \in {"cancelWrite", "notify"} :
          client' = [client EXCEPT ![c] = [pc |-> pc, task |-> t]]
    BY <1>23 DEF CancelRequest
  <2>3. QED
    BY <2>1, <2>2
<1>24. ASSUME NEW c \in Clients, NEW t \in Tasks, FailTask(c, t) PROVE SubmissionInv'
  BY <1>24 DEF FailTask
<1>25. ASSUME NEW c \in Clients, NEW t \in Tasks, TouchTask(c, t) PROVE SubmissionInv'
  BY <1>25 DEF TouchTask
<1>26. CASE CleanupOldTasks
  BY <1>26 DEF CleanupOldTasks, Expired
<1>27. CASE LoopGone
  BY <1>27 DEF LoopGone
<1>28. CASE UNCHANGED vars
  BY <1>28
<1>29. QED
  BY <1>1, <1>2, <1>3, <1>4, <1>5, <1>6, <1>7, <1>8, <1>9, <1>10, <1>11,
     <1>12, <1>13, <1>14, <1>15, <1>16, <1>17, <1>18, <1>19, <1>20,
     <1>21, <1>22, <1>23, <1>24, <1>25, <1>26, <1>27, <1>28 DEF Next, ClosureStep, CallStep, Call

\* Every operation preserves CancelInv.
LEMMA CancelStep ==
  ASSUME TypeOK, SubmissionInv, CancelInv, [Next]_vars
  PROVE  CancelInv'
<1> USE ConstantsAssumption DEF TypeOK, Status, Counters, Counting, ClosurePc, ClientPc, CallbackPc,
      SubmissionInv, Submitting, CancelInv, NotRunYet, Written, BeforeCheck, BeforeDecision,
      Bump, Stamp, SetStatus, Goto, NotifyStatus, CopyCallback, ReadStatus, Broadcast,
      Unlocked, Step, LookUp, StartOrCancel, Outcome, NotStarted, Unlock, Erase, Active
<1>1. ASSUME NEW t \in Tasks, ClosureCheck(t) PROVE CancelInv'
  BY <1>1 DEF ClosureCheck
<1>2. ASSUME NEW t \in Tasks, ClosureStart(t) PROVE CancelInv'
  BY <1>2 DEF ClosureStart
<1>3. ASSUME NEW t \in Tasks, ClosureStamp(t) PROVE CancelInv'
  BY <1>3 DEF ClosureStamp
<1>4. ASSUME NEW t \in Tasks, ClosureRun(t) PROVE CancelInv'
  BY <1>4 DEF ClosureRun
<1>5. ASSUME NEW t \in Tasks, RunnerEnds(t) PROVE CancelInv'
  BY <1>5 DEF RunnerEnds
<1>6. ASSUME NEW t \in Tasks, ClosureDecide(t) PROVE CancelInv'
  BY <1>6 DEF ClosureDecide
<1>7. ASSUME NEW t \in Tasks, ClosureFinish(t) PROVE CancelInv'
  BY <1>7 DEF ClosureFinish
<1>8. ASSUME NEW t \in Tasks, ClosureCount(t) PROVE CancelInv'
  BY <1>8 DEF ClosureCount
<1>9. ASSUME NEW t \in Tasks, ClosureNotify(t) PROVE CancelInv'
  BY <1>9 DEF ClosureNotify
<1>10. ASSUME NEW t \in Tasks, ClosureDone(t) PROVE CancelInv'
  BY <1>10 DEF ClosureDone
<1>11. ASSUME NEW t \in Tasks, GrowOld(t) PROVE CancelInv'
  BY <1>11 DEF GrowOld
<1>12. ASSUME NEW c \in Clients, SubmitCount(c) PROVE CancelInv'
  BY <1>12 DEF SubmitCount
<1>13. ASSUME NEW c \in Clients, SubmitPost(c) PROVE CancelInv'
  BY <1>13 DEF SubmitPost
<1>14. ASSUME NEW c \in Clients, SubmitWithoutLoop(c) PROVE CancelInv'
  BY <1>14 DEF SubmitWithoutLoop
<1>15. ASSUME NEW c \in Clients, CancelWrite(c) PROVE CancelInv'
  BY <1>15 DEF CancelWrite
<1>16. ASSUME NEW c \in Clients, FailWrite(c) PROVE CancelInv'
  BY <1>16 DEF FailWrite
<1>17. ASSUME NEW c \in Clients, FailStamp(c) PROVE CancelInv'
  BY <1>17 DEF FailStamp
<1>18. ASSUME NEW c \in Clients, FailCount(c) PROVE CancelInv'
  BY <1>18 DEF FailCount
<1>19. ASSUME NEW c \in Clients, TouchWrite(c) PROVE CancelInv'
  BY <1>19 DEF TouchWrite
<1>20. ASSUME NEW c \in Clients, ClientNotify(c) PROVE CancelInv'
  BY <1>20 DEF ClientNotify
<1>21. ASSUME NEW c \in Clients, ClientBroadcast(c) PROVE CancelInv'
  BY <1>21 DEF ClientBroadcast
<1>22. ASSUME NEW c \in Clients, NEW t \in Tasks, SubmitInsert(c, t) PROVE CancelInv'
  BY <1>22 DEF SubmitInsert
<1>23. ASSUME NEW c \in Clients, NEW t \in Tasks, CancelRequest(c, t) PROVE CancelInv'
  BY <1>23 DEF CancelRequest
<1>24. ASSUME NEW c \in Clients, NEW t \in Tasks, FailTask(c, t) PROVE CancelInv'
  BY <1>24 DEF FailTask
<1>25. ASSUME NEW c \in Clients, NEW t \in Tasks, TouchTask(c, t) PROVE CancelInv'
  BY <1>25 DEF TouchTask
<1>26. CASE CleanupOldTasks
  BY <1>26 DEF CleanupOldTasks, Expired
<1>27. CASE LoopGone
  BY <1>27 DEF LoopGone
<1>28. CASE UNCHANGED vars
  BY <1>28
<1>29. QED
  BY <1>1, <1>2, <1>3, <1>4, <1>5, <1>6, <1>7, <1>8, <1>9, <1>10, <1>11,
     <1>12, <1>13, <1>14, <1>15, <1>16, <1>17, <1>18, <1>19, <1>20,
     <1>21, <1>22, <1>23, <1>24, <1>25, <1>26, <1>27, <1>28 DEF Next, ClosureStep, CallStep, Call

\* Every operation preserves EndInv.
LEMMA EndStep ==
  ASSUME TypeOK, SubmissionInv, EndInv, CallbackInv, [Next]_vars
  PROVE  EndInv'
<1> USE ConstantsAssumption DEF TypeOK, Status, Counters, Counting, ClosurePc, ClientPc, CallbackPc,
      SubmissionInv, Submitting, EndInv, CallbackInv, Written,
      Bump, Stamp, SetStatus, Goto, NotifyStatus, CopyCallback, ReadStatus, Broadcast,
      Unlocked, Step, LookUp, StartOrCancel, Outcome, NotStarted, Unlock, Erase, Active
<1>1. ASSUME NEW t \in Tasks, ClosureCheck(t) PROVE EndInv'
  BY <1>1 DEF ClosureCheck
<1>2. ASSUME NEW t \in Tasks, ClosureStart(t) PROVE EndInv'
  BY <1>2 DEF ClosureStart
<1>3. ASSUME NEW t \in Tasks, ClosureStamp(t) PROVE EndInv'
  BY <1>3 DEF ClosureStamp
<1>4. ASSUME NEW t \in Tasks, ClosureRun(t) PROVE EndInv'
  BY <1>4 DEF ClosureRun
<1>5. ASSUME NEW t \in Tasks, RunnerEnds(t) PROVE EndInv'
  BY <1>5 DEF RunnerEnds
<1>6. ASSUME NEW t \in Tasks, ClosureDecide(t) PROVE EndInv'
  BY <1>6 DEF ClosureDecide
<1>7. ASSUME NEW t \in Tasks, ClosureFinish(t) PROVE EndInv'
  BY <1>7 DEF ClosureFinish
<1>8. ASSUME NEW t \in Tasks, ClosureCount(t) PROVE EndInv'
  BY <1>8 DEF ClosureCount
<1>9. ASSUME NEW t \in Tasks, ClosureNotify(t) PROVE EndInv'
  BY <1>9 DEF ClosureNotify
<1>10. ASSUME NEW t \in Tasks, ClosureDone(t) PROVE EndInv'
  BY <1>10 DEF ClosureDone
<1>11. ASSUME NEW t \in Tasks, GrowOld(t) PROVE EndInv'
  BY <1>11 DEF GrowOld
<1>12. ASSUME NEW c \in Clients, SubmitCount(c) PROVE EndInv'
  BY <1>12 DEF SubmitCount
<1>13. ASSUME NEW c \in Clients, SubmitPost(c) PROVE EndInv'
  BY <1>13 DEF SubmitPost
<1>14. ASSUME NEW c \in Clients, SubmitWithoutLoop(c) PROVE EndInv'
  BY <1>14 DEF SubmitWithoutLoop
<1>15. ASSUME NEW c \in Clients, CancelWrite(c) PROVE EndInv'
  BY <1>15 DEF CancelWrite
<1>16. ASSUME NEW c \in Clients, FailWrite(c) PROVE EndInv'
  BY <1>16 DEF FailWrite
<1>17. ASSUME NEW c \in Clients, FailStamp(c) PROVE EndInv'
  BY <1>17 DEF FailStamp
<1>18. ASSUME NEW c \in Clients, FailCount(c) PROVE EndInv'
  BY <1>18 DEF FailCount
<1>19. ASSUME NEW c \in Clients, TouchWrite(c) PROVE EndInv'
  BY <1>19 DEF TouchWrite
<1>20. ASSUME NEW c \in Clients, ClientNotify(c) PROVE EndInv'
  BY <1>20 DEF ClientNotify
<1>21. ASSUME NEW c \in Clients, ClientBroadcast(c) PROVE EndInv'
  BY <1>21 DEF ClientBroadcast
<1>22. ASSUME NEW c \in Clients, NEW t \in Tasks, SubmitInsert(c, t) PROVE EndInv'
  BY <1>22 DEF SubmitInsert
<1>23. ASSUME NEW c \in Clients, NEW t \in Tasks, CancelRequest(c, t) PROVE EndInv'
  BY <1>23 DEF CancelRequest
<1>24. ASSUME NEW c \in Clients, NEW t \in Tasks, FailTask(c, t) PROVE EndInv'
  BY <1>24 DEF FailTask
<1>25. ASSUME NEW c \in Clients, NEW t \in Tasks, TouchTask(c, t) PROVE EndInv'
  BY <1>25 DEF TouchTask
<1>26. CASE CleanupOldTasks
  BY <1>26 DEF CleanupOldTasks, Expired
<1>27. CASE LoopGone
  BY <1>27 DEF LoopGone
<1>28. CASE UNCHANGED vars
  BY <1>28
<1>29. QED
  BY <1>1, <1>2, <1>3, <1>4, <1>5, <1>6, <1>7, <1>8, <1>9, <1>10, <1>11,
     <1>12, <1>13, <1>14, <1>15, <1>16, <1>17, <1>18, <1>19, <1>20,
     <1>21, <1>22, <1>23, <1>24, <1>25, <1>26, <1>27, <1>28 DEF Next, ClosureStep, CallStep, Call

\* Every operation preserves AccountedInv.
LEMMA AccountedStep ==
  ASSUME TypeOK, SubmissionInv, EndInv, AccountedInv, [Next]_vars
  PROVE  AccountedInv'
<1> USE ConstantsAssumption DEF TypeOK, Status, Counters, Counting, ClosurePc, ClientPc, CallbackPc,
      SubmissionInv, EndInv, Submitting, AccountedInv, Accounted, Written,
      Bump, Stamp, SetStatus, Goto, NotifyStatus, CopyCallback, ReadStatus, Broadcast,
      Unlocked, Step, LookUp, StartOrCancel, Outcome, NotStarted, Unlock, Erase, Active
<1>1. ASSUME NEW t \in Tasks, ClosureCheck(t) PROVE AccountedInv'
  BY <1>1 DEF ClosureCheck
<1>2. ASSUME NEW t \in Tasks, ClosureStart(t) PROVE AccountedInv'
  BY <1>2 DEF ClosureStart
<1>3. ASSUME NEW t \in Tasks, ClosureStamp(t) PROVE AccountedInv'
  BY <1>3 DEF ClosureStamp
<1>4. ASSUME NEW t \in Tasks, ClosureRun(t) PROVE AccountedInv'
  BY <1>4 DEF ClosureRun
<1>5. ASSUME NEW t \in Tasks, RunnerEnds(t) PROVE AccountedInv'
  BY <1>5 DEF RunnerEnds
<1>6. ASSUME NEW t \in Tasks, ClosureDecide(t) PROVE AccountedInv'
  BY <1>6 DEF ClosureDecide
<1>7. ASSUME NEW t \in Tasks, ClosureFinish(t) PROVE AccountedInv'
  <2>1. CASE closure[t] = "finCancel"
    BY <1>7, <2>1 DEF ClosureFinish
  <2>2. CASE closure[t] = "finComplete"
    BY <1>7, <2>2 DEF ClosureFinish
  <2>3. CASE closure[t] = "failing"
    BY <1>7, <2>3 DEF ClosureFinish
  <2>4. CASE closure[t] = "cancelling"
    BY <1>7, <2>4 DEF ClosureFinish
  <2>5. QED
    BY <1>7, <2>1, <2>2, <2>3, <2>4 DEF ClosureFinish
<1>8. ASSUME NEW t \in Tasks, ClosureCount(t) PROVE AccountedInv'
  <2>1. /\ UNCHANGED <<status, tasks_, client, failCalls, cancelRequested>>
        /\ closure[t] \in Counting
        /\ closure' = [closure EXCEPT ![t] = closure'[t]] /\ closure'[t] \in Written
    BY <1>8 DEF ClosureCount
  <2>2. QED
    BY <2>1
<1>9. ASSUME NEW t \in Tasks, ClosureNotify(t) PROVE AccountedInv'
  BY <1>9 DEF ClosureNotify
<1>10. ASSUME NEW t \in Tasks, ClosureDone(t) PROVE AccountedInv'
  BY <1>10 DEF ClosureDone
<1>11. ASSUME NEW t \in Tasks, GrowOld(t) PROVE AccountedInv'
  BY <1>11 DEF GrowOld
<1>12. ASSUME NEW c \in Clients, SubmitCount(c) PROVE AccountedInv'
  BY <1>12 DEF SubmitCount
<1>13. ASSUME NEW c \in Clients, SubmitPost(c) PROVE AccountedInv'
  BY <1>13 DEF SubmitPost
<1>14. ASSUME NEW c \in Clients, SubmitWithoutLoop(c) PROVE AccountedInv'
  BY <1>14 DEF SubmitWithoutLoop
<1>15. ASSUME NEW c \in Clients, CancelWrite(c) PROVE AccountedInv'
  BY <1>15 DEF CancelWrite
<1>16. ASSUME NEW c \in Clients, FailWrite(c) PROVE AccountedInv'
  BY <1>16 DEF FailWrite
<1>17. ASSUME NEW c \in Clients, FailStamp(c) PROVE AccountedInv'
  BY <1>17 DEF FailStamp
<1>18. ASSUME NEW c \in Clients, FailCount(c) PROVE AccountedInv'
  BY <1>18 DEF FailCount
<1>19. ASSUME NEW c \in Clients, TouchWrite(c) PROVE AccountedInv'
  BY <1>19 DEF TouchWrite
<1>20. ASSUME NEW c \in Clients, ClientNotify(c) PROVE AccountedInv'
  BY <1>20 DEF ClientNotify
<1>21. ASSUME NEW c \in Clients, ClientBroadcast(c) PROVE AccountedInv'
  <2>1. /\ UNCHANGED <<status, cancelRequested, old, registry, totals, closure, mutex,
                       failCalls, early, loopAlive, started>>
        /\ callback' = [callback EXCEPT ![c] = "out"]
        /\ heard' \in {heard, heard \cup {client[c].task}}
        /\ client[c].pc \in {"submitNotify", "notify"}
    BY <1>21 DEF ClientBroadcast
  <2>2. PICK pc \in {"submitPost", "idle"} :
          /\ client' = [client EXCEPT ![c] = [pc |-> pc, task |-> client[c].task]]
          /\ pc = "submitPost" => client[c].pc = "submitNotify"
    BY <1>21 DEF ClientBroadcast
  <2>3. QED
    BY <2>1, <2>2
<1>22. ASSUME NEW c \in Clients, NEW t \in Tasks, SubmitInsert(c, t) PROVE AccountedInv'
  BY <1>22 DEF SubmitInsert
<1>23. ASSUME NEW c \in Clients, NEW t \in Tasks, CancelRequest(c, t) PROVE AccountedInv'
  <2>1. /\ UNCHANGED <<status, tasks_, closure, failCalls>>
        /\ cancelRequested' = [cancelRequested EXCEPT ![t] = TRUE]
        /\ t \in tasks_ /\ client[c].pc = "idle"
    BY <1>23 DEF CancelRequest
  <2>2. PICK pc \in {"cancelWrite", "notify"} :
          client' = [client EXCEPT ![c] = [pc |-> pc, task |-> t]]
    BY <1>23 DEF CancelRequest
  <2>3. \A u \in Tasks : Accounted(u) => Accounted(u)'
    BY <2>1, <2>2
  <2>4. QED
    BY <2>1, <2>2, <2>3
<1>24. ASSUME NEW c \in Clients, NEW t \in Tasks, FailTask(c, t) PROVE AccountedInv'
  BY <1>24 DEF FailTask
<1>25. ASSUME NEW c \in Clients, NEW t \in Tasks, TouchTask(c, t) PROVE AccountedInv'
  BY <1>25 DEF TouchTask
<1>26. CASE CleanupOldTasks
  BY <1>26 DEF CleanupOldTasks, Expired
<1>27. CASE LoopGone
  BY <1>27 DEF LoopGone
<1>28. CASE UNCHANGED vars
  BY <1>28
<1>29. QED
  BY <1>1, <1>2, <1>3, <1>4, <1>5, <1>6, <1>7, <1>8, <1>9, <1>10, <1>11,
     <1>12, <1>13, <1>14, <1>15, <1>16, <1>17, <1>18, <1>19, <1>20,
     <1>21, <1>22, <1>23, <1>24, <1>25, <1>26, <1>27, <1>28 DEF Next, ClosureStep, CallStep, Call

\* Every operation preserves CallbackInv.
LEMMA CallbackStep ==
  ASSUME TypeOK, SubmissionInv, CallbackInv, [Next]_vars
  PROVE  CallbackInv'
<1> USE ConstantsAssumption DEF TypeOK, Status, Counters, Counting, ClosurePc, ClientPc, CallbackPc,
      SubmissionInv, Submitting, CallbackInv,
      Bump, Stamp, SetStatus, Goto, NotifyStatus, CopyCallback, ReadStatus, Broadcast,
      Unlocked, Step, LookUp, StartOrCancel, Outcome, NotStarted, Unlock, Erase, Active
<1>1. ASSUME NEW t \in Tasks, ClosureCheck(t) PROVE CallbackInv'
  BY <1>1 DEF ClosureCheck
<1>2. ASSUME NEW t \in Tasks, ClosureStart(t) PROVE CallbackInv'
  BY <1>2 DEF ClosureStart
<1>3. ASSUME NEW t \in Tasks, ClosureStamp(t) PROVE CallbackInv'
  BY <1>3 DEF ClosureStamp
<1>4. ASSUME NEW t \in Tasks, ClosureRun(t) PROVE CallbackInv'
  BY <1>4 DEF ClosureRun
<1>5. ASSUME NEW t \in Tasks, RunnerEnds(t) PROVE CallbackInv'
  BY <1>5 DEF RunnerEnds
<1>6. ASSUME NEW t \in Tasks, ClosureDecide(t) PROVE CallbackInv'
  BY <1>6 DEF ClosureDecide
<1>7. ASSUME NEW t \in Tasks, ClosureFinish(t) PROVE CallbackInv'
  BY <1>7 DEF ClosureFinish
<1>8. ASSUME NEW t \in Tasks, ClosureCount(t) PROVE CallbackInv'
  BY <1>8 DEF ClosureCount
<1>9. ASSUME NEW t \in Tasks, ClosureNotify(t) PROVE CallbackInv'
  BY <1>9 DEF ClosureNotify
<1>10. ASSUME NEW t \in Tasks, ClosureDone(t) PROVE CallbackInv'
  BY <1>10 DEF ClosureDone
<1>11. ASSUME NEW t \in Tasks, GrowOld(t) PROVE CallbackInv'
  BY <1>11 DEF GrowOld
<1>12. ASSUME NEW c \in Clients, SubmitCount(c) PROVE CallbackInv'
  BY <1>12 DEF SubmitCount
<1>13. ASSUME NEW c \in Clients, SubmitPost(c) PROVE CallbackInv'
  BY <1>13 DEF SubmitPost
<1>14. ASSUME NEW c \in Clients, SubmitWithoutLoop(c) PROVE CallbackInv'
  BY <1>14 DEF SubmitWithoutLoop
<1>15. ASSUME NEW c \in Clients, CancelWrite(c) PROVE CallbackInv'
  BY <1>15 DEF CancelWrite
<1>16. ASSUME NEW c \in Clients, FailWrite(c) PROVE CallbackInv'
  BY <1>16 DEF FailWrite
<1>17. ASSUME NEW c \in Clients, FailStamp(c) PROVE CallbackInv'
  BY <1>17 DEF FailStamp
<1>18. ASSUME NEW c \in Clients, FailCount(c) PROVE CallbackInv'
  BY <1>18 DEF FailCount
<1>19. ASSUME NEW c \in Clients, TouchWrite(c) PROVE CallbackInv'
  BY <1>19 DEF TouchWrite
<1>20. ASSUME NEW c \in Clients, ClientNotify(c) PROVE CallbackInv'
  BY <1>20 DEF ClientNotify
<1>21. ASSUME NEW c \in Clients, ClientBroadcast(c) PROVE CallbackInv'
  BY <1>21 DEF ClientBroadcast
<1>22. ASSUME NEW c \in Clients, NEW t \in Tasks, SubmitInsert(c, t) PROVE CallbackInv'
  BY <1>22 DEF SubmitInsert
<1>23. ASSUME NEW c \in Clients, NEW t \in Tasks, CancelRequest(c, t) PROVE CallbackInv'
  <2>1. UNCHANGED <<closure, callback>> /\ client[c].pc = "idle"
    BY <1>23 DEF CancelRequest
  <2>2. PICK pc \in {"cancelWrite", "notify"} :
          client' = [client EXCEPT ![c] = [pc |-> pc, task |-> t]]
    BY <1>23 DEF CancelRequest
  <2>3. QED
    BY <2>1, <2>2
<1>24. ASSUME NEW c \in Clients, NEW t \in Tasks, FailTask(c, t) PROVE CallbackInv'
  BY <1>24 DEF FailTask
<1>25. ASSUME NEW c \in Clients, NEW t \in Tasks, TouchTask(c, t) PROVE CallbackInv'
  BY <1>25 DEF TouchTask
<1>26. CASE CleanupOldTasks
  BY <1>26 DEF CleanupOldTasks, Expired
<1>27. CASE LoopGone
  BY <1>27 DEF LoopGone
<1>28. CASE UNCHANGED vars
  BY <1>28
<1>29. QED
  BY <1>1, <1>2, <1>3, <1>4, <1>5, <1>6, <1>7, <1>8, <1>9, <1>10, <1>11,
     <1>12, <1>13, <1>14, <1>15, <1>16, <1>17, <1>18, <1>19, <1>20,
     <1>21, <1>22, <1>23, <1>24, <1>25, <1>26, <1>27, <1>28 DEF Next, ClosureStep, CallStep, Call

\* Every operation preserves HeardInv: who stores a status has the callback still
\* before it.
LEMMA HeardStep ==
  ASSUME TypeOK, SubmissionInv, CallbackInv, HeardInv, [Next]_vars
  PROVE  HeardInv'
<1> USE ConstantsAssumption DEF TypeOK, Status, Counters, Counting, ClosurePc, ClientPc, CallbackPc,
      SubmissionInv, Submitting, CallbackInv, HeardInv, WillBeHeard,
      Bump, Stamp, SetStatus, Goto, NotifyStatus, CopyCallback, ReadStatus, Broadcast,
      Unlocked, Step, LookUp, StartOrCancel, Outcome, NotStarted, Unlock, Erase, Active
<1>1. ASSUME NEW t \in Tasks, ClosureCheck(t) PROVE HeardInv'
  BY <1>1 DEF ClosureCheck
<1>2. ASSUME NEW t \in Tasks, ClosureStart(t) PROVE HeardInv'
  BY <1>2 DEF ClosureStart
<1>3. ASSUME NEW t \in Tasks, ClosureStamp(t) PROVE HeardInv'
  BY <1>3 DEF ClosureStamp
<1>4. ASSUME NEW t \in Tasks, ClosureRun(t) PROVE HeardInv'
  <2>1. /\ UNCHANGED <<status, client>> /\ callback' = [callback EXCEPT ![t] = "out"]
        /\ heard' = IF callback[t] = status[t] THEN heard \cup {t} ELSE heard
        /\ callback[t] \in Status /\ \A u \in Tasks : u # t => closure'[u] = closure[u]
    BY <1>4 DEF ClosureRun
  <2>2. ASSUME NEW u \in Tasks, status[u] # "None", u \notin heard', WillBeHeard(u)
        PROVE  WillBeHeard(u)'
    <3>1. CASE u # t /\ closure[u] \in {"startStamp", "startNotify", "stamp", "endNotify"} \cup Counting
                    /\ callback[u] \in {"out", "in", status[u]}
      BY <2>1, <3>1
    <3>2. CASE u = t /\ callback[t] \in {"out", "in", status[u]}
      BY <2>1, <2>2, <3>2
    <3>3. ASSUME NEW c \in Clients, client[c].task = u,
                 client[c].pc \in {"submitCount", "submitNotify", "failStamp", "failCount", "notify"},
                 callback[c] \in {"out", "in", status[u]}
          PROVE  WillBeHeard(u)'
      BY <2>1, <3>3
    <3>4. QED
      BY <2>2, <3>1, <3>2, <3>3
  <2>3. QED
    BY <2>1, <2>2
<1>5. ASSUME NEW t \in Tasks, RunnerEnds(t) PROVE HeardInv'
  BY <1>5 DEF RunnerEnds
<1>6. ASSUME NEW t \in Tasks, ClosureDecide(t) PROVE HeardInv'
  BY <1>6 DEF ClosureDecide
<1>7. ASSUME NEW t \in Tasks, ClosureFinish(t) PROVE HeardInv'
  BY <1>7 DEF ClosureFinish
<1>8. ASSUME NEW t \in Tasks, ClosureCount(t) PROVE HeardInv'
  BY <1>8 DEF ClosureCount
<1>9. ASSUME NEW t \in Tasks, ClosureNotify(t) PROVE HeardInv'
  BY <1>9 DEF ClosureNotify
<1>10. ASSUME NEW t \in Tasks, ClosureDone(t) PROVE HeardInv'
  <2>1. /\ UNCHANGED <<status, client>> /\ callback' = [callback EXCEPT ![t] = "out"]
        /\ heard' = IF callback[t] = status[t] THEN heard \cup {t} ELSE heard
        /\ callback[t] \in Status /\ \A u \in Tasks : u # t => closure'[u] = closure[u]
    BY <1>10 DEF ClosureDone
  <2>2. ASSUME NEW u \in Tasks, status[u] # "None", u \notin heard', WillBeHeard(u)
        PROVE  WillBeHeard(u)'
    <3>1. CASE u # t /\ closure[u] \in {"startStamp", "startNotify", "stamp", "endNotify"} \cup Counting
                    /\ callback[u] \in {"out", "in", status[u]}
      BY <2>1, <3>1
    <3>2. CASE u = t /\ callback[t] \in {"out", "in", status[u]}
      BY <2>1, <2>2, <3>2
    <3>3. ASSUME NEW c \in Clients, client[c].task = u,
                 client[c].pc \in {"submitCount", "submitNotify", "failStamp", "failCount", "notify"},
                 callback[c] \in {"out", "in", status[u]}
          PROVE  WillBeHeard(u)'
      BY <2>1, <3>3
    <3>4. QED
      BY <2>2, <3>1, <3>2, <3>3
  <2>3. QED
    BY <2>1, <2>2
<1>11. ASSUME NEW t \in Tasks, GrowOld(t) PROVE HeardInv'
  BY <1>11 DEF GrowOld
<1>12. ASSUME NEW c \in Clients, SubmitCount(c) PROVE HeardInv'
  BY <1>12 DEF SubmitCount
<1>13. ASSUME NEW c \in Clients, SubmitPost(c) PROVE HeardInv'
  <2>1. /\ UNCHANGED <<status, heard, callback>> /\ client[c].pc = "submitPost"
        /\ closure[client[c].task] = "none" /\ client[c].task \in Tasks
        /\ closure' = [closure EXCEPT ![client[c].task] = "queued"]
        /\ \A d \in Clients : d # c => client'[d] = client[d]
    BY <1>13 DEF SubmitPost
  <2>2. \A u \in Tasks : WillBeHeard(u) => WillBeHeard(u)'
    BY <2>1
  <2>3. QED
    BY <2>1, <2>2
<1>14. ASSUME NEW c \in Clients, SubmitWithoutLoop(c) PROVE HeardInv'
  BY <1>14 DEF SubmitWithoutLoop
<1>15. ASSUME NEW c \in Clients, CancelWrite(c) PROVE HeardInv'
  BY <1>15 DEF CancelWrite
<1>16. ASSUME NEW c \in Clients, FailWrite(c) PROVE HeardInv'
  BY <1>16 DEF FailWrite
<1>17. ASSUME NEW c \in Clients, FailStamp(c) PROVE HeardInv'
  BY <1>17 DEF FailStamp
<1>18. ASSUME NEW c \in Clients, FailCount(c) PROVE HeardInv'
  BY <1>18 DEF FailCount
<1>19. ASSUME NEW c \in Clients, TouchWrite(c) PROVE HeardInv'
  BY <1>19 DEF TouchWrite
<1>20. ASSUME NEW c \in Clients, ClientNotify(c) PROVE HeardInv'
  BY <1>20 DEF ClientNotify
<1>21. ASSUME NEW c \in Clients, ClientBroadcast(c) PROVE HeardInv'
  <2>1. /\ UNCHANGED <<status, closure>> /\ callback' = [callback EXCEPT ![c] = "out"]
        /\ heard' = IF callback[c] = status[client[c].task] THEN heard \cup {client[c].task} ELSE heard
        /\ callback[c] \in Status /\ \A d \in Clients : d # c => client'[d] = client[d]
    BY <1>21 DEF ClientBroadcast
  <2>2. ASSUME NEW u \in Tasks, status[u] # "None", u \notin heard', WillBeHeard(u)
        PROVE  WillBeHeard(u)'
    <3>1. CASE closure[u] \in {"startStamp", "startNotify", "stamp", "endNotify"} \cup Counting
               /\ callback[u] \in {"out", "in", status[u]}
      BY <2>1, <3>1
    <3>2. ASSUME NEW d \in Clients, client[d].task = u,
                 client[d].pc \in {"submitCount", "submitNotify", "failStamp", "failCount", "notify"},
                 callback[d] \in {"out", "in", status[u]}
          PROVE  WillBeHeard(u)'
      <4>1. d # c
        BY <2>1, <2>2, <3>2
      <4>2. QED
        BY <2>1, <3>2, <4>1
    <3>3. QED
      BY <2>2, <3>1, <3>2
  <2>3. QED
    BY <2>1, <2>2
<1>22. ASSUME NEW c \in Clients, NEW t \in Tasks, SubmitInsert(c, t) PROVE HeardInv'
  <2>1. /\ UNCHANGED <<closure, callback>> /\ client[c].pc = "idle" /\ callback[c] = "out"
        /\ client' = [client EXCEPT ![c] = [pc |-> "submitCount", task |-> t]]
        /\ status' = [status EXCEPT ![t] = "Pending"] /\ heard' = heard \ {t}
    BY <1>22 DEF SubmitInsert
  <2>2. WillBeHeard(t)'
    BY <2>1
  <2>3. \A u \in Tasks : u # t /\ WillBeHeard(u) => WillBeHeard(u)'
    BY <2>1
  <2>4. QED
    BY <2>1, <2>2, <2>3
<1>23. ASSUME NEW c \in Clients, NEW t \in Tasks, CancelRequest(c, t) PROVE HeardInv'
  BY <1>23 DEF CancelRequest
<1>24. ASSUME NEW c \in Clients, NEW t \in Tasks, FailTask(c, t) PROVE HeardInv'
  BY <1>24 DEF FailTask
<1>25. ASSUME NEW c \in Clients, NEW t \in Tasks, TouchTask(c, t) PROVE HeardInv'
  BY <1>25 DEF TouchTask
<1>26. CASE CleanupOldTasks
  BY <1>26 DEF CleanupOldTasks, Expired
<1>27. CASE LoopGone
  BY <1>27 DEF LoopGone
<1>28. CASE UNCHANGED vars
  BY <1>28
<1>29. QED
  BY <1>1, <1>2, <1>3, <1>4, <1>5, <1>6, <1>7, <1>8, <1>9, <1>10, <1>11,
     <1>12, <1>13, <1>14, <1>15, <1>16, <1>17, <1>18, <1>19, <1>20,
     <1>21, <1>22, <1>23, <1>24, <1>25, <1>26, <1>27, <1>28 DEF Next, ClosureStep, CallStep, Call

-----------------------------------------------------------------------------
\* Types are preserved by every operation, and mutex_ is held across steps
\* exactly by the client inside cancelTask's critical section.
THEOREM Typing == Spec => []TypeOK
<1>1. Init => TypeOK /\ SubmissionInv
  BY ConstantsAssumption
  DEF Init, TypeOK, Status, Counters, ClosurePc, Counting, ClientPc, CallbackPc,
      SubmissionInv, Submitting
<1>2. TypeOK /\ SubmissionInv /\ [Next]_vars => TypeOK' /\ SubmissionInv'
  BY TypeStep, SubmissionStep
<1>3. QED
  BY <1>1, <1>2, PTL DEF Spec

\* The inductive invariant.
IInv == TypeOK /\ SubmissionInv /\ CancelInv /\ EndInv /\ AccountedInv
        /\ CallbackInv /\ HeardInv

\* The inductive invariant holds in every reachable state.
THEOREM Inductive == Spec => []IInv
<1>1. Init => IInv
  BY ConstantsAssumption
  DEF Init, IInv, TypeOK, Status, Counters, ClosurePc, Counting, ClientPc, CallbackPc,
      SubmissionInv, Submitting, CancelInv, NotRunYet, Written, BeforeDecision,
      BeforeCheck, EndInv, AccountedInv, Accounted, Active, CallbackInv, HeardInv
<1>2. IInv /\ [Next]_vars => IInv'
  BY TypeStep, SubmissionStep, CancelStep, EndStep, AccountedStep, CallbackStep,
     HeardStep DEF IInv
<1>3. QED
  BY <1>1, <1>2, PTL DEF Spec

\* A task that was cancelled before its closure looked at cancelRequested never
\* has its runner invoked.
THEOREM EarlyCancel == Spec => []EarlyCancelNeverRuns
<1>1. IInv => EarlyCancelNeverRuns
  BY DEF IInv, CancelInv, EarlyCancelNeverRuns
<1>2. QED
  BY <1>1, Inductive, PTL

\* A task cancelled before the outcome of its runner is decided is never
\* Completed.
THEOREM InTimeCancel == Spec => []InTimeCancelNotCompleted
<1>1. IInv => InTimeCancelNotCompleted
  BY DEF IInv, CancelInv, InTimeCancelNotCompleted
<1>2. QED
  BY <1>1, Inductive, PTL

\* When nobody is left who will notify, the status of a task was broadcast after
\* it was stored.
THEOREM Notified == Spec => []StatusHeard
<1>1. IInv => StatusHeard
  BY DEF IInv, HeardInv, WillBeHeard, StatusHeard, NotifyOwed
<1>2. QED
  BY <1>1, Inductive, PTL

\* A task whose closure has not ended disappears from the map only if it was
\* cancelled, failed or never posted.
THEOREM Vanished == Spec => []VanishedOnlyIfEnded
<1>1. IInv => VanishedOnlyIfEnded
  BY DEF IInv, TypeOK, AccountedInv, Accounted, VanishedOnlyIfEnded
<1>2. QED
  BY <1>1, Inductive, PTL

DoneStep == \A t \in Tasks : closure[t] = "done" /\ status'[t] # status[t]
                               => status'[t] = "Failed"

\* After its closure is done only failTask changes the status of a task.
THEOREM DoneStable == Spec => DoneOnlyFails
<1>1. IInv /\ [Next]_vars => [DoneStep]_vars
  <2> SUFFICES ASSUME IInv, Next, NEW t \in Tasks, closure[t] = "done",
                      status'[t] # status[t]
               PROVE  status'[t] = "Failed"
    BY DEF DoneStep
  <2> USE DEF IInv, TypeOK, SubmissionInv, EndInv, Step, SetStatus,
             LookUp, Written, Active, NotifyStatus
  <2>1. ASSUME NEW u \in Tasks, ClosureStep(u) \/ GrowOld(u)
        PROVE  status'[t] = "Failed"
    BY <2>1 DEF ClosureStep, GrowOld, ClosureCheck,
       ClosureStart, ClosureStamp, ClosureRun, RunnerEnds, ClosureDecide,
       ClosureFinish, ClosureCount, ClosureNotify, ClosureDone
  <2>2. ASSUME NEW c \in Clients, CallStep(c)
        PROVE  status'[t] = "Failed"
    BY <2>2 DEF CallStep, SubmitCount, SubmitPost, SubmitWithoutLoop, CancelWrite,
       FailWrite, FailStamp, FailCount, TouchWrite, ClientNotify, ClientBroadcast
  <2>3. ASSUME NEW c \in Clients, NEW u \in Tasks, Call(c, u)
        PROVE  status'[t] = "Failed"
    BY <2>3 DEF Call, SubmitInsert, CancelRequest, FailTask, TouchTask
  <2>4. CASE CleanupOldTasks \/ LoopGone
    BY <2>4 DEF CleanupOldTasks, LoopGone
  <2>5. QED
    BY <2>1, <2>2, <2>3, <2>4 DEF Next
<1>2. QED
  BY <1>1, Inductive, PTL DEF Spec, DoneOnlyFails, DoneStep

-----------------------------------------------------------------------------
(* The registry *)

RegistryInv == Lists(task_order_, tasks_)

\* Submission adds an id that is in neither, and cleanup takes ids out of both.
LEMMA RegistryStep ==
  ASSUME TypeOK, SubmissionInv, RegistryInv, [Next]_vars
  PROVE  RegistryInv'
<1>1. ASSUME NEW c \in Clients, NEW t \in Tasks, SubmitInsert(c, t) PROVE RegistryInv'
  <2>1. t \notin tasks_
    BY <1>1 DEF SubmitInsert, SubmissionInv
  <2>2. Lists(Append(task_order_, t), tasks_ \cup {t})
    BY <2>1, ListsAppend DEF RegistryInv
  <2>3. QED
    BY <1>1, <2>2 DEF SubmitInsert, RegistryInv
<1>2. CASE CleanupOldTasks
  <2>1. Lists(Found(task_order_, tasks_ \ Expired), tasks_ \cap (tasks_ \ Expired))
    BY FoundLists DEF RegistryInv
  <2>2. tasks_ \cap (tasks_ \ Expired) = tasks_ \ Expired
    OBVIOUS
  <2>3. QED
    BY <1>2, <2>1, <2>2 DEF CleanupOldTasks, Erase, RegistryInv
<1>3. ASSUME UNCHANGED registry PROVE RegistryInv'
  BY <1>3 DEF RegistryInv
<1>4. ASSUME NEW t \in Tasks, ClosureStep(t) \/ GrowOld(t) PROVE UNCHANGED registry
  BY <1>4 DEF ClosureStep, Step, GrowOld, ClosureCheck, ClosureStart, ClosureStamp,
     ClosureRun, RunnerEnds, ClosureDecide, ClosureFinish, ClosureCount, ClosureNotify,
     NotifyStatus, ClosureDone
<1>5. ASSUME NEW c \in Clients, CallStep(c) PROVE UNCHANGED registry
  BY <1>5 DEF CallStep, SubmitCount, SubmitPost, SubmitWithoutLoop, CancelWrite, FailWrite,
     FailStamp, FailCount, TouchWrite, ClientNotify, NotifyStatus, ClientBroadcast
<1>6. ASSUME NEW c \in Clients, NEW t \in Tasks, Call(c, t), ~SubmitInsert(c, t)
      PROVE  UNCHANGED registry
  BY <1>6 DEF Call, CancelRequest, FailTask, TouchTask, LookUp
<1>7. ASSUME LoopGone \/ UNCHANGED vars PROVE UNCHANGED registry
  BY <1>7 DEF LoopGone
<1>8. QED
  BY <1>1, <1>2, <1>3, <1>4, <1>5, <1>6, <1>7 DEF Next

\* tasks_ and task_order_ hold the same ids, each once, after any number of
\* submissions and cleanups, and a task at work that nobody cancelled or failed
\* is among the active tasks that are listed.
THEOREM RegistryKept == Spec => []RegistryConsistent
<1>1. Init => RegistryInv
  BY DEF Init, RegistryInv, Lists
<1>2. IInv /\ RegistryInv /\ [Next]_vars => RegistryInv'
  BY RegistryStep DEF IInv
<1>3. IInv /\ RegistryInv => RegistryConsistent
  <2> SUFFICES ASSUME IInv, RegistryInv PROVE RegistryConsistent
    OBVIOUS
  <2>1. task_order_ \in Seq(Tasks)
    <3>1. tasks_ \subseteq Tasks /\ task_order_ \in Seq(tasks_)
      BY DEF IInv, TypeOK, RegistryInv, Lists
    <3>2. QED
      BY <3>1, SeqMonotonic
  <2>2. ToSet(task_order_) = tasks_ /\ Len(task_order_) = Cardinality(tasks_)
    BY ListsCount DEF RegistryInv
  <2> DEFINE found == {t \in tasks_ : status[t] \in Active}
  <2>3. ToSet(ListActiveTasks) = found
    <3>1. Lists(ListActiveTasks, tasks_ \cap found)
      BY FoundLists DEF ListActiveTasks, RegistryInv
    <3>2. tasks_ \cap found = found
      OBVIOUS
    <3>3. QED
      BY <3>1, <3>2, ListsCount
  <2>4. ASSUME NEW t \in Tasks,
               closure[t] \in {"startStamp", "startNotify", "running", "returned", "escaped"},
               ~cancelRequested[t], failCalls[t] = 0
        PROVE  t \in found
    <3>1. status[t] # "None" /\ ~Accounted(t)
      BY <2>4 DEF IInv, SubmissionInv, Accounted, Written, Counting
    <3>2. QED
      BY <3>1 DEF IInv, AccountedInv
  <2>5. QED
    BY <2>1, <2>2, <2>3, <2>4 DEF RegistryConsistent
<1>4. QED
  BY <1>1, <1>2, <1>3, Inductive, PTL DEF Spec

-----------------------------------------------------------------------------
(* The counters *)

\* the tasks shown in a final status that must have been counted
CompletedCounted == {t \in Tasks : status[t] = "Completed" /\ closure[t] # "countCompleted"}
LateCancel == {"cancelStamp", "cancelCount", "countCancelled"}
CancelledCounted == {t \in Tasks : status[t] = "Cancelled" /\ closure[t] \notin LateCancel}

\* the tasks whose run has ended, and for which a completion can have been counted
Counted   == {"stamp", "endNotify", "done"}
RunsEnded == {t \in started : closure[t] \in Counted}

\* the tasks for which cancelTask, and the closure, can have counted a cancellation
CountedByCall ==
  {t \in Tasks : /\ cancelRequested[t] /\ status[t] \notin {"None", "Pending"}
                 /\ \A c \in Clients : client[c].pc = "cancelWrite" => client[c].task # t}
CountedByClosure == {t \in Tasks : cancelRequested[t] /\ closure[t] \in Counted}

\* what a closure that goes on from here has seen
ClosureSaw ==
  \A t \in Tasks :
    /\ closure[t] \in {"running", "returned", "failing", "finCancel", "finComplete",
                       "countCompleted"}
         => t \in started
    /\ closure[t] \in {"cancelling", "finCancel"} \cup LateCancel => cancelRequested[t]

CountersInv ==
  /\ Cardinality(CompletedCounted) <= totals["completed"]
  /\ totals["completed"] <= Cardinality(RunsEnded)
  /\ Cardinality(CancelledCounted) <= totals["cancelled"]
  /\ totals["cancelled"] <= Cardinality(CountedByCall) + Cardinality(CountedByClosure)

\* Larger sets of tasks have larger cardinalities.
LEMMA TaskSets ==
  ASSUME NEW S \in SUBSET Tasks, NEW T \in SUBSET Tasks, NEW t
  PROVE  /\ Cardinality(S) \in Nat /\ Cardinality(T) \in Nat
         /\ S \subseteq T => Cardinality(S) <= Cardinality(T)
         /\ S \subseteq T \cup {t} => Cardinality(S) <= Cardinality(T) + 1
         /\ t \notin S /\ S \cup {t} \subseteq T => Cardinality(S) + 1 <= Cardinality(T)
<1>1. /\ IsFiniteSet(S) /\ IsFiniteSet(T)
      /\ Cardinality(S) \in Nat /\ Cardinality(T) \in Nat
  BY ConstantsAssumption, FS_Subset, FS_CardinalityType
<1>2. /\ IsFiniteSet(T \cup {t}) /\ Cardinality(T \cup {t}) <= Cardinality(T) + 1
      /\ Cardinality(T \cup {t}) \in Nat
  <2>1. IsFiniteSet(T \cup {t}) /\ Cardinality(T \cup {t}) \in {Cardinality(T), Cardinality(T) + 1}
    BY <1>1, FS_AddElement
  <2>2. QED
    BY <1>1, <2>1
<1>3. t \notin S => Cardinality(S \cup {t}) = Cardinality(S) + 1
  BY <1>1, FS_AddElement
<1>4. S \subseteq T => Cardinality(S) <= Cardinality(T)
  BY <1>1, FS_Subset
<1>5. S \subseteq T \cup {t} => Cardinality(S) <= Cardinality(T) + 1
  <2> SUFFICES ASSUME S \subseteq T \cup {t} PROVE Cardinality(S) <= Cardinality(T) + 1
    OBVIOUS
  <2>1. Cardinality(S) <= Cardinality(T \cup {t})
    BY <1>2, FS_Subset
  <2>2. QED
    BY <1>1, <1>2, <2>1
<1>6. t \notin S /\ S \cup {t} \subseteq T => Cardinality(S) + 1 <= Cardinality(T)
  BY <1>1, <1>3, FS_Subset
<1>7. QED
  BY <1>1, <1>4, <1>5, <1>6

\* A union has at most as many elements as its parts together.
LEMMA TaskUnion ==
  ASSUME NEW R \in SUBSET Tasks, NEW S \in SUBSET Tasks, NEW T \in SUBSET Tasks,
         R \subseteq S \cup T
  PROVE  /\ Cardinality(R) <= Cardinality(S) + Cardinality(T)
         /\ Cardinality(R) \in Nat /\ Cardinality(S) \in Nat /\ Cardinality(T) \in Nat
<1>1. IsFiniteSet(S) /\ IsFiniteSet(T) /\ IsFiniteSet(S \cap T)
  BY ConstantsAssumption, FS_Subset
<1>2. /\ IsFiniteSet(S \cup T)
      /\ Cardinality(S \cup T) = Cardinality(S) + Cardinality(T) - Cardinality(S \cap T)
  BY <1>1, FS_Union
<1>3. /\ Cardinality(S) \in Nat /\ Cardinality(T) \in Nat /\ Cardinality(S \cap T) \in Nat
      /\ Cardinality(S \cup T) \in Nat
  BY <1>1, <1>2, FS_CardinalityType
<1>4. Cardinality(R) \in Nat /\ Cardinality(R) <= Cardinality(S \cup T)
  BY <1>2, FS_Subset, FS_CardinalityType
<1>5. QED
  BY <1>2, <1>3, <1>4

\* the counters do not change, and no further task is shown that they must hold
NothingCounted ==
  /\ totals'["completed"] = totals["completed"] /\ totals'["cancelled"] = totals["cancelled"]
  /\ CompletedCounted' \subseteq CompletedCounted
  /\ CancelledCounted' \subseteq CancelledCounted

\* one of the counters is incremented, for t
CompletionCounted(t) ==
  /\ totals'["completed"] = totals["completed"] + 1
  /\ totals'["cancelled"] = totals["cancelled"]
  /\ CompletedCounted' \subseteq CompletedCounted \cup {t}
  /\ CancelledCounted' \subseteq CancelledCounted
  /\ t \in RunsEnded' \ RunsEnded
CancellationCounted(t) ==
  /\ totals'["completed"] = totals["completed"]
  /\ totals'["cancelled"] = totals["cancelled"] + 1
  /\ CompletedCounted' \subseteq CompletedCounted
  /\ CancelledCounted' \subseteq CancelledCounted \cup {t}
  /\ t \in (CountedByCall' \ CountedByCall) \cup (CountedByClosure' \ CountedByClosure)

\* no task is taken back from the sets that bound the counters
Remembered ==
  /\ RunsEnded \subseteq RunsEnded'
  /\ CountedByCall \subseteq CountedByCall'
  /\ CountedByClosure \subseteq CountedByClosure'

\* The sets are sets of tasks.
LEMMA CountedSets ==
  ASSUME TypeOK
  PROVE  /\ RunsEnded \in SUBSET Tasks /\ CountedByCall \in SUBSET Tasks
         /\ CountedByClosure \in SUBSET Tasks
         /\ CompletedCounted \in SUBSET Tasks /\ CancelledCounted \in SUBSET Tasks
         /\ totals["completed"] \in Nat /\ totals["cancelled"] \in Nat
  BY DEF TypeOK, Counters, RunsEnded, CountedByCall, CountedByClosure, CompletedCounted,
         CancelledCounted

\* A step that counts nothing, and one that counts a completion or a cancellation,
\* keep the bounds.
LEMMA CountedStep ==
  ASSUME TypeOK, TypeOK', CountersInv, Remembered, NEW t \in Tasks,
         NothingCounted \/ CompletionCounted(t) \/ CancellationCounted(t)
  PROVE  CountersInv'
<1>1. /\ RunsEnded' \in SUBSET Tasks /\ CountedByCall' \in SUBSET Tasks
      /\ CountedByClosure' \in SUBSET Tasks
      /\ CompletedCounted' \in SUBSET Tasks /\ CancelledCounted' \in SUBSET Tasks
  BY DEF TypeOK, RunsEnded, CountedByCall, CountedByClosure, CompletedCounted, CancelledCounted
<1>2. /\ Cardinality(CompletedCounted) \in Nat /\ Cardinality(CompletedCounted') \in Nat
      /\ CompletedCounted' \subseteq CompletedCounted
           => Cardinality(CompletedCounted') <= Cardinality(CompletedCounted)
      /\ CompletedCounted' \subseteq CompletedCounted \cup {t}
           => Cardinality(CompletedCounted') <= Cardinality(CompletedCounted) + 1
  BY <1>1, CountedSets, TaskSets
<1>3. /\ Cardinality(CancelledCounted) \in Nat /\ Cardinality(CancelledCounted') \in Nat
      /\ CancelledCounted' \subseteq CancelledCounted
           => Cardinality(CancelledCounted') <= Cardinality(CancelledCounted)
      /\ CancelledCounted' \subseteq CancelledCounted \cup {t}
           => Cardinality(CancelledCounted') <= Cardinality(CancelledCounted) + 1
  BY <1>1, CountedSets, TaskSets
<1>4. /\ Cardinality(RunsEnded) \in Nat /\ Cardinality(RunsEnded') \in Nat
      /\ Cardinality(RunsEnded) <= Cardinality(RunsEnded')
      /\ t \in RunsEnded' \ RunsEnded => Cardinality(RunsEnded) + 1 <= Cardinality(RunsEnded')
  BY <1>1, CountedSets, TaskSets DEF Remembered
<1>5. /\ Cardinality(CountedByCall) \in Nat /\ Cardinality(CountedByCall') \in Nat
      /\ Cardinality(CountedByCall) <= Cardinality(CountedByCall')
      /\ t \in CountedByCall' \ CountedByCall
           => Cardinality(CountedByCall) + 1 <= Cardinality(CountedByCall')
  BY <1>1, CountedSets, TaskSets DEF Remembered
<1>6. /\ Cardinality(CountedByClosure) \in Nat /\ Cardinality(CountedByClosure') \in Nat
      /\ Cardinality(CountedByClosure) <= Cardinality(CountedByClosure')
      /\ t \in CountedByClosure' \ CountedByClosure
           => Cardinality(CountedByClosure) + 1 <= Cardinality(CountedByClosure')
  BY <1>1, CountedSets, TaskSets DEF Remembered
<1>7. totals["completed"] \in Nat /\ totals["cancelled"] \in Nat
  BY CountedSets
<1>8. CASE NothingCounted
  BY <1>2, <1>3, <1>4, <1>5, <1>6, <1>7, <1>8 DEF CountersInv, NothingCounted
<1>9. CASE CompletionCounted(t)
  BY <1>2, <1>3, <1>4, <1>5, <1>6, <1>7, <1>9 DEF CountersInv, CompletionCounted
<1>10. CASE CancellationCounted(t)
  BY <1>2, <1>3, <1>4, <1>5, <1>6, <1>7, <1>10 DEF CountersInv, CancellationCounted
<1>11. QED
  BY <1>8, <1>9, <1>10

\* A closure at work was started, and one on its way to Cancelled was cancelled.
LEMMA ClosureSawStep ==
  ASSUME TypeOK, ClosureSaw, [Next]_vars
  PROVE  ClosureSaw'
<1> USE DEF TypeOK, ClosureSaw, LateCancel, Goto, Step, LookUp, StartOrCancel, Outcome,
      NotifyStatus
<1>1. ASSUME NEW t \in Tasks, ClosureCheck(t) PROVE ClosureSaw'
  BY <1>1 DEF ClosureCheck
<1>2. ASSUME NEW t \in Tasks, ClosureStart(t) PROVE ClosureSaw'
  BY <1>2 DEF ClosureStart
<1>3. ASSUME NEW t \in Tasks, ClosureStamp(t) PROVE ClosureSaw'
  BY <1>3 DEF ClosureStamp
<1>4. ASSUME NEW t \in Tasks, ClosureRun(t) PROVE ClosureSaw'
  BY <1>4 DEF ClosureRun
<1>5. ASSUME NEW t \in Tasks, RunnerEnds(t) PROVE ClosureSaw'
  BY <1>5 DEF RunnerEnds
<1>6. ASSUME NEW t \in Tasks, ClosureDecide(t) PROVE ClosureSaw'
  BY <1>6 DEF ClosureDecide
<1>7. ASSUME NEW t \in Tasks, ClosureFinish(t) PROVE ClosureSaw'
  BY <1>7 DEF ClosureFinish
<1>8. ASSUME NEW t \in Tasks, ClosureCount(t) PROVE ClosureSaw'
  BY <1>8 DEF ClosureCount
<1>9. ASSUME NEW t \in Tasks, ClosureNotify(t) PROVE ClosureSaw'
  BY <1>9 DEF ClosureNotify
<1>10. ASSUME NEW t \in Tasks, ClosureDone(t) PROVE ClosureSaw'
  BY <1>10 DEF ClosureDone
<1>11. ASSUME NEW t \in Tasks, GrowOld(t) PROVE ClosureSaw'
  BY <1>11 DEF GrowOld
<1>12. ASSUME NEW c \in Clients, SubmitCount(c) PROVE ClosureSaw'
  BY <1>12 DEF SubmitCount
<1>13. ASSUME NEW c \in Clients, SubmitPost(c) PROVE ClosureSaw'
  BY <1>13 DEF SubmitPost
<1>14. ASSUME NEW c \in Clients, SubmitWithoutLoop(c) PROVE ClosureSaw'
  BY <1>14 DEF SubmitWithoutLoop
<1>15. ASSUME NEW c \in Clients, CancelWrite(c) PROVE ClosureSaw'
  BY <1>15 DEF CancelWrite
<1>16. ASSUME NEW c \in Clients, FailWrite(c) PROVE ClosureSaw'
  BY <1>16 DEF FailWrite
<1>17. ASSUME NEW c \in Clients, FailStamp(c) PROVE ClosureSaw'
  BY <1>17 DEF FailStamp
<1>18. ASSUME NEW c \in Clients, FailCount(c) PROVE ClosureSaw'
  BY <1>18 DEF FailCount
<1>19. ASSUME NEW c \in Clients, TouchWrite(c) PROVE ClosureSaw'
  BY <1>19 DEF TouchWrite
<1>20. ASSUME NEW c \in Clients, ClientNotify(c) PROVE ClosureSaw'
  BY <1>20 DEF ClientNotify
<1>21. ASSUME NEW c \in Clients, ClientBroadcast(c) PROVE ClosureSaw'
  BY <1>21 DEF ClientBroadcast
<1>22. ASSUME NEW c \in Clients, NEW t \in Tasks, SubmitInsert(c, t) PROVE ClosureSaw'
  BY <1>22 DEF SubmitInsert
<1>23. ASSUME NEW c \in Clients, NEW t \in Tasks, CancelRequest(c, t) PROVE ClosureSaw'
  BY <1>23 DEF CancelRequest
<1>24. ASSUME NEW c \in Clients, NEW t \in Tasks, FailTask(c, t) PROVE ClosureSaw'
  BY <1>24 DEF FailTask
<1>25. ASSUME NEW c \in Clients, NEW t \in Tasks, TouchTask(c, t) PROVE ClosureSaw'
  BY <1>25 DEF TouchTask
<1>26. CASE CleanupOldTasks
  BY <1>26 DEF CleanupOldTasks, Expired
<1>27. CASE LoopGone
  BY <1>27 DEF LoopGone
<1>28. CASE UNCHANGED vars
  BY <1>28
<1>29. QED
  BY <1>1, <1>2, <1>3, <1>4, <1>5, <1>6, <1>7, <1>8, <1>9, <1>10, <1>11,
     <1>12, <1>13, <1>14, <1>15, <1>16, <1>17, <1>18, <1>19, <1>20,
     <1>21, <1>22, <1>23, <1>24, <1>25, <1>26, <1>27, <1>28 DEF Next, ClosureStep, CallStep, Call

\* A task with a status never becomes Pending again, and a closure that ended has
\* ended: no task is taken back.
LEMMA RememberedStep ==
  ASSUME TypeOK, SubmissionInv, [Next]_vars
  PROVE  Remembered
<1> USE DEF TypeOK, SubmissionInv, Submitting, Remembered, RunsEnded, CountedByCall,
      CountedByClosure, Counted, Status, SetStatus, Goto, Step, LookUp, StartOrCancel,
      Outcome, NotStarted, NotifyStatus
<1>1. ASSUME NEW t \in Tasks, ClosureCheck(t) PROVE Remembered
  BY <1>1 DEF ClosureCheck
<1>2. ASSUME NEW t \in Tasks, ClosureStart(t) PROVE Remembered
  BY <1>2 DEF ClosureStart
<1>3. ASSUME NEW t \in Tasks, ClosureStamp(t) PROVE Remembered
  BY <1>3 DEF ClosureStamp
<1>4. ASSUME NEW t \in Tasks, ClosureRun(t) PROVE Remembered
  BY <1>4 DEF ClosureRun
<1>5. ASSUME NEW t \in Tasks, RunnerEnds(t) PROVE Remembered
  BY <1>5 DEF RunnerEnds
<1>6. ASSUME NEW t \in Tasks, ClosureDecide(t) PROVE Remembered
  BY <1>6 DEF ClosureDecide
<1>7. ASSUME NEW t \in Tasks, ClosureFinish(t) PROVE Remembered
  BY <1>7 DEF ClosureFinish
<1>8. ASSUME NEW t \in Tasks, ClosureCount(t) PROVE Remembered
  BY <1>8 DEF ClosureCount
<1>9. ASSUME NEW t \in Tasks, ClosureNotify(t) PROVE Remembered
  BY <1>9 DEF ClosureNotify
<1>10. ASSUME NEW t \in Tasks, ClosureDone(t) PROVE Remembered
  BY <1>10 DEF ClosureDone
<1>11. ASSUME NEW t \in Tasks, GrowOld(t) PROVE Remembered
  BY <1>11 DEF GrowOld
<1>12. ASSUME NEW c \in Clients, SubmitCount(c) PROVE Remembered
  BY <1>12 DEF SubmitCount
<1>13. ASSUME NEW c \in Clients, SubmitPost(c) PROVE Remembered
  BY <1>13 DEF SubmitPost
<1>14. ASSUME NEW c \in Clients, SubmitWithoutLoop(c) PROVE Remembered
  BY <1>14 DEF SubmitWithoutLoop
<1>15. ASSUME NEW c \in Clients, CancelWrite(c) PROVE Remembered
  BY <1>15 DEF CancelWrite
<1>16. ASSUME NEW c \in Clients, FailWrite(c) PROVE Remembered
  BY <1>16 DEF FailWrite
<1>17. ASSUME NEW c \in Clients, FailStamp(c) PROVE Remembered
  BY <1>17 DEF FailStamp
<1>18. ASSUME NEW c \in Clients, FailCount(c) PROVE Remembered
  BY <1>18 DEF FailCount
<1>19. ASSUME NEW c \in Clients, TouchWrite(c) PROVE Remembered
  BY <1>19 DEF TouchWrite
<1>20. ASSUME NEW c \in Clients, ClientNotify(c) PROVE Remembered
  BY <1>20 DEF ClientNotify
<1>21. ASSUME NEW c \in Clients, ClientBroadcast(c) PROVE Remembered
  BY <1>21 DEF ClientBroadcast
<1>22. ASSUME NEW c \in Clients, NEW t \in Tasks, SubmitInsert(c, t) PROVE Remembered
  BY <1>22 DEF SubmitInsert
<1>23. ASSUME NEW c \in Clients, NEW t \in Tasks, CancelRequest(c, t) PROVE Remembered
  BY <1>23 DEF CancelRequest
<1>24. ASSUME NEW c \in Clients, NEW t \in Tasks, FailTask(c, t) PROVE Remembered
  BY <1>24 DEF FailTask
<1>25. ASSUME NEW c \in Clients, NEW t \in Tasks, TouchTask(c, t) PROVE Remembered
  BY <1>25 DEF TouchTask
<1>26. CASE CleanupOldTasks
  BY <1>26 DEF CleanupOldTasks, Expired
<1>27. CASE LoopGone
  BY <1>27 DEF LoopGone
<1>28. CASE UNCHANGED vars
  BY <1>28
<1>29. QED
  BY <1>1, <1>2, <1>3, <1>4, <1>5, <1>6, <1>7, <1>8, <1>9, <1>10, <1>11,
     <1>12, <1>13, <1>14, <1>15, <1>16, <1>17, <1>18, <1>19, <1>20,
     <1>21, <1>22, <1>23, <1>24, <1>25, <1>26, <1>27, <1>28 DEF Next, ClosureStep, CallStep, Call

\* Only a closure that counts and the write of cancelTask change the counters, and
\* only they show a task that must have been counted.
LEMMA NothingCountedElsewhere ==
  ASSUME TypeOK, SubmissionInv, [Next]_vars,
         \A t \in Tasks : ~ClosureCount(t), \A c \in Clients : ~CancelWrite(c)
  PROVE  NothingCounted
<1> USE DEF TypeOK, Counters, NothingCounted, CompletedCounted, CancelledCounted, LateCancel,
      SetStatus, Bump, Step, LookUp, NotifyStatus
<1>1. ASSUME NEW t \in Tasks, ClosureStep(t) \/ GrowOld(t) PROVE NothingCounted
  <2>1. CASE ClosureCheck(t) \/ RunnerEnds(t) \/ ClosureDecide(t)
    BY <2>1 DEF ClosureCheck, RunnerEnds, ClosureDecide, StartOrCancel, Outcome
  <2>2. CASE ClosureStart(t) \/ ClosureStamp(t)
    BY <2>2 DEF ClosureStart, ClosureStamp
  <2>3. CASE ClosureFinish(t)
    BY <2>3 DEF ClosureFinish
  <2>4. CASE ClosureRun(t) \/ ClosureNotify(t) \/ ClosureDone(t) \/ GrowOld(t)
    BY <2>4 DEF ClosureRun, ClosureNotify, ClosureDone, GrowOld
  <2>5. QED
    BY <1>1, <2>1, <2>2, <2>3, <2>4 DEF ClosureStep
<1>2. ASSUME NEW c \in Clients, CallStep(c) PROVE NothingCounted
  <2>1. CASE SubmitWithoutLoop(c)
    BY <2>1 DEF SubmitWithoutLoop
  <2>2. CASE FailWrite(c)
    BY <2>2 DEF FailWrite
  <2>3. CASE FailCount(c) \/ SubmitCount(c)
    BY <2>3 DEF FailCount, SubmitCount
  <2>4. CASE SubmitPost(c)
    BY <2>4 DEF SubmitPost, SubmissionInv, Submitting
  <2>5. CASE FailStamp(c) \/ TouchWrite(c) \/ ClientNotify(c) \/ ClientBroadcast(c)
    BY <2>5 DEF FailStamp, TouchWrite, ClientNotify, ClientBroadcast
  <2>6. QED
    BY <1>2, <2>1, <2>2, <2>3, <2>4, <2>5 DEF CallStep
<1>3. ASSUME NEW c \in Clients, NEW t \in Tasks, Call(c, t) PROVE NothingCounted
  BY <1>3 DEF Call, SubmitInsert, CancelRequest, FailTask, TouchTask
<1>4. CASE CleanupOldTasks \/ LoopGone \/ UNCHANGED vars
  BY <1>4 DEF CleanupOldTasks, LoopGone
<1>5. QED
  BY <1>1, <1>2, <1>3, <1>4 DEF Next

\* The counters keep their bounds.
LEMMA CountersStep ==
  ASSUME TypeOK, TypeOK', SubmissionInv, AccountedInv, ClosureSaw, CountersInv, [Next]_vars
  PROVE  CountersInv'
<1>1. Remembered
  BY RememberedStep
<1>2. ASSUME NEW t \in Tasks, ClosureCount(t) PROVE CountersInv'
  <2>1. /\ UNCHANGED <<status, cancelRequested, started>>
        /\ \A u \in Tasks : u # t => closure'[u] = closure[u]
    BY <1>2 DEF ClosureCount, Step, TypeOK
  <2> USE DEF TypeOK, Counters, CompletedCounted, CancelledCounted, LateCancel
  <2>2. CASE closure[t] \in {"cancelCount", "countCancelled"}
    <3>1. closure'[t] \in Counted /\ totals' = [totals EXCEPT !["cancelled"] = @ + 1]
      BY <1>2, <2>2 DEF ClosureCount, Step, Bump, Counted
    <3>2. t \in CountedByClosure' \ CountedByClosure
      BY <2>1, <2>2, <3>1 DEF CountedByClosure, Counted, ClosureSaw
    <3>3. CancellationCounted(t)
      BY <2>1, <2>2, <3>1, <3>2 DEF CancellationCounted, Counted
    <3>4. QED
      BY <1>1, <3>3, CountedStep
  <2>3. CASE closure[t] = "countCompleted"
    <3>1. closure'[t] = "stamp" /\ totals' = [totals EXCEPT !["completed"] = @ + 1]
      BY <1>2, <2>3 DEF ClosureCount, Step, Bump
    <3>2. t \in RunsEnded' \ RunsEnded
      BY <2>1, <2>3, <3>1 DEF RunsEnded, Counted, ClosureSaw
    <3>3. CompletionCounted(t)
      BY <2>1, <2>3, <3>1, <3>2 DEF CompletionCounted
    <3>4. QED
      BY <1>1, <3>3, CountedStep
  <2>4. CASE closure[t] = "countFailed"
    <3>1. closure'[t] = "stamp" /\ totals' = [totals EXCEPT !["failed"] = @ + 1]
      BY <1>2, <2>4 DEF ClosureCount, Step, Bump
    <3>2. NothingCounted
      BY <2>1, <2>4, <3>1 DEF NothingCounted
    <3>3. QED
      BY <1>1, <3>2, CountedStep
  <2>5. QED
    BY <1>2, <2>2, <2>3, <2>4 DEF ClosureCount, Step
<1>3. ASSUME NEW c \in Clients, CancelWrite(c) PROVE CountersInv'
  <2> DEFINE t == client[c].task
  <2>1. t \in Tasks /\ client[c].pc = "cancelWrite" /\ cancelRequested[t]
    BY <1>3 DEF TypeOK, CancelWrite, AccountedInv
  <2>2. /\ totals' = [totals EXCEPT !["cancelled"] = @ + 1]
        /\ status' = [status EXCEPT ![t] = "Cancelled"] /\ UNCHANGED closure
    BY <1>3 DEF CancelWrite, SetStatus, Bump
  <2>3. /\ status'[t] = "Cancelled" /\ cancelRequested'[t]
        /\ \A d \in Clients : client'[d].pc # "cancelWrite"
    BY <1>3, <2>1, <2>2 DEF CancelWrite, Goto, TypeOK
  <2> HIDE DEF t
  <2>4. t \in CountedByCall'
    BY <2>1, <2>3 DEF CountedByCall
  <2>5. t \notin CountedByCall
    BY <2>1 DEF CountedByCall, t
  <2>6. CancellationCounted(t)
    BY <2>1, <2>2, <2>4, <2>5 DEF CancellationCounted, TypeOK, Counters, CompletedCounted,
       CancelledCounted
  <2>7. QED
    BY <1>1, <2>1, <2>6, CountedStep
<1>4. CASE (\A t \in Tasks : ~ClosureCount(t)) /\ (\A c \in Clients : ~CancelWrite(c))
  <2>1. NothingCounted
    BY <1>4, NothingCountedElsewhere
  <2>2. PICK t \in Tasks : TRUE
    BY ConstantsAssumption
  <2>3. QED
    BY <1>1, <2>1, <2>2, CountedStep
<1>5. QED
  BY <1>2, <1>3, <1>4

\* What getStats finds in a final status exceeds its counters by no more than the
\* closures between the store and the increment, a completion needs a run of its
\* own, and a cancelled task is counted at most twice, by cancelTask and again by its
\* closure: for any number of tasks, callers and calls of failTask.
THEOREM CountersHold == Spec => []CountersBracketTasks
<1>1. Init => ClosureSaw /\ CountersInv
  <2> SUFFICES ASSUME Init PROVE ClosureSaw /\ CountersInv
    OBVIOUS
  <2>1. /\ CompletedCounted = {} /\ CancelledCounted = {}
        /\ RunsEnded = {} /\ CountedByCall = {} /\ CountedByClosure = {}
    BY DEF Init, CompletedCounted, CancelledCounted, RunsEnded, CountedByCall, CountedByClosure
  <2>2. ClosureSaw /\ totals["completed"] = 0 /\ totals["cancelled"] = 0
    BY DEF Init, ClosureSaw, LateCancel, Counters
  <2>3. QED
    BY <2>1, <2>2, FS_EmptySet DEF CountersInv
<1>2. IInv /\ IInv' /\ ClosureSaw /\ CountersInv /\ [Next]_vars => ClosureSaw' /\ CountersInv'
  BY ClosureSawStep, CountersStep DEF IInv
<1>3. IInv /\ CountersInv => CountersBracketTasks
  <2> SUFFICES ASSUME IInv, CountersInv PROVE CountersBracketTasks
    OBVIOUS
  <2> DEFINE requested == {t \in Tasks : cancelRequested[t]}
             found(s) == {t \in tasks_ : status[t] = s}
             late(pcs) == {t \in Tasks : closure[t] \in pcs}
  <2>1. /\ started \in SUBSET Tasks /\ requested \in SUBSET Tasks
        /\ found("Completed") \in SUBSET Tasks /\ found("Cancelled") \in SUBSET Tasks
        /\ found("Completed") \subseteq CompletedCounted \cup late({"countCompleted"})
        /\ found("Cancelled") \subseteq CancelledCounted \cup late(LateCancel)
        /\ \A pcs : late(pcs) \in SUBSET Tasks
        /\ RunsEnded \subseteq started /\ CountedByCall \subseteq requested
        /\ CountedByClosure \subseteq requested
    BY DEF IInv, TypeOK, CompletedCounted, CancelledCounted, RunsEnded, CountedByCall,
           CountedByClosure
  <2>2. TypeOK
    BY DEF IInv
  <2> HIDE DEF requested, found, late
  <2>3. /\ Cardinality(found("Completed")) <=
             Cardinality(CompletedCounted) + Cardinality(late({"countCompleted"}))
        /\ Cardinality(found("Completed")) \in Nat /\ Cardinality(CompletedCounted) \in Nat
        /\ Cardinality(late({"countCompleted"})) \in Nat
    BY <2>1, <2>2, CountedSets, TaskUnion
  <2>4. /\ Cardinality(found("Cancelled")) <=
             Cardinality(CancelledCounted) + Cardinality(late(LateCancel))
        /\ Cardinality(found("Cancelled")) \in Nat /\ Cardinality(CancelledCounted) \in Nat
        /\ Cardinality(late(LateCancel)) \in Nat
    BY <2>1, <2>2, CountedSets, TaskUnion
  <2>5. Cardinality(RunsEnded) <= Cardinality(started)
        /\ Cardinality(RunsEnded) \in Nat /\ Cardinality(started) \in Nat
    BY <2>1, <2>2, CountedSets, TaskSets
  <2>6. Cardinality(CountedByCall) <= Cardinality(requested)
        /\ Cardinality(CountedByCall) \in Nat /\ Cardinality(requested) \in Nat
    BY <2>1, <2>2, CountedSets, TaskSets
  <2>7. Cardinality(CountedByClosure) <= Cardinality(requested)
        /\ Cardinality(CountedByClosure) \in Nat
    BY <2>1, <2>2, CountedSets, TaskSets
  <2>8. totals["completed"] \in Nat /\ totals["cancelled"] \in Nat
    BY <2>2, CountedSets
  <2>9. /\ Cardinality(found("Completed")) <=
             totals["completed"] + Cardinality(late({"countCompleted"}))
        /\ Cardinality(found("Cancelled")) <= totals["cancelled"] + Cardinality(late(LateCancel))
    BY <2>3, <2>4, <2>8 DEF CountersInv
  <2>10. totals["completed"] <= Cardinality(started)
         /\ totals["cancelled"] <= 2 * Cardinality(requested)
    BY <2>5, <2>6, <2>7, <2>8 DEF CountersInv
  <2>11. QED
    BY <2>9, <2>10 DEF CountersBracketTasks, CountIn, Uncounted, LateCancel, requested, found, late
<1>4. QED
  BY <1>1, <1>2, <1>3, Inductive, PTL DEF Spec
=============================================================================
