----------------------------- MODULE TaskExecutor -----------------------------
(***************************************************************************)
(* What the interpreter pool promises to whoever submits tasks             *)
(* (script/interpreter_pool.hpp), without threads, queue or condition      *)
(* variables: a pool opens and closes at most once; while it is open a     *)
(* task may be accepted; an accepted task is run once, most urgent first   *)
(* and as urgent ones in the order of their submission, or cancelled       *)
(* before it starts; a task that is running is never cancelled.            *)
(***************************************************************************)
EXTENDS Naturals

CONSTANTS Tasks,     \* submitted callables
          Priority   \* TaskPriority of each

VARIABLES phase,     \* what became of each task
          gate,      \* "new", "open" or "closed"
          before     \* pairs of waiting tasks, the earlier one first

execVars == <<phase, gate, before>>

Phases == {"none", "refused", "waiting", "running", "ready", "cancelled"}

Waits == {t \in Tasks : phase[t] = "waiting"}

ExecInit == /\ phase = [t \in Tasks |-> "none"]
            /\ gate = "new"
            /\ before = {}

Open  == gate = "new"  /\ gate' = "open"   /\ UNCHANGED <<phase, before>>
Close == gate = "open" /\ gate' = "closed" /\ UNCHANGED <<phase, before>>

Move(t, from, to) ==
  /\ phase[t] = from
  /\ phase' = [phase EXCEPT ![t] = to]
  /\ UNCHANGED gate

Accept(t) ==
  /\ gate = "open" /\ Move(t, "none", "waiting")
  /\ before' = before \cup (Waits \X {t})

Refuse(t) == Move(t, "none", "refused") /\ UNCHANGED before

\* nothing more urgent is waiting, and nothing as urgent that was there before
Start(t) ==
  /\ Move(t, "waiting", "running")
  /\ \A u \in Waits :
       \/ Priority[u] < Priority[t]
       \/ Priority[u] = Priority[t] /\ <<u, t>> \notin before
  /\ before' = {p \in before : p[1] # t /\ p[2] # t}

Finish(t) == Move(t, "running", "ready") /\ UNCHANGED before

\* everything that waits is dropped at once
Cancel ==
  /\ phase' = [t \in Tasks |-> IF t \in Waits THEN "cancelled" ELSE phase[t]]
  /\ before' = {}
  /\ UNCHANGED gate

ExecNext == \/ Open \/ Close \/ Cancel
            \/ \E t \in Tasks : Accept(t) \/ Refuse(t) \/ Start(t) \/ Finish(t)

ExecSpec == ExecInit /\ [][ExecNext]_execVars
=============================================================================
