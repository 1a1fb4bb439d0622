----------------------------- MODULE SequenceLife -----------------------------
(***************************************************************************)
(* What executeAll() and stop() promise to whoever calls them, without     *)
(* target lists, stored states or threads to join: runs follow one another;*)
(* a run takes up one target after the other and sees each of them through *)
(* to its accounting; once a stop() has been heard no run commits itself   *)
(* to another target; stop() is answered when no run is under way, and     *)
(* none begins before it has returned.                                     *)
(***************************************************************************)
EXTENDS Naturals

CONSTANTS Runs,     \* the numbers of the runs
          Callers   \* threads that may call stop()

VARIABLES stage,    \* how far each run is with the target at hand
          runs,     \* runs begun since the process started
          stop      \* how far each caller's stop() is

lifeVars == <<stage, runs, stop>>

Stages == {"over", "between", "committed", "executing", "settling"}
Stops  == {"none", "asked", "heard", "answered"}

LifeInit ==
  /\ stage = [r \in Runs |-> "over"]
  /\ runs = 0
  /\ stop = [c \in Callers |-> "none"]

\* no run is under way
Quiet == \A r \in Runs : stage[r] = "over"

Begin ==
  /\ Quiet /\ \A c \in Callers : stop[c] = "none"
  /\ runs + 1 \in Runs
  /\ runs' = runs + 1
  /\ stage' = [stage EXCEPT ![runs + 1] = "between"]
  /\ UNCHANGED stop

Pass(r, from, to) ==
  /\ stage[r] = from
  /\ stage' = [stage EXCEPT ![r] = to]
  /\ UNCHANGED <<runs, stop>>

Commit(r)  == Pass(r, "between", "committed") /\ \A c \in Callers : stop[c] # "heard"
Execute(r) == Pass(r, "committed", "executing")
Skip(r)    == Pass(r, "committed", "settling")
Finish(r)  == Pass(r, "executing", "settling")
Settle(r)  == Pass(r, "settling", "between")
End(r)     == Pass(r, "between", "over")

Walk(r) == Commit(r) \/ Execute(r) \/ Skip(r) \/ Finish(r) \/ Settle(r) \/ End(r)

Say(c, from, to) ==
  /\ stop[c] = from
  /\ stop' = [stop EXCEPT ![c] = to]
  /\ UNCHANGED <<stage, runs>>

Ask(c)    == Say(c, "none", "asked")
Hear(c)   == Say(c, "asked", "heard")
Answer(c) == Say(c, "heard", "answered") /\ Quiet
Return(c) == Say(c, "answered", "none") /\ Quiet

StopCall(c) == Ask(c) \/ Hear(c) \/ Answer(c) \/ Return(c)

\* the process dies, in whatever stage
Die == /\ stage' = [r \in Runs |-> "over"]
       /\ runs' = 0
       /\ stop' = [c \in Callers |-> "none"]

LifeNext == \/ Begin \/ Die
            \/ \E r \in Runs : Walk(r)
            \/ \E c \in Callers : StopCall(c)

LifeSpec == LifeInit /\ [][LifeNext]_lifeVars
=============================================================================
