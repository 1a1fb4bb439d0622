----------------------------- MODULE TargetOutcome -----------------------------
(***************************************************************************)
(* What Target::execute() promises to the sequence that calls it, without  *)
(* tasks, groups or locks: it looks once whether the target is enabled,    *)
(* stores Skipped or InProgress, in the latter case stores exactly one     *)
(* outcome afterwards, and returns.  Other threads may store a status of   *)
(* their own at any time: abort() Failed, retry and skip Pending and       *)
(* Skipped.                                                                *)
(***************************************************************************)
VARIABLES status,   \* TargetStatus
          enabled,  \* the flag of setEnabled
          phase     \* "idle", or what the executing thread will store next

outcomeVars == <<status, enabled, phase>>

OutcomeInit == status = "Pending" /\ enabled \in BOOLEAN /\ phase = "idle"

Look == /\ phase = "idle" /\ phase' = (IF enabled THEN "start" ELSE "skip")
        /\ UNCHANGED <<status, enabled>>
Write(from, to, s) ==
  phase = from /\ phase' = to /\ status' = s /\ UNCHANGED enabled

Enable  == enabled' \in BOOLEAN /\ UNCHANGED <<status, phase>>
Outside == status' \in {"Failed", "Pending", "Skipped"} /\ UNCHANGED <<enabled, phase>>

OutcomeNext == \/ Look \/ Write("skip", "idle", "Skipped")
               \/ Write("start", "end", "InProgress")
               \/ \E s \in {"Completed", "Failed"} : Write("end", "idle", s)
               \/ Enable \/ Outside

OutcomeSpec == OutcomeInit /\ [][OutcomeNext]_outcomeVars

\* execute() returns
OutcomeFairSpec == OutcomeSpec /\ (phase # "idle" ~> phase = "idle")
=============================================================================
