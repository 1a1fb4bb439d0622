--------------------------- MODULE MCTargetExecution ---------------------------
(* TargetExecution for TLC: one task has all the post-tasks. *)
EXTENDS TargetExecution

CONSTANT WithPosts

MCPostOf == [t \in Tasks |-> IF t \in WithPosts THEN Posts ELSE {}]
=============================================================================
