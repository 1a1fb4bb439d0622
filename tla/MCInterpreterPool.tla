--------------------------- MODULE MCInterpreterPool ---------------------------
(* InterpreterPool for TLC: one task more urgent than the others. *)
EXTENDS InterpreterPool

CONSTANT Urgent

MCPriority == [t \in Tasks |-> IF t \in Urgent THEN 2 ELSE 1]
=============================================================================
