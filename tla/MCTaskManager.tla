--------------------------- MODULE MCTaskManager ---------------------------
(* Small instances of TaskManager for TLC. *)
EXTENDS TaskManager, TLC

Symmetry == Permutations(Tasks) \cup Permutations(Clients)
=============================================================================
