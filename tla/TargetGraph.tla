----------------------------- MODULE TargetGraph -----------------------------
(***************************************************************************)
(* What the two graph algorithms of the sequencer compute, as Sequencer    *)
(* uses it: the depth-first search of findCyclicDependency and the         *)
(* fixpoint loop of updateTargetReadyStatus, both over names.              *)
(***************************************************************************)
CONSTANT Names  \* names of targets, those too that no target has

\* findCyclicDependency finds nothing: every set of names has one that
\* depends on none of them
Acyclic(deps) ==
  \A S \in (SUBSET Names) \ {{}} : \E n \in S : deps[n] \cap S = {}

\* updateTargetReadyStatus: of the names marked ready, those that depend,
\* directly or not, on nothing that is not ready
Supported(marked, deps) ==
  UNION {S \in SUBSET marked : \A n \in S : deps[n] \subseteq S}
=============================================================================
