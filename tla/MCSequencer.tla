---------------------------- MODULE MCSequencer ----------------------------
(* Sequencer with targets named by themselves, but for Namesakes, which have *)
(* one name.  No operation tells apart two namesakes, two targets when there *)
(* are no namesakes, or two clients that are all controllers.                *)
EXTENDS Sequencer

CONSTANT Namesakes

MCNameOf == [t \in Targets |->
              IF t \in Namesakes THEN CHOOSE n \in Names : n \notin Targets ELSE t]

Symmetry == Permutations(Clients)
              \cup Permutations(IF Namesakes = {} THEN Targets ELSE Namesakes)

\* without completedTargets_ and totalTargets_, which no operation reads and no
\* property names
WithoutCounts ==
  <<state_, targets_, status, enabled, graph, failedTargetNames_, thread,
    sequenceThread_, client, started, calls, disk, fault>>
=============================================================================
