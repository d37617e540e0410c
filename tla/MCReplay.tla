------------------------------ MODULE MCReplay ------------------------------
(***************************************************************************)
(* Instances of Replay for TLC.                                            *)
(***************************************************************************)
EXTENDS Replay

Held   == {{}, {"left"}, {"up"}, {"left", "up"}, {"restart"}, {"quit"}}
Few    == {{}, {"up"}, {"left", "up"}, {"restart"}}
Both   == {{}, {"left"}, {"up"}, {"left", "restart"}}

\* A game for the engine: its piece completes the goal where it is dropped
\* aside, and leaves no room for the next one where it enters.
Entry == [aside |-> FALSE, down |-> FALSE]
Moved(e, in) ==
  [aside |-> e.aside \/ in.movement # 0, down |-> "harddrop" \in in.extra]
Aside == {[aside |-> TRUE, down |-> TRUE]}
Blocked == {[aside |-> FALSE, down |-> TRUE]}

Zeroed == {[lastKeys |-> {}, currentKeys |-> {}, dasCounter |-> 0]}
=============================================================================
