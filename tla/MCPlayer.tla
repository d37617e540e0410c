------------------------------ MODULE MCPlayer ------------------------------
(***************************************************************************)
(* A small instance of Player: one piece that turns on the spot and one    *)
(* that kicks, and the keys that act on the game as a whole, turn or move. *)
(***************************************************************************)
EXTENDS Player

SRSShapes == ShapeTable("srs")
SRSKicks  == KickTable("srs")
NoInputs  == {}
HeldKeys  ==
  {{}, {"up"}, {"left"}, {"right"}, {"hold"}, {"rotr"}, {"rotl"}, {"restart"},
   {"up", "hold"}, {"up", "down"}, {"left", "right"}, {"right", "quit"}}

\* Uninitialised memory: keys that look held or masked, any sign of dasCounter.
Garbage ==
  [lastKeys : {{}, {"up"}}, currentKeys : {{}, {"left", "restart"}}, dasCounter : {-2, 3}]
=============================================================================
