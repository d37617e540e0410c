------------------------------ MODULE MCEngine ------------------------------
(***************************************************************************)
(* Small instances of Engine for TLC: the real shapes and wallkick tables, *)
(* and the inputs the player of an instance may give.                      *)
(***************************************************************************)
EXTENDS EngineRefinement

SRSShapes == ShapeTable("srs")
SRSKicks  == KickTable("srs")

NoInput == [movement |-> 0, rotation |-> 0, gravity |-> 0, extra |-> {}, keys |-> {}]

Left     == [NoInput EXCEPT !.movement = -1, !.extra = {"finesse"}]
Right    == [NoInput EXCEPT !.movement = 1, !.extra = {"finesse"}]
LeftWall == [NoInput EXCEPT !.movement = -Width]      \* DAS with dasSpeed 0
Rot(dir) == [NoInput EXCEPT !.rotation = dir, !.extra = {"finesse"},
               !.keys = {CASE dir = Clockwise -> "rotr" [] dir = Anticlockwise -> "rotl"
                           [] OTHER -> "roth"}]
SoftDrop == [NoInput EXCEPT !.gravity = 1]
HardDrop == [NoInput EXCEPT !.gravity = Height, !.extra = {"harddrop"}]
Hold     == [NoInput EXCEPT !.extra = {"hold"}, !.keys = {"hold"}]
Restart  == [NoInput EXCEPT !.extra = {"restart"}]
Quit     == [NoInput EXCEPT !.extra = {"quit"}]
HeldKeys == [NoInput EXCEPT !.keys = {"hold", "rotr"}]  \* held since before the ARE

\* Placing pieces: sideways moves, rotations and hard drops, no hold.
PlaceInputs == {Restart, NoInput, Left, Right, LeftWall, Rot(Clockwise), Rot(Anticlockwise), HardDrop}

\* Everything at once.
AllInputs == PlaceInputs \cup {Rot(Halfturn), SoftDrop, Hold, HeldKeys, Quit}
=============================================================================
