------------------------------ MODULE Rotation ------------------------------
(***************************************************************************)
(* The rotation data of src/engine/rotation.c: the cells of every piece in *)
(* every orientation, and the wallkick tables of the seven rotation        *)
(* systems.  A kick is the C struct i8x3: an offset and the flag of the    *)
(* WK_ARIKA_LJT marker, whose x and y the C initialiser leaves zero.  The  *)
(* WK_END sentinel is the end of the sequence.                             *)
(***************************************************************************)
EXTENDS Integers, Sequences

PieceType == {"I", "J", "L", "O", "S", "T", "Z"}
System    == {"simple", "sega", "srs", "arikasrs", "tgm12", "tgm3", "dtet"}

Clockwise     == 1
Anticlockwise == -1
Halfturn      == 2
Direction     == {Clockwise, Anticlockwise, Halfturn}
Theta         == 0..3

Turned(theta, dir) == (theta + 4 + dir) % 4

-----------------------------------------------------------------------------
(***************************************************************************)
(* pieceOffsets: <<x, y>> of the four blocks, y growing downwards, for     *)
(* orientations 0, R, 2, L.                                                *)
(***************************************************************************)
pieceOffsets ==
  [I |-> << {<<0,1>>, <<1,1>>, <<2,1>>, <<3,1>>}, {<<2,0>>, <<2,1>>, <<2,2>>, <<2,3>>},
            {<<0,2>>, <<1,2>>, <<2,2>>, <<3,2>>}, {<<1,0>>, <<1,1>>, <<1,2>>, <<1,3>>} >>,
   J |-> << {<<0,0>>, <<0,1>>, <<1,1>>, <<2,1>>}, {<<1,0>>, <<1,1>>, <<1,2>>, <<2,0>>},
            {<<0,1>>, <<1,1>>, <<2,1>>, <<2,2>>}, {<<0,2>>, <<1,0>>, <<1,1>>, <<1,2>>} >>,
   L |-> << {<<0,1>>, <<1,1>>, <<2,0>>, <<2,1>>}, {<<1,0>>, <<1,1>>, <<1,2>>, <<2,2>>},
            {<<0,1>>, <<0,2>>, <<1,1>>, <<2,1>>}, {<<0,0>>, <<1,0>>, <<1,1>>, <<1,2>>} >>,
   O |-> [i \in 1..4 |-> {<<1,0>>, <<1,1>>, <<2,0>>, <<2,1>>}],
   S |-> << {<<0,1>>, <<1,0>>, <<1,1>>, <<2,0>>}, {<<1,0>>, <<1,1>>, <<2,1>>, <<2,2>>},
            {<<0,2>>, <<1,1>>, <<1,2>>, <<2,1>>}, {<<0,0>>, <<0,1>>, <<1,1>>, <<1,2>>} >>,
   T |-> << {<<0,1>>, <<1,0>>, <<1,1>>, <<2,1>>}, {<<1,0>>, <<1,1>>, <<1,2>>, <<2,1>>},
            {<<0,1>>, <<1,1>>, <<1,2>>, <<2,1>>}, {<<0,1>>, <<1,0>>, <<1,1>>, <<1,2>>} >>,
   Z |-> << {<<0,0>>, <<1,0>>, <<1,1>>, <<2,1>>}, {<<1,1>>, <<1,2>>, <<2,0>>, <<2,1>>},
            {<<0,1>>, <<1,1>>, <<1,2>>, <<2,2>>}, {<<0,1>>, <<0,2>>, <<1,0>>, <<1,1>>} >>]

\* Orientation in which a piece enters the field: J, L and T enter upside
\* down, and I in its usual orientation, in the systems derived from Sega's.
entryTheta(sys, p) ==
  IF sys \in {"sega", "tgm12", "tgm3", "dtet"} /\ p \in {"J", "L", "T"} THEN 2 ELSE 0

-----------------------------------------------------------------------------
K(dx, dy) == [x |-> dx, y |-> dy, ljt |-> FALSE]
LJT       == [x |-> 0, y |-> 0, ljt |-> TRUE]

\* The shapes a row of a table takes: one test; a test and its two
\* neighbours, right before left; the same behind the LJT condition.
Only(x, y)      == <<K(x, y)>>
Side(x, y)      == <<K(x, y), K(x + 1, y), K(x - 1, y)>>
SideLJT(x, y)   == <<K(x, y), LJT, K(x + 1, y), K(x - 1, y)>>

emptyWallkickTable == [i \in 1..4 |-> Only(0, 0)]

-----------------------------------------------------------------------------
(***************************************************************************)
(* The wallkick tables.  kicks_*_R are the clockwise tables, kicks_*_L the *)
(* anticlockwise ones, each a row of tests per orientation turned from.    *)
(***************************************************************************)
kicksSRS_R ==
  << <<K(0, 0), K(-1, 0), K(-1, -1), K(0, 2), K(-1, 2)>>,
     <<K(0, 0), K(1, 0), K(1, 1), K(0, -2), K(1, -2)>>,
     <<K(0, 0), K(1, 0), K(1, -1), K(0, 2), K(1, 2)>>,
     <<K(0, 0), K(-1, 0), K(-1, 1), K(0, -2), K(-1, -2)>> >>

kicksSRS_L ==
  << <<K(0, 0), K(1, 0), K(1, -1), K(0, 2), K(1, 2)>>,
     <<K(0, 0), K(1, 0), K(1, 1), K(0, -2), K(1, -2)>>,
     <<K(0, 0), K(-1, 0), K(-1, -1), K(0, 2), K(-1, 2)>>,
     <<K(0, 0), K(-1, 0), K(-1, 1), K(0, -2), K(-1, -2)>> >>

\* A slip in one row of the I table: the second up-kick loses its sign.
MutSRS_I_R ==
  << <<K(0, 0), K(-2, 0), K(1, 0), K(-2, 1), K(1, -2)>>,
     <<K(0, 0), K(-1, 0), K(2, 0), K(-1, 2), K(2, 1)>>,
     <<K(0, 0), K(2, 0), K(-1, 0), K(2, -1), K(-1, 2)>>,
     <<K(0, 0), K(1, 0), K(-2, 0), K(1, 2), K(-2, -1)>> >>

kicksSRS_I_R ==
  << <<K(0, 0), K(-2, 0), K(1, 0), K(-2, 1), K(1, -2)>>,
     <<K(0, 0), K(-1, 0), K(2, 0), K(-1, -2), K(2, 1)>>,
     <<K(0, 0), K(2, 0), K(-1, 0), K(2, -1), K(-1, 2)>>,
     <<K(0, 0), K(1, 0), K(-2, 0), K(1, 2), K(-2, -1)>> >>

kicksSRS_I_L ==
  << <<K(0, 0), K(-1, 0), K(2, 0), K(-1, -2), K(2, 1)>>,
     <<K(0, 0), K(2, 0), K(-1, 0), K(2, -1), K(-1, 2)>>,
     <<K(0, 0), K(1, 0), K(-2, 0), K(1, 2), K(-2, -1)>>,
     <<K(0, 0), K(-2, 0), K(1, 0), K(-2, 1), K(1, -2)>> >>

kicksArika_I_R ==
  << <<K(0, 0), K(-2, 0), K(1, 0), K(1, -2), K(-2, 1)>>,
     <<K(0, 0), K(-1, 0), K(2, 0), K(-1, -2), K(2, 1)>>,
     <<K(0, 0), K(2, 0), K(-1, 0), K(2, -1), K(-1, 1)>>,
     <<K(0, 0), K(1, 0), K(-2, 0), K(1, -2), K(-2, 1)>> >>

kicksArika_I_L ==
  << <<K(0, 0), K(2, 0), K(-1, 0), K(-1, -2), K(2, 1)>>,
     <<K(0, 0), K(2, 0), K(-1, 0), K(2, -1), K(-1, 2)>>,
     <<K(0, 0), K(-2, 0), K(1, 0), K(-2, -1), K(1, 1)>>,
     <<K(0, 0), K(1, 0), K(-2, 0), K(1, -2), K(-2, 2)>> >>

kicksSega_I_R   == << Only(0, 0),   Only(0, -1), Only(1, 1),  Only(-1, 0) >>
kicksSega_I_L   == << Only(1, 0),   Only(0, 0),  Only(0, 1),  Only(-1, -1) >>
kicksSega_JLT_R == << Only(0, 0),   Only(0, 1),  Only(0, -1), Only(0, 0) >>
kicksSega_JLT_L == << Only(0, 0),   Only(0, 0),  Only(0, -1), Only(0, 1) >>
kicksSega_S_R   == << Only(-1, -1), Only(1, 0),  Only(0, 0),  Only(0, 1) >>
kicksSega_S_L   == << Only(0, -1),  Only(1, 1),  Only(-1, 0), Only(0, 0) >>

\* Turning back from R forgets to step down again.
MutSega_Z_L     == << Only(1, -1),  Only(0, 0),  Only(0, 0),  Only(-1, 0) >>

kicksSega_Z_R   == << Only(0, -1),  Only(0, 0),  Only(1, 0),  Only(-1, 1) >>
kicksSega_Z_L   == << Only(1, -1),  Only(0, 1),  Only(0, 0),  Only(-1, 0) >>

kicksTGM_JLT_R == << SideLJT(0, 0), Side(0, 1), SideLJT(0, -1), Side(0, 0) >>
kicksTGM_JLT_L == << SideLJT(0, 0), Side(0, 0), SideLJT(0, -1), Side(0, 1) >>
kicksTGM_S_R   == << Side(-1, -1), Side(1, 0), Side(0, 0), Side(0, 1) >>
kicksTGM_S_L   == << Side(0, -1), Side(1, 1), <<K(-1, 0), K(0, 0), K(2, 0)>>, Side(0, 0) >>
kicksTGM_Z_R   == << Side(0, -1), Side(0, 0), Side(1, 0), <<K(-1, 1), K(0, 1), K(-2, -1)>> >>
kicksTGM_Z_L   == << Side(1, -1), Side(0, 1), Side(0, 0), Side(-1, 0) >>

kicksTGM3_I_R ==
  << <<K(0, 0), K(0, -1), K(0, -2)>>, <<K(0, -1), K(1, -1), K(2, -1), K(-1, -1)>>,
     <<K(1, 1), K(1, 0), K(1, -1)>>,  <<K(-1, 0), K(0, 0), K(1, 0), K(-2, 0)>> >>
kicksTGM3_I_L ==
  << <<K(1, 0), K(1, -1), K(1, -2)>>, <<K(0, 0), K(1, 0), K(2, 0), K(-1, 0)>>,
     <<K(0, 1), K(0, 0), K(0, -1)>>,  <<K(-1, -1), K(0, -1), K(1, -1), K(-2, -1)>> >>
kicksTGM3_T_R ==
  << SideLJT(0, 0), Append(Side(0, 1), K(0, 0)), SideLJT(0, -1), Append(Side(0, 0), K(0, -1)) >>
kicksTGM3_T_L ==
  << SideLJT(0, 0), Append(Side(0, 0), K(0, -1)), SideLJT(0, -1), Append(Side(0, 1), K(0, 0)) >>

kicksDTET_R == [i \in 1..4 |-> <<K(0, 0), K(1, 0), K(-1, 0), K(0, 1), K(1, 1), K(-1, 1)>>]
kicksDTET_L == [i \in 1..4 |-> <<K(0, 0), K(-1, 0), K(1, 0), K(0, 1), K(-1, 1), K(1, 1)>>]

-----------------------------------------------------------------------------
(***************************************************************************)
(* kicksR, kicksL and kicksH of each system: <<clockwise, anticlockwise>>  *)
(* per piece.  No system has a half-turn table, and O never kicks.         *)
(***************************************************************************)
SegaTables(p) ==
  CASE p = "I" -> <<kicksSega_I_R, kicksSega_I_L>>
    [] p = "S" -> <<kicksSega_S_R, kicksSega_S_L>>
    [] p = "Z" -> <<kicksSega_Z_R, kicksSega_Z_L>>
    [] OTHER   -> <<kicksSega_JLT_R, kicksSega_JLT_L>>

TGM12Tables(p) ==
  CASE p = "I" -> <<kicksSega_I_R, kicksSega_I_L>>
    [] p = "S" -> <<kicksTGM_S_R, kicksTGM_S_L>>
    [] p = "Z" -> <<kicksTGM_Z_R, kicksTGM_Z_L>>
    [] OTHER   -> <<kicksTGM_JLT_R, kicksTGM_JLT_L>>

TGM3Tables(p) ==
  CASE p = "I" -> <<kicksTGM3_I_R, kicksTGM3_I_L>>
    [] p = "T" -> <<kicksTGM3_T_R, kicksTGM3_T_L>>
    [] OTHER   -> TGM12Tables(p)

SystemTables(sys, p) ==
  CASE sys = "sega"     -> SegaTables(p)
    [] sys = "tgm12"    -> TGM12Tables(p)
    [] sys = "tgm3"     -> TGM3Tables(p)
    [] sys = "dtet"     -> <<kicksDTET_R, kicksDTET_L>>
    [] sys = "srs"      -> IF p = "I" THEN <<kicksSRS_I_R, kicksSRS_I_L>>
                                      ELSE <<kicksSRS_R, kicksSRS_L>>
    [] sys = "arikasrs" -> IF p = "I" THEN <<kicksArika_I_R, kicksArika_I_L>>
                                      ELSE <<kicksSRS_R, kicksSRS_L>>

\* The row of tests doRotate walks for a piece turned from theta.
KickRow(sys, p, dir, theta) ==
  IF p = "O" \/ sys = "simple" \/ dir = Halfturn
  THEN emptyWallkickTable[theta + 1]
  ELSE SystemTables(sys, p)[IF dir = Clockwise THEN 1 ELSE 2][theta + 1]

\* Stops at orientation L instead of wrapping around.
MutShape(sys, p, theta) ==
  LET t == theta + entryTheta(sys, p) IN pieceOffsets[p][(IF t > 3 THEN 3 ELSE t) + 1]

\* The cells of a piece at the origin (fsGetBlocks before adding x and y).
Shape(sys, p, theta) == pieceOffsets[p][((theta + entryTheta(sys, p)) % 4) + 1]

-----------------------------------------------------------------------------
(***************************************************************************)
(* The two functions an Engine is configured with.                         *)
(***************************************************************************)
ShapeTable(sys) == [p \in PieceType |-> [theta \in Theta |-> Shape(sys, p, theta)]]
KickTable(sys)  ==
  [p \in PieceType |-> [dir \in Direction |-> [theta \in Theta |-> KickRow(sys, p, dir, theta)]]]
=============================================================================
