----------------------------- MODULE MCRotation -----------------------------
(***************************************************************************)
(* A piece of any kind turned freely by quarter turns in an empty, endless *)
(* field, under every rotation system: doRotate then always takes the      *)
(* first test of the row.  The walk shows whether the tables agree with    *)
(* the shapes they are written for.                                        *)
(***************************************************************************)
EXTENDS Rotation, Finesse

CONSTANTS Systems,   \* the rotation systems walked
          MaxTurns   \* bound: quarter turns of one walk

ASSUME WalkAssumption == Systems \subseteq System /\ MaxTurns \in Nat

VARIABLES sys, piece, theta, x, y, turns
vars == <<sys, piece, theta, x, y, turns>>

Init ==
  /\ sys \in Systems /\ piece \in PieceType /\ theta = 0
  /\ x = 0 /\ y = 0 /\ turns = 0

Turn(dir) ==
  LET kick == KickRow(sys, piece, dir, theta)[1] IN
  /\ turns < MaxTurns
  /\ turns' = turns + 1
  /\ theta' = Turned(theta, dir)
  /\ x' = x + kick.x
  /\ y' = y + kick.y
  /\ UNCHANGED <<sys, piece>>

Next == Turn(Clockwise) \/ Turn(Anticlockwise)
Spec == Init /\ [][Next]_vars

-----------------------------------------------------------------------------
QuarterTurn(cells, box) == {<<box - c[2], c[1]>> : c \in cells}
Opposite(dir)  == IF dir = Clockwise THEN Anticlockwise ELSE Clockwise
MirrorPiece(p) == CASE p = "J" -> "L" [] p = "L" -> "J" [] p = "S" -> "Z" [] p = "Z" -> "S"
                    [] OTHER -> p
MirrorTheta(t) == (4 - t) % 4

\* Turning a piece about in the open leaves it where it was: whatever the
\* order of the turns, a piece back in its entry orientation is back in its
\* entry place.  The first tests of every table (the offsets that map the
\* SRS shapes to other systems, rotation.c:30-35) must cancel out for it.
HomeAgain == theta = 0 => x = 0 /\ y = 0

\* pieceOffsets holds four quarter turns of one shape in its box (4x4 for
\* I, 3x3 for the others; O does not turn): a cell mistyped in one
\* orientation, or an entry orientation that does not wrap, shows here.
RigidTurn ==
  piece # "O" =>
    Shape(sys, piece, Turned(theta, Clockwise))
      = QuarterTurn(Shape(sys, piece, theta), IF piece = "I" THEN 3 ELSE 2)

\* Test k of a turn undoes test k of the turn back: the property of SRS
\* that makes every kick reversible.  Sega's tables have it too; Arika's I
\* tables do not claim it.
KicksReversible ==
  sys \in {"simple", "sega", "srs"} \/ (sys = "arikasrs" /\ piece # "I") =>
    \A dir \in {Clockwise, Anticlockwise} :
      LET out  == KickRow(sys, piece, dir, theta)
          back == KickRow(sys, piece, Opposite(dir), Turned(theta, dir))
      IN  /\ Len(out) = Len(back)
          /\ \A k \in DOMAIN out : out[k] = K(-back[k].x, -back[k].y)

\* The tests for p and for its mirror image turned the other way are
\* mirror images, in the same order.
Mirrored(p) ==
  LET cw  == KickRow(sys, p, Clockwise, theta)
      acw == KickRow(sys, MirrorPiece(p), Anticlockwise, MirrorTheta(theta))
  IN  /\ Len(cw) = Len(acw)
      /\ \A k \in DOMAIN cw : acw[k] = K(-cw[k].x, cw[k].y)

\* Left and right handed pieces kick alike: DTET is "a symmetric system"
\* (rotation.c:442-446) for every piece, SRS, Arika's SRS and Sega for all but I.
\* Arika's I is left out because two of its four pairs of rows are not mirror
\* images (rotation.c:163 with 181, and 165 with 179), though fs.ini:47 calls its
\* wallkick symmetric.  The TGM systems, symmetric by fs.ini:48, try the right
\* before the left whichever way the piece turns, so they are not fair in this sense.
LeftRightFair ==
  sys \in {"simple", "dtet"} \/ (sys \in {"srs", "arikasrs", "sega"} /\ piece # "I") =>
    Mirrored(piece)

\* The orientations, and where a piece lands when nothing is in the way, are
\* those of Sega rotation.
TurnsLikeSega ==
  /\ Shape(sys, piece, theta) = Shape("sega", piece, theta)
  /\ \A dir \in {Clockwise, Anticlockwise} :
        KickRow(sys, piece, dir, theta)[1] = KickRow("sega", piece, dir, theta)[1]

\* The TGM systems are extensions of Sega rotation (rotation.c:264-267,
\* 340-347): they differ from it only where a turn is obstructed, though each
\* repeats the offsets of Sega's tables in tables of its own.
TGMTurnsLikeSega == sys \in {"tgm12", "tgm3"} => TurnsLikeSega

\* A player who brings a piece to its column with as few rotations and
\* presses as can be is charged no finesse fault, and no way to the column is
\* shorter than the tables say: they agree with the shapes, the entry column
\* and what a press can do, of which finesse.c knows nothing.  Not so for O,
\* whose entry of column 0 is read before the start of the table and whose
\* others belong to the column beside, nor for J and L upside down, where
\* two columns are said to be nearer than they are.
FinesseExact ==
  sys = "srs" /\ piece # "O" /\ ~(piece \in {"J", "L"} /\ theta = 2) => Exact(piece, theta)

=============================================================================
