------------------------------ MODULE Finesse ------------------------------
(***************************************************************************)
(* finesse.c: the tables from which lockPiece takes the least rotations    *)
(* and sideways presses that bring a piece to where it locked, and the     *)
(* fault that it charges (engine.c:182-191).  A search over all presses is *)
(* the reference.  SRS on a field of ten columns.                          *)
(***************************************************************************)
EXTENDS Rotation, FiniteSets

Columns == 0..9

-----------------------------------------------------------------------------
(***************************************************************************)
(* The tables, by piece and orientation.                                   *)
(***************************************************************************)
\* Each row of rotation has one value.
rotation(p, theta) ==
  CASE p = "O" \/ theta = 0       -> 0
    [] p # "O" /\ theta \in {1, 3} -> 1
    [] p # "O" /\ theta = 2        -> IF p \in {"I", "S", "Z"} THEN 0 ELSE 2

movement(p, theta) ==
  CASE p = "O"                              -> <<1, 2, 2, 1, 0, 1, 2, 2, 1, 0>>
    [] p = "I" /\ theta \in {0, 2}          -> <<1, 2, 1, 0, 1, 2, 1, 0, 0, 0>>
    [] p = "I" /\ theta \in {1, 3}          -> <<1, 1, 1, 1, 0, 0, 1, 1, 1, 1>>
    [] p \in {"J", "L"} /\ theta = 2        -> <<1, 2, 1, 0, 1, 2, 1, 0, 0, 0>>
    [] p \in {"J", "L", "T"} /\ theta = 1   -> <<1, 1, 2, 1, 0, 1, 2, 2, 1, 0>>
    [] p \in {"J", "L", "T"} /\ theta = 3   -> <<1, 2, 1, 0, 1, 2, 2, 1, 1, 0>>
    [] p \in {"S", "Z"} /\ theta \in {1, 3} -> <<1, 1, 1, 0, 0, 1, 2, 1, 1, 0>>
    [] OTHER                                -> <<1, 2, 1, 0, 1, 2, 2, 1, 0, 0>>

MutPositionDelta(p, theta) == IF theta = 1 THEN 1 ELSE 0     \* mutant: as for the other pieces
positionDelta(p, theta) ==
  CASE theta = 1 -> IF p \in {"I", "O"} THEN 2 ELSE 1
    [] theta = 3 -> IF p \in {"I", "O"} THEN 1 ELSE 0
    [] OTHER     -> 0

\* What fsMinimalFinesseCount reads from the tables is defined only for an
\* index within a row.
InTable(p, x, theta) == positionDelta(p, theta) + x \in 0..9

fsMinimalFinesseCount(p, x, theta) ==
  [rotations |-> rotation(p, theta), presses |-> movement(p, theta)[positionDelta(p, theta) + x + 1]]

Over(n, least) == IF n > least THEN n - least ELSE 0
\* What lockPiece adds to the faults.
Fault(p, x, theta, done) ==
  LET least == fsMinimalFinesseCount(p, x, theta)
  IN  Over(done.rotations, least.rotations) + Over(done.presses, least.presses)

-----------------------------------------------------------------------------
(***************************************************************************)
(* The presses of a player above the stack: a tap, a direction held to the *)
(* wall, a quarter turn.                                                   *)
(***************************************************************************)
MaxPresses == 4      \* bound: no place takes more

Cells(p, x, theta) == {<<x + b[1], b[2]>> : b \in Shape("srs", p, theta)}
Inside(p, x, theta) == \A c \in Cells(p, x, theta) : c[1] \in Columns

\* A piece at column x of orientation theta after so many rotations and presses.
At(x, theta, rotations, presses) ==
  [x |-> x, theta |-> theta, rotations |-> rotations, presses |-> presses]

Walls(p, theta) ==
  LET room == {x \in -3..9 : Inside(p, x, theta)}
  IN  {x \in room : x - 1 \notin room \/ x + 1 \notin room}

After(p, s) ==
  {t \in {At(x, s.theta, s.rotations, s.presses + 1) : x \in {s.x - 1, s.x + 1} \cup Walls(p, s.theta)}
     \cup {At(s.x, Turned(s.theta, dir), s.rotations + 1, s.presses) : dir \in {Clockwise, Anticlockwise}} :
     Inside(p, t.x, t.theta)}

\* All that n presses can do to each piece, from column 10 / 2 - 2 (newPiece).
Presses[n \in 0..MaxPresses] ==
  [p \in PieceType |->
     IF n = 0 THEN {At(3, 0, 0, 0)}
     ELSE Presses[n - 1][p] \cup UNION {After(p, s) : s \in Presses[n - 1][p]}]

\* Where a piece comes to rest on a flat floor.
Rest(p, x, theta) ==
  LET low == CHOOSE y \in 0..3 : /\ \E c \in Cells(p, x, theta) : c[2] = y
                                 /\ \A c \in Cells(p, x, theta) : c[2] <= y
  IN  {<<c[1], c[2] - low>> : c \in Cells(p, x, theta)}

\* The ways to bring the piece to the place that x and theta give it.
Ways(p, x, theta) ==
  {s \in Presses[MaxPresses][p] : Rest(p, s.x, s.theta) = Rest(p, x, theta)}

-----------------------------------------------------------------------------
\* The tables are right about a piece in orientation theta: for every column
\* the table has an entry, no way to the place takes fewer presses than it
\* says, and some way is charged nothing (finesse.c:122-136).
Exact(p, theta) ==
  \A x \in {c \in -3..9 : Inside(p, c, theta)} :
    /\ InTable(p, x, theta)
    /\ LET least == fsMinimalFinesseCount(p, x, theta) IN
       \A s \in Ways(p, x, theta) : s.rotations + s.presses >= least.rotations + least.presses
    /\ \E s \in Ways(p, x, theta) : Fault(p, x, theta, s) = 0
=============================================================================
