------------------------------- MODULE Stack -------------------------------
(***************************************************************************)
(* What the engine promises, as a game on a board: pieces enter where      *)
(* there is room, move about, come to rest on something, become part of    *)
(* the board, and full rows vanish.  Engine implements this specification  *)
(* (EngineRefinement).  How pieces move, turn and fall, what is dealt and  *)
(* held, and when, is left open.                                           *)
(***************************************************************************)
EXTENDS Integers, FiniteSets

CONSTANTS
  Width, Height,     \* of the board
  Goal,              \* lines that end a game
  MaxCells           \* cells of a piece

\* What the proofs about the game need of its constants.
BoardAssumption ==
  Width \in Nat \ {0} /\ Height \in Nat \ {0} /\ Goal \in Nat /\ MaxCells \in Nat

VARIABLES
  phase,     \* "waiting", "playing", "resting" or "over"
  board,     \* the occupied cells
  piece,     \* the cells of the piece in play, {} without one
  lines,     \* lines cleared
  placed     \* pieces placed

vars == <<phase, board, piece, lines, placed>>

Cell  == (0..Width - 1) \X (0..Height - 1)
Phase == {"waiting", "playing", "resting", "over"}
Piece == {p \in SUBSET Cell : p # {} /\ IsFiniteSet(p) /\ Cardinality(p) <= MaxCells}

\* Something is right below a piece: the floor or an occupied cell.
Rests(p, b) == \E c \in p : <<c[1], c[2] + 1>> \notin Cell \/ <<c[1], c[2] + 1>> \in b

Full(b)      == {y \in 0..Height - 1 : \A x \in 0..Width - 1 : <<x, y>> \in b}
Below(S, y)  == Cardinality({r \in S : r > y})
Cleared(b)   == {<<c[1], c[2] + Below(Full(b), c[2])>> : c \in {d \in b : d[2] \notin Full(b)}}

Init == phase = "waiting" /\ board = {} /\ piece = {} /\ lines = 0 /\ placed = 0

\* A piece comes into play where there is room on the board b, or the game ends
\* because there is none, or nothing comes yet.
Proceed(b) ==
  \/ phase' = "waiting" /\ piece' = {}
  \/ phase' = "playing" /\ piece' \in Piece /\ piece' \cap b = {}
  \/ phase' = "over"    /\ piece' = {}

Wait ==
  /\ phase = "waiting" /\ Proceed(board)
  /\ UNCHANGED <<board, lines, placed>>

\* The piece moves, turns, falls or is exchanged for another.
Move ==
  /\ phase = "playing" /\ phase' = "playing" /\ piece' \in Piece
  /\ UNCHANGED <<board, lines, placed>>

\* The piece comes to rest for good.
Settle ==
  /\ phase = "playing" /\ phase' = "resting"
  /\ piece' \in Piece /\ Rests(piece', board)
  /\ UNCHANGED <<board, lines, placed>>

\* The piece becomes part of the board and full rows vanish.
Place ==
  /\ phase = "resting"
  /\ board' = Cleared(board \cup piece)
  /\ lines' = lines + Cardinality(Full(board \cup piece))
  /\ placed' = placed + 1
  /\ IF lines' >= Goal THEN phase' = "over" /\ piece' = {} ELSE Proceed(board')

\* The player restarts or quits.
Abandon ==
  /\ phase' = "over" /\ piece' = {}
  /\ UNCHANGED <<board, lines, placed>>

NewGame ==
  /\ phase = "over" /\ phase' = "waiting"
  /\ board' = {} /\ piece' = {} /\ lines' = 0 /\ placed' = 0

Next == Wait \/ Move \/ Settle \/ Place \/ Abandon \/ NewGame
Spec == Init /\ [][Next]_vars

-----------------------------------------------------------------------------
TypeOK ==
  /\ phase \in Phase /\ board \subseteq Cell /\ lines \in Nat /\ placed \in Nat
  /\ IF phase \in {"playing", "resting"} THEN piece \in Piece ELSE piece = {}

\* No full row survives: rows that fall never complete another row, however
\* many vanish at once.
NoFullRow == Full(board) = {}

\* Rows are not duplicated: what is on the board and what was cleared came from
\* the pieces placed.
NothingFromNothing == Cardinality(board) + Width * lines <= MaxCells * placed
=============================================================================
