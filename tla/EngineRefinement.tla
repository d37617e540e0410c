-------------------------- MODULE EngineRefinement --------------------------
(***************************************************************************)
(* The refinement mapping under which Engine implements Stack.             *)
(***************************************************************************)
EXTENDS Engine

\* Every orientation of a piece has at most four cells (rotation.c:35-78).
ASSUME FourCells ==
  \A p \in Pieces, theta \in Theta :
    IsFiniteSet(ShapeOf[p][theta]) /\ Cardinality(ShapeOf[p][theta]) <= 4

Phase ==
  CASE state \in Active   -> "playing"
    [] state = "LINES"    -> "resting"
    [] state \in Finished -> "over"
    [] OTHER              -> "waiting"

\* The piece in play becomes cells; with no piece in play its old position is
\* of no meaning.
Game == INSTANCE Stack WITH
  phase <- Phase, board <- field, piece <- IF InPlay THEN Blocks ELSE {},
  lines <- linesCleared, placed <- blocksPlaced, MaxCells <- 4

\* Every tick of the engine is a step of the game, or changes nothing of it:
\* in particular a piece locks only at rest, merges once, and the next one
\* enters only where there is room (engine.c:509-759).
ImplementsGame == Game!Spec

\* Line clears create nothing: the cells on the board and in the cleared lines
\* never outnumber those of the pieces placed, even where a hold put a piece
\* into the stack (engine.c:432-447).
NothingFromNothing == Game!NothingFromNothing
=============================================================================
