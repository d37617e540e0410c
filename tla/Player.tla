------------------------------- MODULE Player -------------------------------
(***************************************************************************)
(* A player at the keys: the tick of updateGameLogic (main.c:33-53), which *)
(* gives the keys to Control and its input to Engine, over game after      *)
(* game.  Engine's constant Inputs is not used: here every input comes     *)
(* from Control.                                                           *)
(***************************************************************************)
EXTENDS Engine, AutoRepeat

ASSUME SameField == FieldWidth = Width /\ FieldHeight = Height

VARIABLES
  dropped,        \* history: hard drop was not released since it dropped a piece
  held            \* history: hold was not released since it held a piece

pvars == <<vars, ctl, input, hist, dropped, held>>

\* The tick drops, or holds, a piece.
Drops == state \in Active /\ state' = "LINES" /\ "harddrop" \in input'.extra
Holds == play'.holdPiece # play.holdPiece

PInit == Init /\ AInit /\ dropped = FALSE /\ held = FALSE

\* updateGameLogic
GameTick(keys) ==
  /\ Step(keys)
  /\ \/ TickAbandon(input') \/ TickReadyGo(input') \/ TickAre(input') \/ TickNewPiece(input')
     \/ TickLock(input') \/ TickMove(input') \/ TickLines(input')
  /\ dropped' = ("up" \in keys /\ (dropped \/ Drops))
  /\ held'    = ("hold" \in keys /\ (held \/ Holds))

\* A new game.  Nothing touches the FSControl between two games.
Again == GameReset /\ UNCHANGED <<ctl, input, hist, dropped, held>>

PNext == (\E keys \in Keystates : state \notin Finished /\ GameTick(keys)) \/ Again
PSpec == PInit /\ [][PNext]_pvars
\* playGameLoop ticks without asking the player, and gameLoop goes from game to
\* game.  Nothing is asked of the player: a tick may come with any keys.
PFairSpec == PSpec /\ []<><<\E keys \in Keystates : GameTick(keys)>>_pvars

-----------------------------------------------------------------------------
\* Control gives Engine only inputs that Engine assumes: every result about
\* Engine holds for a player at the keys (control.c:88-125, engine.c:509).
InputsFit ==
  input \in Input /\ ("harddrop" \in input.extra => input.gravity >= Height)

\* One press of hard drop drops at most one piece, whatever is dealt while the
\* key is down, also into the next game.
OneDropPerPress == [][Drops => ~dropped]_pvars

\* Without initial actions one press of hold holds at most one piece: not again
\* after the next piece was dealt, nor in the countdown of the next game.
OneHoldPerPress == [][(Holds /\ state \notin Finished) => ~held]_pvars
=============================================================================
