------------------------------ MODULE GameLoop ------------------------------
(***************************************************************************)
(* main.c: the fixed timestep of playGameLoop and the menu of gameLoop.    *)
(* The clock is the 32-bit microsecond counter of fsiGetTime, which wraps  *)
(* every 71 minutes; `now' is the time that it counts.  The engine is      *)
(* reduced to its tick counters and to how a game ends; what a tick and a  *)
(* blit take, and how late a sleep wakes, is up to the machine.            *)
(*                                                                         *)
(* The differences of clock values overflow when the counter wraps between *)
(* them, which C leaves undefined; the builds compute them modulo 2^32,    *)
(* and Wrap does.                                                          *)
(***************************************************************************)
EXTENDS Integers

CONSTANTS
  TickRate,       \* msPerTick * 1000
  TicksPerDraw,   \* ticksPerDraw
  Countdown,      \* ticks of the READY and GO phases
  MenuRest,       \* the sleep of a menu frame, 16 * 1000
  MenuFrames,     \* menu frames that say EXCELLENT, 125
  Word,           \* 2^32
  Boots,          \* times at which the program may start
  Works,          \* times that a tick with its drawing may take
  Late,           \* how late a sleep may wake
  MaxTime         \* bound: no game and no sleep begins after it

ASSUME LoopAssumption ==
  /\ TickRate \in Nat \ {0} /\ TicksPerDraw \in Nat \ {0} /\ Word \in Nat \ {0}
  /\ Countdown \in Nat /\ MenuRest \in Nat /\ MenuFrames \in Nat
  /\ Boots \subseteq Nat /\ Works \subseteq Nat /\ Late \subseteq Nat
  /\ 2 * TickRate < Word \div 2

VARIABLES
  pc,            \* "menu", "turn", "tick", "blit", "sleep", "menublit", "menusleep" or "end"
  menu, counter, \* state and counter of gameLoop
  now,
  lastTime, lag, \* of playGameLoop; startTime is lastTime once a turn has begun
  state,         \* the engine's: "PLAY" stands for every state of a game in progress
  totalTicks, totalTicksRaw,
  epoch,         \* history: when the game began
  undrawn        \* history: ticks since the last blit

lvars == <<pc, menu, counter, now, lastTime, lag, state, totalTicks, totalTicksRaw, epoch, undrawn>>

\* A number as the i32 that it becomes.
Wrap(n) == ((n + Word \div 2) % Word) - Word \div 2
fsiGetTime == Wrap(now)

Finished == {"RESTART", "QUIT", "GAMEOVER"}

LInit ==
  /\ now \in Boots /\ pc = "menu" /\ menu = "IN_GAME" /\ counter = 0
  /\ lastTime = 0 /\ lag = 0 /\ state = "PLAY" /\ totalTicks = 0 /\ totalTicksRaw = 0
  /\ epoch = now /\ undrawn = 0

-----------------------------------------------------------------------------
\* gameLoop reads the keys; in_game it starts a game (fsGameReset and the
\* head of playGameLoop), else it draws a menu frame.
Begin ==
  /\ pc' = "turn" /\ state' = "PLAY" /\ totalTicks' = 0 /\ totalTicksRaw' = 0
  /\ lastTime' = fsiGetTime /\ lag' = 0 /\ epoch' = now /\ undrawn' = 0

MenuTurn(keys) ==
  /\ pc = "menu"
  /\ UNCHANGED now
  /\ LET chosen == IF "restart" \in keys THEN "IN_GAME" ELSE menu IN
     \/ /\ "quit" \in keys
        /\ pc' = "end" /\ menu' = chosen
        /\ UNCHANGED <<counter, lastTime, lag, state, totalTicks, totalTicksRaw, epoch, undrawn>>
     \/ /\ "quit" \notin keys /\ chosen = "IN_GAME" /\ now < MaxTime
        /\ Begin /\ menu' = chosen /\ UNCHANGED counter
     \/ /\ "quit" \notin keys /\ chosen # "IN_GAME"
        /\ pc' = "menublit"
        /\ LET over == chosen = "IN_EXCELLENT" /\ counter >= MenuFrames IN
           /\ menu' = IF over THEN "IN_WAIT" ELSE chosen
           /\ counter' = IF over THEN 0 ELSE counter
        /\ UNCHANGED <<lastTime, lag, state, totalTicks, totalTicksRaw, epoch, undrawn>>

MenuBlit ==
  /\ pc = "menublit" /\ pc' = "menusleep"
  /\ UNCHANGED <<menu, counter, now, lastTime, lag, state, totalTicks, totalTicksRaw, epoch, undrawn>>

\* The counter is not read while the menu waits.
MenuSleep(late) ==
  /\ pc = "menusleep" /\ now < MaxTime
  /\ pc' = "menu" /\ now' = now + MenuRest + late
  /\ counter' = IF menu = "IN_EXCELLENT" THEN counter + 1 ELSE counter
  /\ UNCHANGED <<menu, lastTime, lag, state, totalTicks, totalTicksRaw, epoch, undrawn>>

-----------------------------------------------------------------------------
(***************************************************************************)
(* One turn of playGameLoop.                                               *)
(***************************************************************************)
Turn ==
  /\ pc = "turn" /\ pc' = "tick"
  /\ lastTime' = fsiGetTime
  /\ lag' = Wrap(lag + Wrap(fsiGetTime - lastTime) - TickRate)
  /\ UNCHANGED <<menu, counter, now, state, totalTicks, totalTicksRaw, epoch, undrawn>>

\* Mutant: the last frame is not drawn for its own sake.
MutDraws(ticks, st) == ticks % TicksPerDraw = 0
Draws(ticks, st) == ticks % TicksPerDraw = 0 \/ st \in Finished

\* updateGameLogic: the countdown returns before totalTicks is counted, and
\* no game is over in it; restart and quit act at any time.
Tick(work) ==
  /\ pc = "tick"
  /\ totalTicksRaw' = totalTicksRaw + 1
  /\ state' \in {"PLAY", "RESTART", "QUIT"} \cup (IF totalTicksRaw' > Countdown THEN {"GAMEOVER"} ELSE {})
  /\ totalTicks' = IF totalTicksRaw' > Countdown \/ state' # "PLAY" THEN totalTicks + 1 ELSE totalTicks
  /\ now' = now + work
  /\ undrawn' = undrawn + 1
  /\ pc' = IF Draws(totalTicks', state') THEN "blit" ELSE "sleep"
  /\ UNCHANGED <<menu, counter, lastTime, lag, epoch>>

Blit ==
  /\ pc = "blit" /\ pc' = "sleep" /\ undrawn' = 0
  /\ UNCHANGED <<menu, counter, now, lastTime, lag, state, totalTicks, totalTicksRaw, epoch>>

MutSlept == IF Wrap(lastTime + TickRate - fsiGetTime) > 0     \* mutant: no lag reduction
            THEN Wrap(lastTime + TickRate - fsiGetTime) ELSE 0
MutSleptTwice == IF Wrap(lastTime + TickRate + lag - fsiGetTime) > 0     \* mutant: the sign of lag
                 THEN Wrap(lastTime + TickRate + lag - fsiGetTime) ELSE 0

\* What is left of the turn, less the lag.
Slept == LET value == Wrap(lastTime + TickRate - lag - fsiGetTime)
         IN  IF value > 0 THEN value ELSE 0

Sleep(late) ==
  /\ pc = "sleep" /\ state \notin Finished /\ now < MaxTime
  /\ pc' = "turn" /\ now' = now + Slept + late
  /\ UNCHANGED <<menu, counter, lastTime, lag, state, totalTicks, totalTicksRaw, epoch, undrawn>>

\* The game is finished: back to gameLoop, which falls through to the
\* EXCELLENT frame after a game over.
Break ==
  /\ pc = "sleep" /\ state \in Finished
  /\ \/ state = "RESTART"  /\ pc' = "menu" /\ UNCHANGED <<menu, counter>>
     \/ state = "QUIT"     /\ pc' = "end"  /\ UNCHANGED <<menu, counter>>
     \/ state = "GAMEOVER" /\ pc' = "menublit" /\ menu' = "IN_EXCELLENT" /\ counter' = 0
  /\ UNCHANGED <<now, lastTime, lag, state, totalTicks, totalTicksRaw, epoch, undrawn>>

LNext ==
  \/ \E keys \in SUBSET {"restart", "quit"} : MenuTurn(keys)
  \/ MenuBlit \/ Turn \/ Blit \/ Break
  \/ \E work \in Works : Tick(work)
  \/ \E late \in Late : Sleep(late) \/ MenuSleep(late)
LSpec == LInit /\ [][LNext]_lvars

-----------------------------------------------------------------------------
Due(n) == epoch + n * TickRate

\* The game never runs ahead of real time: when a turn begins, all the time of
\* the ticks before it has passed, and of one more (main.c:81: lag begins at
\* zero, so that the first turn lasts two ticks), whatever was made up after
\* slow ticks and late sleeps and however often the clock wrapped.
NeverAhead ==
  pc = "turn" /\ totalTicksRaw > 0 => now >= Due(totalTicksRaw + 1)

\* Nor does the loop ever sleep past the time at which the next tick is due:
\* lateness is made up and no error of one turn adds to the next (main.c:99,
\* 139-142).
NoOversleep ==
  [][\A late \in Late : Sleep(late) => now' <= now + late \/ now' <= Due(totalTicksRaw + 1) + late]_lvars

\* What the player sees is never more than ticksPerDraw ticks old, counted
\* over the countdown too, and a game that is finished is always on the
\* screen (main.c:115-117).
DrawnOften ==
  /\ undrawn <= TicksPerDraw
  /\ pc \in {"turn", "menu", "menublit", "end"} => undrawn < TicksPerDraw
  /\ pc \in {"menu", "menublit", "end"} => undrawn = 0
=============================================================================
