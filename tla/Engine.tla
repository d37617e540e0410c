------------------------------- MODULE Engine -------------------------------
(***************************************************************************)
(* The game engine of src/engine/engine.c: one FSEngine and fsGameTick,    *)
(* the state machine the frontends call once per logic tick.               *)
(*                                                                         *)
(* A tick is one step.  The C code edits the FSEngine in place; here the   *)
(* fields that describe the piece in play, the hold slot and the preview   *)
(* queue form one record, play, and each C function is an operator from    *)
(* such a record to the next.  The states that run "instantly" (goto       *)
(* beginTick) are part of the step of the state they are entered from.     *)
(*                                                                         *)
(* Left out: sound flags, tick and key counters, and the finesse counters  *)
(* (written here, never read here).  The randomizer is any piece.          *)
(***************************************************************************)
EXTENDS Rotation, FiniteSets

CONSTANTS
  Width, Height,        \* fieldWidth, fieldHeight
  Pieces,               \* the piece types the randomizer deals
  ShapeOf,              \* [piece][theta]: cells, entryTheta applied
  KicksOf,              \* [piece][dir][theta]: row of wallkick tests
  Gravity,              \* msPerTick * gravity: millionths of a row per tick
  LockStyle,            \* "entry", "step" or "move"
  LockTicks,            \* TICKS(lockDelay)
  AreTicks,             \* TICKS(areDelay)
  ReadyTicks, GoTicks,  \* TICKS(readyPhaseLength), TICKS(goPhaseLength)
  FloorkickLimit,       \* floorkickLimit, 0 for none
  PersistentAction,     \* initialActionStyle = FST_IA_PERSISTENT
  AreCancellable,       \* areCancellable
  InfiniteReadyGoHold,  \* infiniteReadyGoHold
  PreviewCount,         \* nextPieceCount
  Goal,                 \* goal
  Inputs,               \* the FSInput values a tick may receive
  MaxBlocks,            \* bound: no piece is dealt after this many locks
  MaxFloorkicks         \* bound: a piece with more floorkicks no longer rotates

None == "none"

\* What control.c can produce.  extra is the set of FST_INPUT flags, keys the
\* currentKeys that fsGameTick looks at.
Flag  == {"hold", "harddrop", "finesse", "restart", "quit"}
Key   == {"rotr", "rotl", "roth", "hold"}
Input == [movement : Int, rotation : {0} \cup Direction, gravity : Nat,
          extra : SUBSET Flag, keys : SUBSET Key]

ASSUME FieldAssumption ==
  /\ Width  \in Nat /\ Width  >= 5     \* a swapped-in I needs Width / 2 + 3 columns
  /\ Height \in Nat /\ Height >= 4     \* an entering piece needs rows 1..3
ASSUME PieceAssumption ==
  /\ Pieces \subseteq PieceType /\ Pieces # {}
  /\ \A p \in Pieces, theta \in Theta :
        ShapeOf[p][theta] # {} /\ ShapeOf[p][theta] \subseteq (0..3) \X (0..3)
  /\ \A p \in Pieces : \A b \in ShapeOf[p][0] : b[2] <= 2
ASSUME KickAssumption ==
  \A p \in Pieces, dir \in Direction, theta \in Theta :
    KicksOf[p][dir][theta] \in Seq([x : Int, y : Int, ljt : BOOLEAN])
ASSUME TimingAssumption ==
  /\ Gravity \in Nat /\ LockTicks \in Nat /\ AreTicks \in Nat
  /\ ReadyTicks \in Nat /\ GoTicks \in Nat /\ Goal \in Nat
  /\ MaxBlocks \in Nat /\ MaxFloorkicks \in 1..126   \* floorkickCount is an i8
ASSUME OptionAssumption ==
  /\ LockStyle \in {"entry", "step", "move"} /\ FloorkickLimit \in Nat
  /\ PersistentAction \in BOOLEAN /\ AreCancellable \in BOOLEAN
  /\ InfiniteReadyGoHold \in BOOLEAN /\ PreviewCount \in Nat
ASSUME InputAssumption ==                \* control.c: a hard drop falls the whole field
  /\ Inputs \subseteq Input
  /\ \A i \in Inputs : "harddrop" \in i.extra => i.gravity >= Height

VARIABLES
  state,           \* FSEngine.state
  field,           \* b: the occupied cells
  play,            \* piece in play, hold slot and preview queue (below)
  irsAmount,       \* initial rotation recorded during ARE
  ihsFlag,         \* initial hold recorded during ARE
  areTimer, genericCounter, linesCleared, blocksPlaced

vars == <<state, field, play, irsAmount, ihsFlag, areTimer, genericCounter,
          linesCleared, blocksPlaced>>

Active   == {"FALLING", "LANDED"}
Finished == {"GAMEOVER", "RESTART", "QUIT"}
State    == Active \cup Finished \cup {"READY", "GO", "NEW_PIECE", "ARE", "LINES"}

Cell == (0..Width - 1) \X (0..Height - 1)

-----------------------------------------------------------------------------
(***************************************************************************)
(* Fixed point (internal.h): a row is 1000000, and C division truncates    *)
(* towards zero, so that a negative position has a negative fraction.      *)
(***************************************************************************)
fix(n)      == n * 1000000
unfixflr(a) == IF a >= 0 THEN a \div 1000000 ELSE -((-a) \div 1000000)
unfixfrc(a) == a - fix(unfixflr(a))

Least(S) == CHOOSE m \in S : \A k \in S : m <= k

-----------------------------------------------------------------------------
(***************************************************************************)
(* Cells and collisions.  A position outside the field counts as occupied. *)
(***************************************************************************)
BlocksOf(p, x, y, theta) == {<<x + b[1], y + b[2]>> : b \in ShapeOf[p][theta]}

isOccupied(fld, x, y) == <<x, y>> \notin Cell \/ <<x, y>> \in fld

isCollision(fld, g, x, y, theta) ==
  \E b \in ShapeOf[g.piece][theta] : isOccupied(fld, x + b[1], y + b[2])

\* Mutant: the colliding row itself is taken.
MutUpdateHardDropY(fld, g) ==
  [g EXCEPT !.hardDropY = Least({y \in g.y..Height : isCollision(fld, g, g.x, y, g.theta)})]

\* The first colliding row at or below y ends the drop; one row below the
\* field everything collides.
updateHardDropY(fld, g) ==
  [g EXCEPT !.hardDropY = Least({y \in g.y..Height : isCollision(fld, g, g.x, y, g.theta)}) - 1]

-----------------------------------------------------------------------------
(***************************************************************************)
(* The preview queue and the hold slot.  r stands for the result of        *)
(* fsNextRandomPiece.                                                      *)
(***************************************************************************)
Dealt(queue, r)  == Head(Append(queue, r))
MutBehind(queue, r) == Append(queue, r)    \* mutant: the queue does not move up
Behind(queue, r) == Tail(Append(queue, r))

\* Mutant: actualY keeps the position of the last piece.
MutNewPiece(g, r) ==
  [piece |-> Dealt(g.nextPiece, r), x |-> Width \div 2 - 2, y |-> 1, actualY |-> g.actualY,
   theta |-> 0, hardDropY |-> g.hardDropY, lockTimer |-> 0, floorkickCount |-> 0,
   holdPiece |-> g.holdPiece, holdAvailable |-> TRUE, nextPiece |-> Behind(g.nextPiece, r)]

newPiece(g, r) ==
  [piece |-> Dealt(g.nextPiece, r), x |-> Width \div 2 - 2, y |-> 1, actualY |-> fix(1),
   theta |-> 0, hardDropY |-> g.hardDropY, lockTimer |-> 0, floorkickCount |-> 0,
   holdPiece |-> g.holdPiece, holdAvailable |-> TRUE, nextPiece |-> Behind(g.nextPiece, r)]

\* Mutant: the swap overwrites the piece in play before it is saved.
MutSwapped(g) ==
  [g EXCEPT !.x = Width \div 2 - 1, !.y = 1, !.actualY = fix(1), !.theta = 0,
            !.floorkickCount = 0, !.piece = g.holdPiece, !.holdPiece = g.holdPiece]

\* A swapped-in piece keeps the lock timer of the piece it replaces.
Swapped(g) ==
  [piece |-> g.holdPiece, x |-> Width \div 2 - 1, y |-> 1, actualY |-> fix(1),
   theta |-> 0, hardDropY |-> g.hardDropY, lockTimer |-> g.lockTimer, floorkickCount |-> 0,
   holdPiece |-> g.piece, holdAvailable |-> g.holdAvailable, nextPiece |-> g.nextPiece]

\* Mutant: a first hold leaves holdAvailable as newPiece sets it.
MutTryHold(fld, g, r) ==
  IF ~g.holdAvailable THEN g
  ELSE updateHardDropY(fld, IF g.holdPiece = None THEN newPiece([g EXCEPT !.holdPiece = g.piece], r)
                            ELSE [Swapped(g) EXCEPT !.holdAvailable = FALSE])

tryHold(fld, g, r) ==
  LET taken == IF g.holdPiece = None THEN newPiece([g EXCEPT !.holdPiece = g.piece], r)
                                     ELSE Swapped(g)
  IN  IF g.holdAvailable
      THEN updateHardDropY(fld, [taken EXCEPT !.holdAvailable = FALSE])
      ELSE g

-----------------------------------------------------------------------------
(***************************************************************************)
(* Rotation.  The tests of the row are tried in order; an LJT marker ends  *)
(* the search when wkCondArikaLJT holds, and is otherwise itself a test of *)
(* the unkicked position.                                                  *)
(***************************************************************************)
wkCondArikaLJT(fld, g, dir) ==
  LET Occ(dx, dy) == isOccupied(fld, g.x + dx, g.y + dy) IN
  \/ /\ g.piece = "J" /\ g.theta = 0
     /\ Occ(1, 0) \/ (Occ(1, 2) /\ (dir = Clockwise \/ ~Occ(2, 0)))
  \/ /\ g.piece = "J" /\ g.theta = 2
     /\ Occ(1, 0) \/ (Occ(1, 1) /\ (dir = Anticlockwise \/ ~Occ(2, 0)))
  \/ /\ g.piece = "L" /\ g.theta = 0
     /\ Occ(1, 0) \/ (Occ(1, 2) /\ (dir = Anticlockwise \/ ~Occ(0, 0)))
  \/ /\ g.piece = "L" /\ g.theta = 2
     /\ Occ(1, -1) \/ (Occ(1, 0) /\ (dir = Clockwise \/ ~Occ(0, -1)))
  \/ g.piece = "T" /\ g.theta = 0 /\ Occ(1, 0)
  \/ g.piece = "T" /\ g.theta = 2 /\ Occ(1, -1)

\* The tests of the row that find room, of those that are reached.
Fits(fld, g, dir) ==
  LET row == KicksOf[g.piece][dir][g.theta] IN
  {k \in DOMAIN row :
     /\ ~isCollision(fld, g, g.x + row[k].x, g.y + row[k].y, Turned(g.theta, dir))
     /\ \A j \in 1..k : ~(row[j].ljt /\ wkCondArikaLJT(fld, g, dir))}

\* g turned by the test kick of a row whose basic test is first.  A floorkick
\* beyond the limit exhausts the lock timer.
Kicked(g, dir, kick, first) ==
  LET floorkick == FloorkickLimit # 0 /\ kick.y < first.y IN
  [piece |-> g.piece, x |-> g.x + kick.x, y |-> g.y + kick.y,
   actualY |-> fix(g.y + kick.y) + unfixfrc(g.actualY),
   theta |-> Turned(g.theta, dir), hardDropY |-> g.hardDropY,
   lockTimer |-> IF floorkick /\ g.floorkickCount >= FloorkickLimit THEN LockTicks ELSE g.lockTimer,
   floorkickCount |-> IF floorkick THEN g.floorkickCount + 1 ELSE g.floorkickCount,
   holdPiece |-> g.holdPiece, holdAvailable |-> g.holdAvailable, nextPiece |-> g.nextPiece]

doRotate(fld, g, dir) ==
  LET row  == KicksOf[g.piece][dir][g.theta]
      fits == Fits(fld, g, dir)
  IN  IF fits = {} THEN g ELSE Kicked(g, dir, row[Least(fits)], row[1])

Rotated(fld, g, dir) == IF dir = 0 THEN g ELSE doRotate(fld, g, dir)

-----------------------------------------------------------------------------
(***************************************************************************)
(* Sideways movement, a step at a time until something is in the way, and  *)
(* gravity.                                                                *)
(***************************************************************************)
\* Mutant: the piece also takes the step that is blocked.
MutStepsFree(fld, g, sign, distance) ==
  LET blocked == {n \in 1..distance : isCollision(fld, g, g.x + sign * n, g.y, g.theta)}
  IN  IF blocked = {} THEN distance ELSE Least(blocked)

StepsFree(fld, g, sign, distance) ==
  LET blocked == {n \in 1..distance : isCollision(fld, g, g.x + sign * n, g.y, g.theta)}
  IN  IF blocked = {} THEN distance ELSE Least(blocked) - 1

Moved(fld, g, movement) ==
  [g EXCEPT !.x = IF movement < 0 THEN @ - StepsFree(fld, g, -1, -movement)
                                  ELSE @ + StepsFree(fld, g, 1, movement)]

\* doPieceGravity: where the piece would be, whether it reaches its lowest
\* position, the piece after it, and the state after it.
MutPulledY(g, rows) == g.actualY + Gravity     \* mutant: drops are ignored
PulledY(g, rows) == g.actualY + Gravity + fix(rows)
Reaches(g, rows) == PulledY(g, rows) >= fix(g.hardDropY)

\* Mutant: a piece that comes to rest gets its lock delay back.
MutFallen(g, rows) ==
  IF Reaches(g, rows)
  THEN [g EXCEPT !.actualY = fix(g.hardDropY), !.y = g.hardDropY, !.lockTimer = 0]
  ELSE [g EXCEPT !.actualY = PulledY(g, rows), !.y = unfixflr(PulledY(g, rows)),
                 !.lockTimer = IF LockStyle # "entry" /\ unfixflr(PulledY(g, rows)) > g.y
                               THEN 0 ELSE @]

Fallen(g, rows) ==
  IF Reaches(g, rows)
  THEN [g EXCEPT !.actualY = fix(g.hardDropY), !.y = g.hardDropY]
  ELSE [g EXCEPT !.actualY = PulledY(g, rows), !.y = unfixflr(PulledY(g, rows)),
                 !.lockTimer = IF LockStyle # "entry" /\ unfixflr(PulledY(g, rows)) > g.y
                               THEN 0 ELSE @]

\* Mutant: a piece that can fall again is not set falling.
MutFallState(st, g, rows) == IF Reaches(g, rows) /\ st = "FALLING" THEN "LANDED" ELSE st

FallState(st, g, rows) ==
  IF ~Reaches(g, rows) THEN "FALLING" ELSE IF st = "FALLING" THEN "LANDED" ELSE st

-----------------------------------------------------------------------------
(***************************************************************************)
(* Line clears: full rows vanish and every other row moves down by the     *)
(* number of full rows below it.                                           *)
(***************************************************************************)
MutFullRows(fld) == {y \in 0..Height - 2 : \A x \in 0..Width - 1 : <<x, y>> \in fld}  \* mutant
FullRows(fld)   == {y \in 0..Height - 1 : \A x \in 0..Width - 1 : <<x, y>> \in fld}
RowsBelow(S, y) == Cardinality({r \in S : r > y})

clearLines(fld) ==
  {<<c[1], c[2] + RowsBelow(FullRows(fld), c[2])>> : c \in {d \in fld : d[2] \notin FullRows(fld)}}

-----------------------------------------------------------------------------
Init ==
  /\ state = "READY" /\ field = {} /\ irsAmount = 0 /\ ihsFlag = FALSE
  /\ areTimer = 0 /\ genericCounter = 0 /\ linesCleared = 0 /\ blocksPlaced = 0
  /\ \E queue \in [1..PreviewCount -> Pieces] :
       play = [piece |-> None, x |-> 0, y |-> 0, actualY |-> 0, theta |-> 0,
               hardDropY |-> 0, lockTimer |-> 0, floorkickCount |-> 0,
               holdPiece |-> None, holdAvailable |-> TRUE, nextPiece |-> queue]

\* fsGameReset between two games: the position of the last piece stays, dead.
GameReset ==
  /\ state \in Finished
  /\ state' = "READY" /\ field' = {} /\ irsAmount' = 0 /\ ihsFlag' = FALSE
  /\ areTimer' = 0 /\ genericCounter' = 0 /\ linesCleared' = 0 /\ blocksPlaced' = 0
  /\ \E queue \in [1..PreviewCount -> Pieces] :
       play' = [piece |-> None, x |-> play.x, y |-> play.y, actualY |-> play.actualY,
                theta |-> play.theta, hardDropY |-> play.hardDropY, lockTimer |-> 0,
                floorkickCount |-> 0, holdPiece |-> None, holdAvailable |-> TRUE,
                nextPiece |-> queue]

\* A restart or quit request ends the game in any state; quit wins.
Abandons(i) == "restart" \in i.extra \/ "quit" \in i.extra

TickAbandon(i) ==
  /\ state \notin {"RESTART", "QUIT"} /\ Abandons(i)
  /\ state' = IF "quit" \in i.extra THEN "QUIT" ELSE "RESTART"
  /\ UNCHANGED <<field, play, irsAmount, ihsFlag, areTimer, genericCounter,
                 linesCleared, blocksPlaced>>

\* FSS_READY, FSS_GO.  There is no piece in play: a hold takes the first
\* preview piece, and discards what was held.
TickReadyGo(i) ==
  /\ state \in {"READY", "GO"} /\ ~Abandons(i)
  /\ IF "hold" \in i.extra /\ play.holdAvailable
     THEN \E r \in Pieces :
            play' = [play EXCEPT !.holdPiece = Dealt(play.nextPiece, r),
                                 !.nextPiece = Behind(@, r),
                                 !.holdAvailable = InfiniteReadyGoHold]
     ELSE UNCHANGED play
  /\ state' = CASE genericCounter = ReadyTicks + GoTicks -> "NEW_PIECE"
                [] genericCounter # ReadyTicks + GoTicks /\ genericCounter = ReadyTicks -> "GO"
                [] OTHER -> state
  /\ genericCounter' = genericCounter + 1
  /\ UNCHANGED <<field, irsAmount, ihsFlag, areTimer, linesCleared, blocksPlaced>>

\* FSS_NEW_PIECE over the field fld with the initial actions irs and ihs:
\* deal, rotate, hold, then look for lockout.
Spawned(fld, g, irs, ihs, r1, r2) ==
  LET turned == Rotated(fld, newPiece(g, r1), irs)
  IN  IF ihs THEN tryHold(fld, turned, r2) ELSE turned

\* The lockout test, after the initial actions (engine.c:658-665).
Enter(fld, s) ==
  IF isCollision(fld, s, s.x, s.y, s.theta)
  THEN state' = "GAMEOVER" /\ play' = s
  ELSE state' = "FALLING"  /\ play' = updateHardDropY(fld, s)

\* Mutant: the lockout test comes before the initial actions.
MutSpawn(fld, g, irs, ihs, placed) ==
  /\ placed < MaxBlocks
  /\ \E r1, r2 \in Pieces :
       LET s == Spawned(fld, g, irs, ihs, r1, r2) IN
       IF isCollision(fld, newPiece(g, r1), Width \div 2 - 2, 1, 0)
       THEN Enter(fld, newPiece(g, r1))
       ELSE state' = "FALLING" /\ play' = updateHardDropY(fld, s)
  /\ irsAmount' = 0 /\ ihsFlag' = FALSE

Spawn(fld, g, irs, ihs, placed) ==
  /\ placed < MaxBlocks
  /\ \E r1, r2 \in Pieces : Enter(fld, Spawned(fld, g, irs, ihs, r1, r2))
  /\ irsAmount' = 0 /\ ihsFlag' = FALSE

TickNewPiece(i) ==
  /\ state = "NEW_PIECE" /\ ~Abandons(i)
  /\ Spawn(field, play, irsAmount, ihsFlag, blocksPlaced)
  /\ UNCHANGED <<field, areTimer, genericCounter, linesCleared, blocksPlaced>>

\* FSS_ARE over the field fld: record the initial actions held now, then
\* wait, unless the delay is over or an input cuts it short.
InitialRotation(i) ==
  CASE "rotr" \in i.keys -> Clockwise
    [] "rotr" \notin i.keys /\ "rotl" \in i.keys -> Anticlockwise
    [] i.keys \cap {"rotr", "rotl"} = {} /\ "roth" \in i.keys -> Halfturn
    [] OTHER -> 0

\* Mutant: the timer does not advance.
MutAre(i, fld, g, placed) ==
  LET irs == IF PersistentAction THEN InitialRotation(i) ELSE irsAmount
      ihs == IF PersistentAction THEN "hold" \in i.keys ELSE ihsFlag
  IN  IF areTimer > AreTicks
      THEN areTimer' = 0 /\ Spawn(fld, g, irs, ihs, placed)
      ELSE /\ state' = "ARE" /\ areTimer' = areTimer
           /\ play' = g /\ irsAmount' = irs /\ ihsFlag' = ihs

Are(i, fld, g, placed) ==
  LET irs == IF PersistentAction THEN InitialRotation(i) ELSE irsAmount
      ihs == IF PersistentAction THEN "hold" \in i.keys ELSE ihsFlag
      cut == /\ AreCancellable
             /\ \/ i.rotation # 0 \/ i.movement # 0 \/ i.gravity # 0 \/ i.extra # {}
                \/ ihs \/ irs # 0
  IN  IF cut \/ areTimer > AreTicks
      THEN areTimer' = 0 /\ Spawn(fld, g, irs, ihs, placed)
      ELSE /\ state' = "ARE" /\ areTimer' = areTimer + 1
           /\ play' = g /\ irsAmount' = irs /\ ihsFlag' = ihs

TickAre(i) ==
  /\ state = "ARE" /\ ~Abandons(i)
  /\ Are(i, field, play, blocksPlaced)
  /\ UNCHANGED <<field, genericCounter, linesCleared, blocksPlaced>>

\* FSS_FALLING, FSS_LANDED: the piece is to lock, by a hard drop or because
\* its lock timer has run out while it rests.  Nothing else moves it.
Locks(i) == "harddrop" \in i.extra \/ (state = "LANDED" /\ play.lockTimer >= LockTicks)

TickLock(i) ==
  /\ state \in Active /\ ~Abandons(i) /\ Locks(i)
  /\ play'  = Fallen(play, i.gravity)
  /\ state' = FallState("LINES", play, i.gravity)
  /\ UNCHANGED <<field, irsAmount, ihsFlag, areTimer, genericCounter,
                 linesCleared, blocksPlaced>>

\* Mutant: the lock timer runs while the piece falls, too.
MutFall(aimed, acted, rows) ==
  LET fallen == Fallen(aimed, rows)
      timer  == IF acted /\ LockStyle = "move" THEN 0 ELSE fallen.lockTimer
  IN  state' = FallState(state, aimed, rows) /\ play' = [fallen EXCEPT !.lockTimer = timer + 1]

\* Gravity and the lock timer, for a piece whose ghost is up to date.
Fall(aimed, acted, rows) ==
  LET fallen == Fallen(aimed, rows)
      timer  == IF acted /\ LockStyle = "move" THEN 0 ELSE fallen.lockTimer
  IN  /\ state' = FallState(state, aimed, rows)
      /\ play'  = [fallen EXCEPT !.lockTimer = IF state' = "LANDED" THEN timer + 1 ELSE timer]

\* The ghost is looked for again only if a rotation or a movement succeeded; a
\* successful rotation changes theta.
Settle(held, turned, shifted, rows) ==
  IF turned.theta # held.theta \/ shifted.x # turned.x
  THEN Fall(updateHardDropY(field, shifted), TRUE, rows)
  ELSE Fall(shifted, FALSE, rows)

\* FSS_FALLING, FSS_LANDED otherwise: hold, rotate, move, fall, in this order.
TickMove(i) ==
  /\ state \in Active /\ ~Abandons(i) /\ ~Locks(i)
  /\ i.rotation # 0 => play.floorkickCount <= MaxFloorkicks
  /\ \E r \in Pieces :
       LET held   == IF "hold" \in i.extra THEN tryHold(field, play, r) ELSE play
           turned == Rotated(field, held, i.rotation)
       IN  Settle(held, turned, Moved(field, turned, i.movement), i.gravity)
  /\ UNCHANGED <<field, irsAmount, ihsFlag, areTimer, genericCounter,
                 linesCleared, blocksPlaced>>

\* FSS_LINES: merge the piece, clear lines, and go on to ARE in the same
\* tick, unless the goal is met.
TickLines(i) ==
  LET merged == field \cup BlocksOf(play.piece, play.x, play.y, play.theta)
      total  == linesCleared + Cardinality(FullRows(merged))
      g      == [play EXCEPT !.piece = None]
  IN
  /\ state = "LINES" /\ ~Abandons(i)
  /\ blocksPlaced' = blocksPlaced + 1
  /\ field' = clearLines(merged)
  /\ linesCleared' = total
  /\ IF total < Goal
     THEN Are(i, clearLines(merged), g, blocksPlaced + 1)
     ELSE /\ state' = "GAMEOVER" /\ play' = g
          /\ UNCHANGED <<irsAmount, ihsFlag, areTimer>>
  /\ UNCHANGED genericCounter

Tick ==
  \E i \in Inputs :
    \/ TickAbandon(i) \/ TickReadyGo(i) \/ TickAre(i) \/ TickNewPiece(i)
    \/ TickLock(i) \/ TickMove(i) \/ TickLines(i)

Next == Tick \/ GameReset

Spec == Init /\ [][Next]_vars

-----------------------------------------------------------------------------
(***************************************************************************)
(* Properties.                                                             *)
(***************************************************************************)

\* The fields keep their types (engine.h:158-327).
Play == [piece : Pieces \cup {None}, x : Int, y : Int, actualY : Int,
         theta : Theta, hardDropY : Int, lockTimer : Nat, floorkickCount : Nat,
         holdPiece : Pieces \cup {None}, holdAvailable : BOOLEAN,
         nextPiece : [1..PreviewCount -> Pieces]]
TypeOK ==
  /\ state \in State /\ field \subseteq Cell /\ play \in Play
  /\ irsAmount \in {0} \cup Direction /\ ihsFlag \in BOOLEAN
  /\ areTimer \in Nat /\ genericCounter \in Nat /\ linesCleared \in Nat /\ blocksPlaced \in Nat

\* A piece is in play: fsGameTick reads its position.
InPlay == state \in Active \cup {"LINES"}
Blocks == BlocksOf(play.piece, play.x, play.y, play.theta)

\* The piece in play never leaves the field.  lockPiece writes its four cells
\* into b without a test (engine.c:178-180), so this is what keeps it from
\* writing outside the array, whatever wallkicks, holds and drops came before.
ActiveInField == InPlay => play.piece \in Pieces /\ Blocks \subseteq Cell

\* The ghost piece, where the piece in play would come to rest, is inside the
\* field, not above the piece, and on top of something, even when a hold puts
\* the piece on top of occupied cells and its hardDropY above itself.
GhostRests ==
  InPlay => /\ play.y <= play.hardDropY
            /\ BlocksOf(play.piece, play.x, play.hardDropY, play.theta) \subseteq Cell
            /\ isCollision(field, play, play.x, play.hardDropY + 1, play.theta)

\* A landed or locking piece has something right below it: nothing locks in
\* mid-air (engine.c:676-678), also when it was just rotated, moved off a
\* ledge, swapped or hard-dropped.
Supported == state \in {"LANDED", "LINES"} => isCollision(field, play, play.x, play.y + 1, play.theta)

\* y is the row of the finer actualY (engine.h:221-225), after every drop, kick,
\* swap and truncation above the top row.
RowAgrees == InPlay => play.y = unfixflr(play.actualY)

\* hardDropY is the greatest y of the piece in play without a collision
\* (engine.h:228), so every frontend draws the ghost where the piece will lock.
HardDropValid ==
  InPlay => /\ ~isCollision(field, play, play.x, play.hardDropY, play.theta)
            /\ isCollision(field, play, play.x, play.hardDropY + 1, play.theta)

\* The piece in play shares no cell with the stack.
NoOverlap == InPlay => Blocks \cap field = {}

\* A piece that is clear of the stack, with an exact ghost, stays so: no move,
\* drop, deal or turn can put it into the stack, but for two cases.  A hold in
\* play (engine.c:687) looks for no room.  And a turn of a piece above the top row
\* whose kick lowers it keeps a negative fraction (engine.c:357), which lifts it
\* again by the row the wallkick test said was not free.
Clear == NoOverlap /\ HardDropValid
Held   == play.holdAvailable /\ ~play'.holdAvailable
Lifted == play.actualY < 0 /\ play'.theta # play.theta
StaysClear == [][Clear => Clear' \/ (state \in Active /\ (Held \/ Lifted))]_vars

\* Between ticks the timers stay within what their delays allow: they are
\* compared with == (ready and go) or tested one tick late (are, lock).
TimersBounded ==
  /\ play.lockTimer <= LockTicks + (IF state = "FALLING" THEN 0 ELSE 1)
  /\ areTimer <= AreTicks + 1
  /\ genericCounter <= ReadyTicks + GoTicks + 1

\* No full row survives a line clear (clearLines).
NoFullRow == \A y \in 0..Height - 1 : \E x \in 0..Width - 1 : <<x, y>> \notin field

\* A piece enters play only where there is room, initial rotation and hold
\* included (engine.c:647, "Apply ihs/irs before checking lockout").
SpawnIsFree ==
  [][state \notin Active /\ state' \in Active
       => ~isCollision(field', play', play'.x, play'.y, play'.theta)]_vars

\* Once a tick decides to lock the piece, it locks: doPieceGravity does not
\* set it falling again (engine.c:680-683, 394).
LocksAtOnce == [][\A i \in Inputs : TickLock(i) => state' = "LINES"]_vars

\* A piece is held at most once before the next one locks, though the newPiece
\* of a first hold makes the hold available again (engine.c:475-476).
HoldOncePerPiece ==
  [][(state \in Active /\ state' \in Active \cup {"LINES"})
       => (/\ ~play.holdAvailable => ~play'.holdAvailable
           /\ (play'.piece # play.piece \/ play'.holdPiece # play.holdPiece)
                => (play.holdAvailable /\ ~play'.holdAvailable))]_vars

\* Dealing and holding lose no piece: what is in play, held or previewed before
\* a tick still is after it, unless the tick locks it or abandons the game.
Copies(g, p) ==
  Cardinality({k \in 1..PreviewCount : g.nextPiece[k] = p})
    + (IF g.piece = p THEN 1 ELSE 0) + (IF g.holdPiece = p THEN 1 ELSE 0)
NoPieceLost ==
  [][(state \in Active \cup {"NEW_PIECE", "ARE"} /\ state' # "READY")
       => (\A p \in Pieces : Copies(play', p) >= Copies(play, p))]_vars

\* A floorkick beyond the limit "allow[s] a lock next frame" (engine.c:727-730):
\* the piece that lands with it has no lock delay left.
FloorkickForcesLock ==
  [][(/\ state \in Active /\ state' = "LANDED"
      /\ play'.floorkickCount > play.floorkickCount
      /\ play'.floorkickCount > FloorkickLimit)
       => play'.lockTimer >= LockTicks]_vars

\* When the lock delay is reset only on entry, sideways moves and holds cannot
\* keep a piece in play for ever: one that never locks is rotated, and lifted
\* by wallkicks, again and again.
OnlyKicksStall ==
  <>[](state \in Active) => []<><<play'.theta # play.theta /\ play'.y <= play.y>>_vars

\* The phases between pieces end: the next piece comes into play or the game
\* is over (or MaxBlocks is reached).
PhasesEnd ==
  state \in {"READY", "GO", "NEW_PIECE", "ARE", "LINES"}
    ~> state \in Active \cup Finished \/ blocksPlaced >= MaxBlocks
=============================================================================
