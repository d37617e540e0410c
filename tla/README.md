# A TLA+ model of faststack

faststack is a falling-block game in C99: one engine, advanced one tick at a
time, under three frontends (terminal, SDL2 and a bare-metal kernel).  This
directory holds a model of it in TLA+, configurations that check the model with
TLC, and proofs checked by TLAPS.  Paths below are relative to the repository;
`engine.c` means `src/engine/engine.c`.

## 1. Inventory

| Component | State | Operations | Must be right |
|---|---|---|---|
| **Engine** `engine.c`, `engine.h`, `internal.h` | one `FSEngine`: `state`, field `b`, piece (`piece x y actualY theta hardDropY`), `lockTimer`, `floorkickCount`, hold slot, preview queue, initial actions, ARE and countdown counters, lines, blocks | `fsGameReset`, `fsGameTick` | the piece never leaves the field nor overlaps it; it locks only at rest; the ghost is exact; no piece or cell is lost; every phase ends |
| **Rotation systems** `rotation.c` | constant tables | read by `fsGetBlocks` and `doRotate` | orientations are turns of one shape; opposite turns cancel out; left and right are alike |
| **Randomizers** `rand.c` | generator context, `randBuf`, `randBufExtra`, `randBufIndex` | `fsRandSeed`, `fsNextRandomPiece` | a bag deals each piece once; history and drought order are kept |
| **Control** `control.c` | `lastKeys`, `currentKeys`, `dasCounter` | `fsVirtualKeysToInput` | one press acts once; auto-repeat starts after the delay |
| **Finesse** `finesse.c` | constant tables | `fsMinimalFinesseCount` | the counts are minimal; the index is in range |
| **Replays, hiscores** `dao.c` | SQLite rows, last recorded key state | insert, load, read back, mark complete | playback sees the keys the game saw |
| **Game loop** `frontend/*/main.c` | lag, menu state, draw cadence | `gameLoop`, `playGameLoop`, `updateGameLogic` | ticks keep pace; restart and quit work everywhere |
| **Options** `option.c`, `keyspec.c` | the `@O` fields, key map | ini and command-line parsing | values the engine can bear |
| **Terminal frontend** | two screen buffers, key set, signal flags | pre-frame hook, read keys, blit, signal handlers | the screen shows the back buffer; the terminal is restored |
| **SDL2 frontend** | renderer, key state, sounds | same interface | - |
| **Kernel frontend** `frontend/kernel` | key map and tick counter written by interrupts | read keys, sleep, main loop | no torn state between interrupt and loop |
| **Log, libc** `log.c`, `fslibc.c` | log level, stream | formatting | - |
| vendored: SQLite, SDL_FontCache, fonts, sounds | | | |

**Interaction.**  Every `msPerTick` the game loop reads the keys (or, in
playback, the recorded keys), records a change of keys, turns them into an
`FSInput` (`control.c`) and calls `fsGameTick`, which calls the randomizer when
it needs a piece and the rotation tables when it turns one.  The frontend then
reads the `FSEngine` to draw it.  Nothing calls back into the engine.  Only
signals (terminal) and interrupts (kernel) run concurrently with the loop.

**What is hard.**  A tick is one long function over a record edited in place, in
an order that matters: hold, then rotation, movement, gravity, lock timer.
Cached values (`hardDropY`), three timers with different comparisons, fixed-point
positions that truncate towards zero, and the many ways a piece can be
replaced (deal, first hold, swap, hold during the countdown, initial hold)
interact over many ticks.  `PROJECT.json` lists each hazard at its line.

## 2. How the project is built

```
Rotation --- Finesse ---------- MCRotation    RotationProofs
   |
Engine --- EngineRefinement --- MCEngine      EngineRefinement: Game == INSTANCE Stack WITH ...
   |            RefinementProofs (EngineProofs, StackProofs)
   +--- EngineProofs
   +--- Player --- MCPlayer                   Player EXTENDS Engine, AutoRepeat
   |            PlayerProofs (EngineProofs)
Control --- AutoRepeat                         Replay: Keys == INSTANCE Control
Replay --- MCReplay
   +--- ReplayProofs
BagRandomizer, TGMRandomizer --- Randomizer --- MCRandomizer
   |            RandomizerProofs
GameLoop --- Terminal --- MCFrontend          FrontendProofs
```

Two abstract specifications state what a component promises without saying how:
`Stack` (the game on the board, which `Engine` implements) and `AutoRepeat`'s
schedule and presses (which `Control` keeps).  `GameLoop` has a specification of
its own that `Terminal` is proved to implement.  Recursion is written as
functions, so every module can be proved about; mutated forms of definitions
(`Mut...`) stand beside the definition they mutate and are used by no
specification.

What a next step would take up: a model of the kernel frontend's interrupts and
of the option reader (section 6).

## 3. The modules

### Rotation and Finesse

`pieceOffsets` and the wallkick tables of all seven systems, in the order of the
C initialisers.  A kick is a record with the offset and whether it is the
`WK_ARIKA_LJT` marker; the C initialiser of a marker leaves x and y zero, and
when its condition is false `doRotate` goes on to try that zero offset, so the
marker is kept as a test.  `Shape` is `fsGetBlocks` at the origin and `KickRow`
the row `doRotate` walks; no system has a half-turn table, so a half turn uses
the empty one.

`Finesse` holds the three tables of `finesse.c` and the fault that `lockPiece`
charges.  `Presses` is the reference: every place that up to four rotations,
taps and held directions can bring a piece to from its entry column, from the
shapes alone.  `Exact` compares the two, column by column, for one rotation
system (SRS).  The tables are exact for 23 of the 28 pairs of piece and
orientation; `FinesseExact` asks it of all pairs but the O and J and L upside
down.  There the tables are wrong: those of the O are one column off (and read
at index -1 in the leftmost column), and J and L upside down have two columns
that say one press less than it takes.

### Engine

| TLA+ | C |
|---|---|
| `state` | `FSEngine.state` |
| `field` | `b`, as the set of cells that are not 0 (colours are never read back by the engine) |
| `play` | `piece x y actualY theta hardDropY lockTimer floorkickCount holdPiece holdAvailable nextPiece` |
| `irsAmount ihsFlag areTimer genericCounter linesCleared blocksPlaced` | same names |
| `Init`, `GameReset` | `fsGameInit`; `fsGameReset` between two games |
| `TickAbandon` | a tick with a restart or quit request, `engine.c:520-526` |
| `TickReadyGo`, `TickAre`, `TickNewPiece`, `TickLines` | the `case` of that state, with everything reached by `goto beginTick` in the same tick |
| `TickLock`, `TickMove` | the two ways through `FSS_FALLING`/`FSS_LANDED` |

A tick is one step, since nothing runs between its statements.  Each C function
that edits the piece is an operator from `play` records to `play` records:
`newPiece`, `tryHold`, `doRotate`, `updateHardDropY`, `Moved` (the movement
loops), `Fallen` (`doPieceGravity`).  The loops of the code appear as the result
they compute: the first test that fits, the first row that collides, the steps
before the first obstacle.  `FSS_LINES` is followed by ARE, and ARE by the next
piece, in one step, as with `goto`.

The options are constants: gravity and delays are given in ticks or rows per
tick, as the code computes them with `TICKS` and `msPerTick * gravity`.  The
randomizer is any piece of `Pieces`.  `Inputs` is the set of `FSInput`s a tick
may receive; a hard drop carries `gravity = fieldHeight` as `control.c:115-119`
sets it.  Not modelled: sound flags, statistics and finesse counters, which the
engine never reads.

`Width >= 5` is an assumption because the code needs it: the swap branch of
`tryHold` enters a piece at `fieldWidth / 2 - 1`, so that on a field of width 4
an I stands outside the array (`option.c:144` accepts any width up to 20).
`MaxFloorkicks <= 126` keeps `floorkickCount`, an `i8`, from overflowing.

### Stack and EngineRefinement

`Stack` is the game without the machinery: a piece waits, enters where there is
room, moves, comes to rest on something, merges once, and full rows vanish with
the rows above moving down.  It knows no ghost, timer, kick, hold slot or input.
`EngineRefinement` maps the engine to it: the phase from `state`, the board from
`field`, the piece from the cells of the piece in play.  `ImplementsGame` is
`Stack`'s specification under this mapping.  `clearLines` copies rows in place
under a bit mask; `Stack` and `Engine` both say which cells go and how far each
other one falls.  So a wrong order of ticks, locks and clears would show, and a
wrong order of the copies within `clearLines` would not: no property covers it.

### Control, AutoRepeat, Player

`Control` is `fsVirtualKeysToInput`: the keys masked until released
(`currentKeys`), the signed `dasCounter`, one-shot actions.  `AutoRepeat` keeps,
as history, for how long each direction has been down, and states what a player
expects.  `FSControl` is never initialised (`main.c:265`), so `Starts` is a set
of arbitrary contents.  `Player` composes `Control` with `Engine` in
`updateGameLogic`'s order: every tick's input comes from the keys, and nothing
touches the control between two games.  `PFairSpec` adds that ticks keep coming.

A repeat sets `dasCounter` back by `DasSpeed - 1` ticks (`control.c:52-57`), so
`DasSpeed` is the number of ticks between two blocks, and `TICKS` rounds the delay
down (`internal.h:19`).  The documents say otherwise on both counts.  `Schedule`
says what holds where they agree (a block at once, none during the delay, one when
it is over, then at most one a tick, never the other way, all over again after a
change of direction); `RepeatsAsDocumented` says what the documents do, and fails.

### Replay

The three tables of `dao.c`, the menu of `gameLoop` and the tick, over any
number of runs of the program.  `Stop` loses the memory of the program at any
point, also between the two writes after a game over (`Finish`).  With
`WritesFail` an insert or update may fail without notice, as the code ignores
the result of `sqlite3_step`.  The engine is any machine `Advance` that takes an
input in a tick: playback relies only on its being deterministic.  Its
`FSS_GAMEOVER` states are of two kinds, `Completed` and `ToppedOut`
(`engine.c:658-661,755`).  `gameLoop` and `dao.c` do not tell them apart: a game
that was lost has its replay marked complete and a hiscore saved like one that
was won (`main.c:211-215`, `dao.c:162-176`); a restart, a quit or the program's end
leaves a game without.

### Randomizers

`BagRandomizer` has the plain bag, the bag one short, the bag with the seam check
and the bag of several copies; `TGMRandomizer` the three history randomizers;
`Randomizer` the switch over both.  A word of the generator is any word, so the
properties hold for every seed; `Accepted` is the rejection loop of
`fsRandInRange` over the numbers `0..MAX`.

### GameLoop and Terminal

| TLA+ | C |
|---|---|
| `now` | the monotonic clock; `fsiGetTime` is its 32-bit value |
| `lastTime`, `lag` | same names in `playGameLoop`; `startTime` is `lastTime` after the turn began |
| `Turn`, `Tick`, `Blit`, `Sleep`, `Break` | `main.c:92-101`, `102-117`, `118-121`, `123-142`, `127-129` with `201-226` |
| `MenuTurn`, `MenuBlit`, `MenuSleep` | a turn of `gameLoop` outside a game |
| `bbuf fbuf invalidateBuffers width centerField caughtSigwinch caughtSigint` | same names in `terminal/frontend.c` |
| `BlitStart`, `BlitClear`, `BlitPaint` | `fsiBlit` up to the read of the size, the clear of the flag, the rest |
| `Winch`, `Interrupt` | the signals, with the handlers' effect, at any moment |
| `TurnOfGame` | a turn's beginning with `fsiPreFrameHook` |

`Terminal` conjoins its own effects to the steps of `GameLoop`.  The differences
of clock values in `main.c:93,99,141` overflow when the clock wraps between them,
which C leaves undefined; the model takes the wrapped result, which an unoptimised
subtraction of two machine words gives (`Wrap`).  A change of the window leaves every cell of the screen in an
unknown state.

## 4. The runs

| Run | Question | Bounds and why they suffice |
|---|---|---|
| `rotation` | Do the wallkick and finesse tables agree with the shapes, with quarter turns, inverses, mirror images, Sega's offsets and a shortest-path search? | all systems, all pieces, six turns: every row is reached after three; four presses, which reach every column |
| `hold` | Whole games with every input, hold included: `ActiveInField RowAgrees GhostRests Supported TimersBounded NoFullRow SpawnIsFree LocksAtOnce HoldOncePerPiece NoPieceLost StaysClear ImplementsGame` | 5x6 field, I and T, one preview, half a row of gravity per tick, a lock delay of 2 ticks so that a landed piece can still move off its ledge, two pieces: the second is turned, kicked, held and swapped over the first, and an I beside a T fills a row |
| `player` | Control and Engine together, game after game, from any content of the uninitialised control: `InputsFit OneDropPerPress OneHoldPerPress EveryPressActsOnce Schedule OnlyKicksStall PhasesEnd` | 5x5 field; pieces O, which turns on the spot, and I, which a player can kick for ever, so that the premise of `OnlyKicksStall` occurs; two pieces a game; entry reset, no floorkick limit, a lock delay of 2 ticks; 12 sets of keys, among them the pairs that interact; a delay of 16 ms, two ticks of 8 ms, and a speed of 2, a block every second tick |
| `replay` | Does playback repeat the game and end with it, and does every hiscore belong to a game that went on to its game over, won or lost, with stops and restarts anywhere? `PlaybackFaithful PlaybackEnds HiscoresBelong` | two recorded games of up to three ticks: the second row is the first whose id differs from its count; a machine whose piece completes the goal where it is dropped aside and tops out where it enters |
| `randomizers` | Every randomizer over any numbers: `DealtOnce UnbiasedShuffle UnbiasedDraw HistoryIsLastFour NoRepeat` | three pieces in a bag, two copies in the multi-bag, so that two bags are dealt and the seam is passed; four pieces in a history of four; a generator of the numbers 0 to 31 (`MAX` = 31), which do not divide by three |
| `frontend` | Loop, menu and terminal under signals: `NeverAhead NoOversleep DrawnOften ScreenRight TtyRestored` | a tick of four units, slow ticks of six, sleeps three late, about five ticks of game time with the clock's wrap in the first; two window changes, two ^C |
| `ghost_hold`, `floorkick_move`, `das_documented`, `replay_held`, `replay_fails`, `tgm_drought` | what the code does against what the repository says of it, below | `das_documented`: a delay of 20 ms, which is not a whole number of ticks, and a speed of 2 |

`CHECK_DEADLOCK FALSE` appears where the system or the walk really stops:
`rotation` (walks of `MaxTurns`), `randomizers` (`MaxDeals`) and `frontend` (the
program ends).

**Fairness.**  `PFairSpec` asks only that ticks happen again and again:
`gameLoop` starts a game after each game, and `playGameLoop` calls
`updateGameLogic` on every turn of an endless loop whose only waiting is a bounded
sleep.  Nothing is assumed about the player, not even that a game is ever ended or
restarted.  `Replay`'s `FairSpec` is weak fairness of its ticks.

**What the runs show.**  Every property of a passing run holds.  Liveness needed
care: an I under SRS can be turned in mid-air so that wallkicks lift it as fast
as it falls, for ever, so "every piece locks" is false in the code even under
entry reset.  `OnlyKicksStall` states what is true: if a piece stays in play for
ever, it is rotated without going down infinitely often.  `PlaybackFaithful`
holds for games that begin with no key down; `replay_held` shows why it must say
so.  `ScreenRight` admits one race, between reading the window's size and
clearing the flag (`frontend.c:624-628`): then, and only then, the picture stays
off centre until the next change.  `TtyRestored` admits the second ^C.

### Disagreements found

* `ghost_hold` - a hold in play does not test for lockout.  The swapped-in piece
  may overlap the stack, and `hardDropY` is then a colliding row above it,
  against `engine.h:228`.  The piece still stays in the field (`ActiveInField`).
* `floorkick_move` - under `FST_LOCK_MOVE`, the default, the floorkick limit has
  no effect: the lock timer it exhausts is reset in the same tick
  (`engine.c:727-733`).
* `das_documented` - two at once.  `engine.h:240` calls `dasSpeed` "How many blocks
  a piece moves per ms" and `fs.ini:75` says the same; the code moves one block
  every `dasSpeed` ticks, so a larger value is slower.  `engine.h:243` says a key
  must be held for `dasDelay` ms and `fs.ini:7-8` that values in ms are rounded
  *up* to whole ticks; `TICKS` rounds down, so a delay of 20 ms ends after 16 at 8
  ms per tick, and the default of 150 ms after 144 at 16.
* `replay_held` - a key that is down over a restart is not in the replay of the
  new game, nor is a charged auto-repeat, against `dao.c:428` and `main.c:184`.
* `replay_fails` - after an insert that failed, `sqlite3_last_insert_rowid`
  returns some other row, and the replay's inputs are written under its id,
  against the foreign key of `dao.c:334`.
* `tgm_drought` - `memcpy` counts bytes where the drought order has 32-bit
  elements: after a deal a piece is missing from the order, against
  `rand.c:256` and `337`.

Also seen while modelling, and stated where they bound a property:

* the finesse tables above;
* a `dasSpeed` more than a tick above the delay takes `dasCounter` past 0, and the
  first tick in the other direction then does not move (`control.c:52-84`): why
  `ScheduleKept` has the hypothesis `Regular`;
* Arika's I.  `fs.ini:47` calls its wallkick symmetric, but two of its four pairs of
  rows are not mirror images (`rotation.c:163` with `181`, `165` with `179`), so
  `LeftRightFair` leaves it out.  It leaves out the TGM systems too: they try the
  right before the left whichever way a piece turns, which is what `fs.ini:48`
  means by symmetric;
* the lag's sign after a stall of more than 36 minutes (`main.c:99`, see
  `NoLongStall` in `FrontendProofs`);
* the lifted kick.  Above the top row `actualY` is negative and its fraction too
  (`engine.c:357` keeps `unfixfrc(actualY)`).  If a turn there is kicked down, the
  new `actualY` is a little *less* than the new row, the row computed from it is
  the one above, and the fall of the same tick puts the piece where the kick test
  never looked: possibly into the stack.  It came up in the proof of `StaysClear`,
  which says that this and a hold in play are the only two ways into the stack.

## 5. The proofs

Eight modules hold the theorems.  They hold for every value of the constants
that satisfies the assumptions of the module they extend; TLC evaluates those
assumptions on every run.

### EngineProofs

| Theorem | Says |
|---|---|
| `Invariance` | `IInv` holds in every reachable state |
| `TypeCorrect` | `TypeOK` |
| `PieceStaysInField` | `ActiveInField`: `lockPiece` writes inside the array |
| `RowsAgree` | `y` is the row of `actualY` |
| `GhostAlwaysRests` | `hardDropY` is never stale |
| `NothingLocksInMidAir` | `Supported` |
| `TimersStayBounded` | the timers never pass the tests that end their phases |
| `LockIsFinal` | `LocksAtOnce` |

**Assumptions**: those stated in `Engine`: a field of at least 5 by 4, shapes
inside a 4x4 box whose entry orientation leaves the fourth row empty, kick rows
that are sequences of integer offsets, a hard drop of at least the field height.
`TablesFitEngine` (`RotationProofs`) shows those on shapes and kicks for every
rotation system of `rotation.c`.

**Argument.**  The invariant `IInv` says that a piece in play is *good*: inside
the field, at the row of `actualY`, at or above its ghost, and the ghost is in
the field and rests on something.  The properties alone are not inductive: a
tick that locks a landed piece needs to know that the piece has reached its
ghost exactly (otherwise gravity of zero would set it falling again), and the
countdown must not have passed the value it is compared with.  Between the
operations of a tick less holds: after a hold the ghost may be one row *above*
the piece, and `actualY` is only known to be less than a row away from `y`
(`Near`), which truncation towards zero respects on both sides of row 0.  So
each C function has a lemma from such a piece to such a piece (`NewPiece`,
`SwappedInField`, `TryHold`, `DoRotate`, `MovedInField`, `FallsInField`), and
`FallsInField`, the last operation of a tick, restores goodness.
`UpdateHardDropY` shows that the search for the ghost ends: a piece in the field
collides at row `Height` at the latest.  `LeastIsLeast` gives `CHOOSE` its least
element.  One lemma per action then carries `IInv` over the step.

### StackProofs and RefinementProofs

`StackProofs` proves the abstract game: no line clear leaves a full row
(`NoRowStaysFull`), and the cells on the board and in the cleared lines never
outnumber those of the pieces placed (`CellsComeFromPieces`).  The assumption of
`Stack` on its board appears there as a hypothesis, since under `INSTANCE` its
constants are state-independent expressions of the engine.  `FallKeepsOrder`
says that cells of different rows stay in different rows when lines vanish.

`RefinementProofs` proves `Spec => ImplementsGame` (`EngineImplementsGame`): one
lemma per engine action names the abstract step, or the stutter, it maps to.  It
needs `IInv`, in that a locked piece stands in the field on its ghost.  The
theorems of `StackProofs` then carry over to the engine (`NoRowStaysFull`,
`NothingIsCreated`), and `SpawnsAreFree` follows from the abstract spawn.

### FrontendProofs

`LoopUndisturbed` shows that the terminal frontend, with its signals, implements
the loop's own specification, so what is proved of the loop holds under it
(`LoopNeverAhead`, then `GameNeverAhead`).  The invariant is that
`lastTime - lag`, modulo the word, is the time at which the last tick was due,
and that this time has passed: it survives every wrap of the clock (`WrapExact`
says when wrapping arithmetic is exact; the assumption is that two ticks fit in
half the range).  `LoopNeverOversleeps` has the hypothesis `NoLongStall`: a
stall of more than half the range, 36 minutes of a 32-bit microsecond clock, turns the lag's
sign.  `AlwaysDrawn`, `TerminalGivenBack` and `ScreenFollows` have one invariant
each: how many ticks are `Undrawn`, which signals are `Handled`, and when the
screen is what the back buffer was (`Shown`).

### EngineProofs: holds and the ways into the stack

`HeldOnce` follows from `HoldUsed` (what `tryHold` does to the slot) and from a
lemma per operation that leaves the slot alone (`RotatedHold`, `MovedHold`,
`AimedHold`, `FallenHold`).

`OnlyTwoWaysIntoTheStack` proves `StaysClear`.  `Clear` speaks of the piece's own
cells and of the ghost, and is not inductive: a fall passes through the rows
between them, so the invariant `WayOpen` says that nothing lies between the piece
and its ghost.  `GhostIsFirst` restores it after each search for the ghost, and
`FallsItsWay` uses it.  The step that would not go through was the fall after a
turn: it needs the row of the piece not to be below that of `actualY` (`Level`),
which `TurnsLevel` proves for every `actualY` that is not negative, and
which is false for the lifted kick.

`NothingIsLost` counts the copies of each piece in play, in the slot and in the
queue.  `QueueMoves` says that a deal takes the head of the queue and shifts the
rest, `DealLosesNothing` that the counts survive it; `NewPieceKeeps`, `HoldKeeps`
and `SpawnKeeps` follow the three ways of exchanging pieces in place.  The
invariant `NoneYet` says that no piece is in play while one is waited for:
otherwise the deal would overwrite it.

### EngineProofs: how long things last

Three theorems carry the part of `OnlyKicksStall` and `PhasesEnd` that does not
need fairness.  `PiecesRunOut` gives a piece in play a supply, `Remaining`, of at
most `Lifetime`, and shows that every tick in play lowers it unless the piece
turns without coming down, or moves where movements reset the lock delay
(`Prolongs`).  The supply is a number whose digits are, in this order, the hold the
piece may still use, the rows below it, what is left of its lock delay, and what
is left of the row it is in: a hold spends the first and may set all the others
back, a fall spends a row and may set the lock delay back, and so on down
(`Digits`, `RemainingFalls`).  `PhasesRunOut` does the same for the phases between
two pieces, with `Countdown`.  `NoTickIdles` says that no tick leaves the engine as
it is, so that a step of the first two is a tick and never a stutter: this is what
`ENABLED` would have to say in a proof of the liveness properties.  The first and
the third have the hypothesis `Gravity > 0`; with a gravity of zero, which the
model's constants allow, a piece in mid-air stays where it is.

### PlayerProofs

`PressesActOnce` and `ScheduleKept` prove `EveryPressActsOnce` and `Schedule`
for every sequence of key states and any initial content of the `FSControl`.
The schedule has the hypothesis `Regular`: the speed is at most a tick longer than
the delay, so that a repeat never takes the counter past 0.  When a repeat after
the first one comes is not promised, since the documents give another time for it
(`das_documented`).  The invariant `Charged` ties the signed `dasCounter` to the
history `AutoRepeat` keeps: its sign is the direction held, its size the time that
direction has been held until the delay is over, and between 0 and the delay
afterwards.

`Player` is `Engine` fed by `Control`.  `PlayerInputsFit` shows that what the keys
become fits the engine, under `Narrow`: the height of the field and the rows of a
soft drop are at most 127, the range of the gravity's `i8` (`FS_MAX_HEIGHT` is
25).  With `AllInputs`, the engine may be given every input its assumption
admits, `PlayerPlaysEngine` proves `PSpec => Spec`, so every theorem about
`Engine` holds for a player at the keys; `PlayerControls` is the same for
`AutoRepeat`.  `OneDrop` and `OneHold` use both: `Remembered` says that a key
whose press has acted is still among `lastKeys`, and so makes no new press.
`OneHold` has the hypothesis that initial actions are not persistent: if they
are, a key held in ARE is meant to act on the next piece.

### ReplayProofs

`RecordsSuffice` and `PlaybackRepeats` have the hypothesis `Orderly`, which excludes
two things that do break their promises: a write that fails without notice
(`replay_fails`), and an `FSControl` that is not zero when the program starts
(`main.c:265` leaves it uninitialised, so what a game and its playback start from
need not be the same).  Any key may be down when a game begins; what is
promised is about the games that began with none (`rested`).

`HiscoresAreGames` proves `HiscoresBelong` and needs only the first half, that no
write fails: every hiscore is of a game that was played live to its game over,
completed or topped out, with its replay marked complete, and no game has two.
Games that were cut short have none, and a playback earns none.  `Books` is the
bookkeeping it rests on: every game that ended has a row, and a game that is being
played, if it is no playback, is the one of the row being written.  `Earned` adds
that an ended game is on its way into the hiscores at most once.

The invariant `RInv` has to say why *changes* of the key state are enough.  `Run`
says that some sequence of contents of the `FSControl` starts from zeroes, goes
through the keys of each tick (those stored for it, else those of the tick before)
and gives the inputs the engine was given.  `Recorded` states it of every
stored game, with the live control at its end for the one being recorded, and
`Playing` puts a playback in the middle of such a run.  The sequence
is quantified, not computed, so no induction over it is needed: each tick extends
it by one (`LiveTickStep`) or advances along it (`PlaybackTickStep`).
`PlaybackRepeats` follows.

`PlaybackRunsOut` and `PlaybackEndsAlike` say how such a playback ends: a game that
was played to its game over is played back to its last tick, ends there with a game over, and is never
played on past its record, where the last keys would stay down for good.  `TInv`
adds to `RInv` the states the engine goes through along a game (`Course`): none but
the last is a game over (`Timed`), a playback is where the game was after as many
ticks (`Racing`), and a playback that goes on has seen no restart and no quit,
recorded or pressed (`Clean`).  `Clean` is what makes it inductive: a restart held
down from before makes no new press and would not end the playback.

### RandomizerProofs

| Theorem | Says |
|---|---|
| `ShuffleIsUnbiased` | `UnbiasedShuffle`: every order of the bag comes from the same number of draws |
| `DrawIsUnbiased` | `UnbiasedDraw`: rejection leaves every number of the range as many words |
| `BagDealsOnce` | `DealtOnce`: one pass deals no piece more often than the bag holds it |
| `SeamKept` | `NoRepeat`: with the seam check no piece comes twice in a row |
| `RandomizersTyped` | `RTypeOK`: among others, TGM3's bag never gains or loses a piece |
| `HistoryKept` | `HistoryIsLastFour`: the ring holds the last four pieces |

They hold for every set of pieces, every number of copies, every length of a
pass, every range of the generator that is at least the size of the bag, and
every number of rolls.

**Induction.**  The library's induction theorems take a predicate, which the
provers cannot instantiate.  A *set* of numbers they can: `LeastMember` draws the
least element of a set from the well-foundedness of the finite sets, and
`SetInduction` follows.  A recursive function of the model is a `CHOOSE` of the
function that satisfies its equation, so each use needs that one exists
(`TurnsExist`, `RecursionExists`) and that two agree (`TurnsAgree`).

**The shuffle.**  `Moves` are the permutations of the indices that the draws of a
loop perform; two different draws give two different permutations
(`MovesOneToOne`: where the last index came from tells the draw of the first
turn, and so on down) and every permutation comes from some draw (`MovesOnto`).
The orders of a bag with copies are the results of permutations; for two of them
`NoOrderPreferred` composes with a permutation that takes one to the other, so as
many draws give either, and `EqualParts` turns equal parts into the quotient the
property states.

**The draw.**  The words accepted are those below a multiple of the range
(`AcceptedNumbers`), since `MAX - MAX % range` is one, and each remainder has as
many of them as that multiple has quotients (`RemainderClass`).

**The bag.**  `DealtOnce` is not inductive: it does not say why the *next* piece
is not one too many.  `PassIsFront` says that the pass so far is the front of a
full bag, the one in the buffer while the pass lasts.  `Seam` says where the last
piece dealt is, and that the head of a bag that was shuffled again is another.

**The history randomizers.**  `Pools` are the bags of the right size; a reroll
takes one piece out and puts one in, so it leads from pool to pool
(`ReplacedIsPool`, `RerolledArePools` for any number of rerolls).  `Remembered`
strengthens `HistoryIsLastFour` to a ring that is not full yet: the places before
the index hold what has been dealt.

### RotationProofs

| Theorem | Says |
|---|---|
| `AlwaysHome` | `HomeAgain`: where a piece is after any walk depends on its orientation only |
| `TGMIsSega` | `TGMTurnsLikeSega` |
| `ShapesAreRigid` | `RigidTurn`: the shapes are turns of one shape |
| `KicksTurnBack` | `KicksReversible`: each test is undone by the opposite turn's |
| `KicksAreFair` | `LeftRightFair`: mirror images are tested at mirrored places |
| `TablesAreExact` | `FinesseExact`: the tables of `finesse.c` say the least number of presses |
| `TablesFitEngine` | the tables satisfy `PieceAssumption`, `KickAssumption` (`Engine`) and `FourCells` (`EngineRefinement`) |

The run walks `MaxTurns` turns; the theorems hold for any number of turns and any
set of the systems.  `Home` gives a piece a place in each orientation, and
`HomeLands` finds that the first test of every row is the difference of two such
places, so a walk of any length ends where its orientation says (`AtHome`, the
inductive invariant, strengthens `HomeAgain` from the turns that return to
orientation 0 to all).  The symmetries compare the tables row by row (`Reverses`,
`Mirrors`).  `TablesFitEngine` closes a gap between the two modules: `Engine` takes
shapes and kicks as constants, and this theorem says that the constants of the
code are among those its theorems are about.

`TablesAreExact` compares three tables of numbers with a search over ways of
pressing keys (`Presses`).  That no way is shorter is an invariant of the search,
`Paid`: the rotations so far are at least the quarter turns of the orientation,
and the presses to the side at least `Away`: none in the column of entry, one in
the columns next to it and at the walls, two elsewhere.  That some way is as short
is shown by naming it (`FromEntry`, `FromWall`).  A place can be reached in two
orientations when the shape fills the same cells in both: `Twins` says that I, S
and Z do, one column apart or in the same one, `Apart` that J, L and T never do,
so `OnePlace` and `TwoPlaces` are all there is to compare.  The property leaves
out O, and J and L upside down, because the tables are wrong there.

### Only model-checked

* **Liveness** (`OnlyKicksStall`, `PhasesEnd`, `PlaybackEnds`): TLAPS reasons
  neither about fairness nor about `ENABLED`.  What of them is safety is proved:
  the supplies that ticks use up and where a playback ends (`PiecesRunOut`,
  `PhasesRunOut`, `NoTickIdles`, `PlaybackRunsOut`, `PlaybackEndsAlike`).  That
  ticks keep coming, and that a supply which falls runs out, is left to TLC.
* **`DroughtOrder`** of TGM3 is false (`tgm_drought`), so how long a piece can stay
  away has no theorem.
* What the six runs above that end in a violation show is false and has nothing to
  prove.
* **The in-place copies of `clearLines`** are neither checked nor proved.

## 6. Not modelled

* **Options**: `option.c` and `keyspec.c` read lines of text and set fields.  The
  engine's assumptions say what it needs of them, and the hazards name two
  limits they do not enforce (width below 5, `nextPieceCount`).
* **Kernel frontend**: hardware set-up (VGA, descriptor tables, serial port) around
  two interrupt handlers; its loop is a smaller copy of the terminal's.
* **SDL2 frontend**: drawing, sound and key polling through a library.
  `SDL2/main.c` is a copy of `terminal/main.c`.
* **Log, libc, vendored code**: no state the game depends on.  `sqlite3.c` and
  `sqlite3.h` are 213,418 of the repository's 222,026 lines, so the share of all
  lines the map can cover is small by nature; `Replay` models what `dao.c` asks
  of SQLite.
* **In the terminal frontend**: what is drawn into the back buffer, the key map,
  the ini options, the search for an input device.
* **In the engine**: sound flags and statistics, which it writes and never
  reads; the overflow of `floorkickCount` after 127 floorkicks of one piece in
  mid-air; fields narrower than 5.  The model follows the code where the comment at
  `engine.c:142` says the opposite: outside the field `isOccupied` returns true.
* **In the loop**: log lines, the average frame time, sounds of ticks that are
  not drawn.
