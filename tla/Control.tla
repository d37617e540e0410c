------------------------------ MODULE Control ------------------------------
(***************************************************************************)
(* src/engine/control.c: fsVirtualKeysToInput turns the set of virtual     *)
(* keys that are down in a tick into the FSInput of that tick.  Everything *)
(* it remembers between ticks is the FSControl, here the record ctl.       *)
(* newKeysCount, which only feeds a statistic, is left out.                *)
(***************************************************************************)
EXTENDS Integers

CONSTANTS
  MsPerTick, DasDelay,      \* milliseconds per tick; dasDelay in milliseconds
  DasSpeed,                 \* dasSpeed, 0 for "to the wall at once"
  FieldWidth, FieldHeight,
  SoftDropRows,             \* unfixflr(msPerTick * softDropGravity)
  OneShotSoftDrop,          \* oneShotSoftDrop
  Keystates,                \* the sets of keys a player may hold down
  Starts                    \* what the FSControl may contain when the program starts

VirtualKey == {"up", "down", "left", "right", "rotl", "rotr", "roth", "hold",
               "start", "restart", "quit"}
\* The keys whose state fsGameTick looks at, under the names of Engine.
Watched == {"rotl", "rotr", "roth", "hold"}

ASSUME DasAssumption ==
  MsPerTick \in Nat \ {0} /\ DasDelay \in Nat /\ DasSpeed \in Nat
ASSUME ControlFieldAssumption ==
  FieldWidth \in Nat \ {0} /\ FieldHeight \in Nat \ {0} /\ SoftDropRows \in Nat
ASSUME KeyAssumption ==
  /\ OneShotSoftDrop \in BOOLEAN /\ Keystates \subseteq SUBSET VirtualKey
  /\ Starts \subseteq [lastKeys : SUBSET VirtualKey, currentKeys : SUBSET VirtualKey,
                       dasCounter : Int]

VARIABLES
  ctl,     \* FSControl: lastKeys, currentKeys, dasCounter
  input    \* the FSInput made last

\* TICKS(x) for x >= 0.
DasTicks == DasDelay \div MsPerTick

\* FSInput.gravity is an i8.
AsI8(n) == LET b == n % 256 IN IF b >= 128 THEN b - 256 ELSE b

-----------------------------------------------------------------------------
\* The keys that act: those of currentKeys stay dead until they are released.
Live(c, keys) == keys \ c.currentKeys

MutNew(c, keys) == Live(c, keys)           \* mutant: a key held down acts in every tick
New(c, keys) == (keys \ c.lastKeys) \ c.currentKeys

\* Left wins over right.
SideOf(live) ==
  IF "left" \in live THEN -1 ELSE IF "right" \in live THEN 1 ELSE 0

\* A direction key is down and the delay is over: move every DasSpeed ticks.
Repeat(das, side) ==
  IF DasSpeed = 0 THEN [das |-> das, movement |-> side * FieldWidth]
  ELSE [das |-> das - side * (DasSpeed - 1), movement |-> side]

\* A direction key is down: the first tick in a direction moves, the next ones
\* count until the delay is over.
Charge(das, side) ==
  IF side * das <= 0 THEN [das |-> side, movement |-> side]
                     ELSE [das |-> das + side, movement |-> 0]

MutShift(das, side) ==                     \* mutant: the delay is a tick longer
  CASE side = 0                               -> [das |-> 0, movement |-> 0]
    [] side # 0 /\ side * das <= DasTicks     -> Charge(das, side)
    [] side # 0 /\ side * das > DasTicks      -> Repeat(das, side)
Shift(das, side) ==
  CASE side = 0                               -> [das |-> 0, movement |-> 0]
    [] side # 0 /\ side * das < DasTicks      -> Charge(das, side)
    [] side # 0 /\ ~(side * das < DasTicks)   -> Repeat(das, side)

\* Half turns win over quarter turns, and opposite quarter turns cancel out.
RotationOf(new) ==
  IF "roth" \in new THEN 2
  ELSE (IF "rotr" \in new THEN 1 ELSE 0) - (IF "rotl" \in new THEN 1 ELSE 0)

\* The rows a tick adds to gravity.  A hard drop replaces a soft drop.
MutDropRows(live, new) ==                  \* mutant: a soft drop replaces a hard drop
  IF "down" \in (IF OneShotSoftDrop THEN new ELSE live) THEN AsI8(SoftDropRows)
  ELSE IF "up" \in new THEN AsI8(FieldHeight) ELSE 0
DropRows(live, new) ==
  IF "up" \in new THEN AsI8(FieldHeight)
  ELSE IF "down" \in (IF OneShotSoftDrop THEN new ELSE live) THEN AsI8(SoftDropRows)
  ELSE 0

\* The FST_INPUT flags.
Extra(new) ==
  (IF new \cap {"left", "right", "rotl", "rotr", "roth"} # {} THEN {"finesse"} ELSE {})
    \cup (IF "up" \in new THEN {"harddrop"} ELSE {})
    \cup (new \cap {"hold", "restart", "quit"})

\* The FSInput for the keys that are down, and the FSControl after it.
InputOf(c, keys) ==
  [movement |-> Shift(c.dasCounter, SideOf(Live(c, keys))).movement,
   rotation |-> RotationOf(New(c, keys)),
   gravity  |-> DropRows(Live(c, keys), New(c, keys)),
   extra    |-> Extra(New(c, keys)),
   keys     |-> Live(c, keys) \cap Watched]

\* Mutant: the mask is never lifted.
MutAfter(c, keys) ==
  [lastKeys |-> keys, currentKeys |-> c.currentKeys,
   dasCounter |-> Shift(c.dasCounter, SideOf(Live(c, keys))).das]

After(c, keys) ==
  [lastKeys |-> keys, currentKeys |-> c.currentKeys \cap keys,
   dasCounter |-> Shift(c.dasCounter, SideOf(Live(c, keys))).das]

Convert(keys) ==
  /\ input' = InputOf(ctl, keys)
  /\ ctl'   = After(ctl, keys)

\* FSInput in = {0, 0, 0, 0, 0, 0} (main.c:37).
NoInput == [movement |-> 0, rotation |-> 0, gravity |-> 0, extra |-> {}, keys |-> {}]

\* The FSControl that main declares and that nothing initialises (main.c:265).
ControlInit == ctl \in Starts /\ input = NoInput

ControlNext == \E keys \in Keystates : Convert(keys)
ControlSpec == ControlInit /\ [][ControlNext]_<<ctl, input>>
=============================================================================
