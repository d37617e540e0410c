----------------------------- MODULE AutoRepeat -----------------------------
(***************************************************************************)
(* What a player may expect of Control: every press acts once, and a held  *)
(* direction moves at once, waits for the delay and then repeats.  This is *)
(* stated over a history that knows the keys and nothing of dasCounter.    *)
(***************************************************************************)
EXTENDS Control

VARIABLES
  armed,     \* the keys that were up since they last acted
  settled,   \* the FSControl started clean, or all keys were up once
  side,      \* the direction held: -1, 0 or 1
  run        \* ticks it has been held, counted up to DasTicks + 2

hist == <<armed, settled, side, run>>

Clean == [lastKeys |-> {}, currentKeys |-> {}, dasCounter |-> 0]

\* The one-shot keys that act in an input.  Quarter turns that cancel out do
\* not show in the rotation.
Acting(in) ==
  {k \in {"hold", "restart", "quit"} : k \in in.extra}
    \cup (IF "harddrop" \in in.extra THEN {"up"} ELSE {})

AInit ==
  /\ ControlInit
  /\ armed = VirtualKey /\ settled = (ctl = Clean)
  /\ side = 0 /\ run = 0

Step(keys) ==
  /\ Convert(keys)
  /\ armed' = (armed \ Acting(input')) \cup (VirtualKey \ keys)
  /\ settled' = (settled \/ keys = {})
  /\ side' = SideOf(keys)
  /\ run' = IF side' = 0 THEN 0
            ELSE IF side' # side THEN 1
            ELSE IF run < DasTicks + 2 THEN run + 1 ELSE run

ANext == \E keys \in Keystates : Step(keys)
ASpec == AInit /\ [][ANext]_<<ctl, input, hist>>

-----------------------------------------------------------------------------
\* The FSControl keeps its shape, and once settled nothing is left of what the
\* uninitialised memory held (main.c:265).
ControlTypeOK ==
  /\ ctl \in [lastKeys : SUBSET VirtualKey, currentKeys : SUBSET VirtualKey, dasCounter : Int]
  /\ input \in [movement : -FieldWidth..FieldWidth, rotation : {-1, 0, 1, 2}, gravity : -128..127,
                extra : SUBSET {"finesse", "harddrop", "hold", "restart", "quit"},
                keys : SUBSET Watched]
  /\ armed \subseteq VirtualKey /\ settled \in BOOLEAN
  /\ side \in {-1, 0, 1} /\ run \in Nat

\* Once settled, a press of hold, hard drop, restart or quit acts in the tick it
\* is first seen and never again until the key has been up, whatever other keys
\* come and go meanwhile (control.c:37-44, 107-125).
EveryPressActsOnce ==
  [][settled => Acting(input') = armed \cap ctl'.lastKeys \cap {"up", "hold", "restart", "quit"}]_<<ctl, input, hist>>

\* The movements a direction may make in the tick in which it has been held for
\* run' ticks: a block in the first, none while the delay lasts, one when the
\* delay is over, and never the other way.  With a speed of 0 it is at the wall
\* when the delay is over, and stays there.
Wall(s) == IF DasSpeed = 0 THEN s * FieldWidth ELSE s
Movements ==
  IF side' = 0 THEN {0}
  ELSE IF run' <= DasTicks THEN {IF run' = 1 THEN side' ELSE 0}
  ELSE IF run' = DasTicks + 1 \/ DasSpeed = 0 THEN {Wall(side')}
  ELSE {0, side'}

\* Auto-repeat, where docs and code agree: for a delay that is a whole number of
\* ticks, and whatever a speed other than 0 means.  Changing direction without a
\* pause starts over with a block and the whole delay, though dasCounter is not
\* reset and left and right are two copies of the code (control.c:42-87).
Schedule ==
  [][settled => input'.movement \in Movements]_<<ctl, input, hist>>

-----------------------------------------------------------------------------
\* "How many blocks a piece moves per ms", "Number of ms a key must be held
\* before repeated movement" (engine.h:240-244, fs.ini:7-8, 71-76).
RepeatsAsDocumented ==
  [][(settled /\ run' > 1 /\ input'.movement # 0) =>
       LET blocks == IF DasSpeed = 0 THEN FieldWidth ELSE DasSpeed * MsPerTick IN
       /\ (run' - 1) * MsPerTick >= DasDelay
       /\ input'.movement = side' * (IF blocks < FieldWidth THEN blocks ELSE FieldWidth)
    ]_<<ctl, input, hist>>
=============================================================================
