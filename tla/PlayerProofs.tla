---------------------------- MODULE PlayerProofs ----------------------------
(***************************************************************************)
(* Proofs about the keys.  First Control alone, under any game: AutoRepeat *)
(* holds for every delay, speed, field and set of keys.  Then a player at  *)
(* the keys: Player implements the specifications that Engine and          *)
(* AutoRepeat were proved about, and a key that stays down does not act on *)
(* the next piece.                                                         *)
(***************************************************************************)
EXTENDS Player, EngineProofs

-----------------------------------------------------------------------------
\* Control and AutoRepeat.

avars == <<ctl, input, hist>>

\* The keys that act once per press.
OneShot == {"up", "hold", "restart", "quit"}

\* How far dasCounter has counted, for a direction held for run ticks.
Charged ==
  IF side = 0 THEN ctl.dasCounter = 0 /\ run = 0
  ELSE IF run <= DasTicks
       THEN run >= 1 /\ side * ctl.dasCounter = run
       ELSE /\ side * ctl.dasCounter \in 0..DasTicks
            /\ DasSpeed = 0 => side * ctl.dasCounter = DasTicks

\* A repeat never takes dasCounter back beyond 0 (control.c:56, 77).
Regular == DasSpeed <= DasTicks + 1

CInv ==
  /\ ControlTypeOK /\ Keystates \subseteq SUBSET VirtualKey
  /\ settled => /\ ctl.currentKeys = {}
                /\ \A k \in OneShot : k \in armed <=> k \notin ctl.lastKeys
                /\ side = SideOf(ctl.lastKeys)
                /\ Regular => Charged

LEMMA DasTicksNat == DasTicks \in Nat
  BY DasAssumption DEF DasTicks

LEMMA I8Range == \A n \in Nat : AsI8(n) \in -128..127
  BY DEF AsI8

\* What a single conversion may return.
LEMMA InputTyped ==
  ASSUME ctl \in [lastKeys : SUBSET VirtualKey, currentKeys : SUBSET VirtualKey, dasCounter : Int],
         NEW keys \in SUBSET VirtualKey
  PROVE  /\ InputOf(ctl, keys) \in
              [movement : -FieldWidth..FieldWidth, rotation : {-1, 0, 1, 2}, gravity : -128..127,
               extra : SUBSET {"finesse", "harddrop", "hold", "restart", "quit"},
               keys : SUBSET Watched]
         /\ After(ctl, keys) \in
              [lastKeys : SUBSET VirtualKey, currentKeys : SUBSET VirtualKey, dasCounter : Int]
<1> DEFINE live == Live(ctl, keys)
           new == New(ctl, keys)
<1>1. SideOf(live) \in {-1, 0, 1}
  BY DEF SideOf
<1>2. \A s \in {-1, 0, 1} :
         /\ Shift(ctl.dasCounter, s).movement \in -FieldWidth..FieldWidth
         /\ Shift(ctl.dasCounter, s).das \in Int
  BY DasTicksNat, DasAssumption, ControlFieldAssumption DEF Shift, Charge, Repeat
<1>3. RotationOf(new) \in {-1, 0, 1, 2}
  BY DEF RotationOf
<1>4. DropRows(live, new) \in -128..127
  BY I8Range, ControlFieldAssumption DEF DropRows
<1>5. Extra(new) \in SUBSET {"finesse", "harddrop", "hold", "restart", "quit"}
  BY DEF Extra
<1>6. live \cap Watched \in SUBSET Watched
  OBVIOUS
<1>7. InputOf(ctl, keys).movement \in -FieldWidth..FieldWidth
  BY <1>1, <1>2 DEF InputOf
<1>8. Shift(ctl.dasCounter, SideOf(live)).das \in Int
  BY <1>1, <1>2
<1> QED
  BY <1>1, <1>2, <1>3, <1>4, <1>5, <1>6, <1>8 DEF InputOf, After

\* Which one-shot keys act: exactly the new ones.
LEMMA ActingIsNew ==
  ASSUME NEW c, NEW keys
  PROVE  Acting(InputOf(c, keys)) = New(c, keys) \cap OneShot
<1>1. InputOf(c, keys).extra = Extra(New(c, keys))
  BY DEF InputOf
<1> QED
  BY <1>1 DEF Acting, Extra, OneShot

\* The first state.
LEMMA InitInv == AInit => CInv
<1> SUFFICES ASSUME AInit PROVE CInv
  OBVIOUS
<1>1. ControlTypeOK
  BY KeyAssumption, ControlFieldAssumption DEF AInit, ControlInit, ControlTypeOK, NoInput
<1>2. settled => /\ ctl.currentKeys = {} /\ ctl.lastKeys = {} /\ ctl.dasCounter = 0
  <2>1. settled => ctl = Clean
    BY Zenon DEF AInit
  <2> QED
    BY <2>1 DEF Clean
<1>3. armed = VirtualKey /\ side = 0 /\ run = 0
  BY DEF AInit
<1>4. OneShot \subseteq VirtualKey
  BY DEF OneShot, VirtualKey
<1> QED
  BY <1>1, <1>2, <1>3, <1>4, KeyAssumption DEF CInv, Charged, SideOf

\* dasCounter follows the history, and the movement is one the schedule allows,
\* in one step from a settled state.
LEMMA ShiftStep ==
  ASSUME CInv, NEW keys \in SUBSET VirtualKey, Step(keys), Regular, settled
  PROVE  Charged' /\ input'.movement \in Movements
<1> DEFINE das == ctl.dasCounter
           s == SideOf(keys)
           moved == Shift(das, s)
<1>1. Live(ctl, keys) = keys
  BY DEF CInv, Live
<1>2. input'.movement = moved.movement /\ ctl'.dasCounter = moved.das
  BY <1>1 DEF Step, Convert, InputOf, After
<1>3. /\ das \in Int /\ side \in {-1, 0, 1} /\ run \in Nat
      /\ side' = s /\ s \in {-1, 0, 1}
      /\ DasTicks \in Nat /\ DasSpeed \in Nat /\ FieldWidth \in Nat \ {0}
  BY DasTicksNat, DasAssumption, ControlFieldAssumption DEF CInv, ControlTypeOK, Step, SideOf
<1>4. run' = IF s = 0 THEN 0 ELSE IF s # side THEN 1
             ELSE IF run < DasTicks + 2 THEN run + 1 ELSE run
  BY <1>3 DEF Step
<1>5. Charged
  BY DEF CInv
<1>6. ASSUME s # 0, ~(s * das < DasTicks)
      PROVE  /\ moved.das = IF DasSpeed = 0 THEN das ELSE das - s * (DasSpeed - 1)
             /\ moved.movement = Wall(s)
  BY <1>3, <1>6 DEF Shift, Repeat, Wall
<1>7. CASE s = 0
  <2>1. moved.das = 0 /\ moved.movement = 0
    BY <1>7 DEF Shift
  <2> QED
    BY <2>1, <1>2, <1>3, <1>4, <1>7 DEF Charged, Movements
<1>8. CASE s # 0 /\ s # side
  <2>1. s * das <= 0 /\ run' = 1
    BY <1>3, <1>4, <1>5, <1>8 DEF Charged
  <2>2. CASE DasTicks > 0
    <3>1. moved.das = s /\ moved.movement = s
      BY <2>1, <2>2, <1>3, <1>8 DEF Shift, Charge
    <3> QED
      BY <3>1, <2>1, <2>2, <1>2, <1>3, <1>8 DEF Charged, Movements
  <2>3. CASE DasTicks = 0
    <3>1. das = 0
      BY <2>3, <1>3, <1>5, <1>8 DEF Charged
    <3>2. moved.das = 0 /\ moved.movement = Wall(s)
      BY <3>1, <2>3, <1>3, <1>6, <1>8 DEF Regular
    <3> QED
      BY <3>2, <2>1, <2>3, <1>2, <1>3, <1>8 DEF Charged, Movements
  <2> QED
    BY <2>2, <2>3, <1>3
<1>9. CASE s # 0 /\ s = side
  <2>1. run >= 1
    BY <1>3, <1>5, <1>9 DEF Charged
  <2>2. CASE run < DasTicks
    <3>1. s * das = run
      BY <2>2, <1>3, <1>5, <1>9 DEF Charged
    <3>2. moved.das = das + s /\ moved.movement = 0
      BY <3>1, <2>1, <2>2, <1>3, <1>9 DEF Shift, Charge
    <3>3. run' = run + 1 /\ s * (das + s) = run + 1
      BY <3>1, <2>2, <1>3, <1>4, <1>9
    <3>4. Charged'
      BY <3>2, <3>3, <2>1, <2>2, <1>2, <1>3, <1>9 DEF Charged
    <3> QED
      BY <3>2, <3>3, <3>4, <2>1, <2>2, <1>2, <1>3, <1>9 DEF Movements
  <2>3. CASE run >= DasTicks
    <3>1. run' > DasTicks /\ run' \in Nat /\ (run' = DasTicks + 1 => run = DasTicks)
      BY <2>3, <1>3, <1>4, <1>9
    <3>2. s * das \in 0..DasTicks /\ (run = DasTicks \/ DasSpeed = 0 => s * das = DasTicks)
      BY <2>1, <2>3, <1>3, <1>5, <1>9 DEF Charged
    <3>3. CASE s * das = DasTicks
      <4>1. /\ moved.das = IF DasSpeed = 0 THEN das ELSE das - s * (DasSpeed - 1)
            /\ moved.movement = Wall(s)
        BY <3>3, <1>3, <1>6, <1>9
      <4>2. s * (das - s * (DasSpeed - 1)) = DasTicks + 1 - DasSpeed
        BY <3>3, <1>3, <1>9
      <4>3. DasSpeed # 0 => DasTicks + 1 - DasSpeed \in 0..DasTicks
        BY <1>3 DEF Regular
      <4>4. Charged'
        BY <4>1, <4>2, <4>3, <3>1, <3>3, <1>2, <1>3, <1>9 DEF Charged
      <4>5. moved.movement \in Movements
        BY <4>1, <3>1, <1>3, <1>9 DEF Movements, Wall
      <4> QED
        BY <4>4, <4>5, <1>2
    <3>4. CASE s * das # DasTicks
      <4>1. s * das < DasTicks /\ run' # DasTicks + 1 /\ DasSpeed # 0
        BY <3>1, <3>2, <3>4, <1>3
      <4>2. \/ moved.das = s /\ moved.movement = s
            \/ moved.das = das + s /\ moved.movement = 0
        BY <4>1, <1>3, <1>9 DEF Shift, Charge
      <4>3. s * moved.das \in 0..DasTicks
        BY <4>1, <4>2, <3>2, <1>3, <1>9
      <4>4. Charged'
        BY <4>1, <4>3, <3>1, <1>2, <1>3, <1>9 DEF Charged
      <4>5. moved.movement \in Movements
        BY <4>1, <4>2, <3>1, <1>3, <1>9 DEF Movements
      <4> QED
        BY <4>4, <4>5, <1>2
    <3> QED
      BY <3>3, <3>4
  <2> QED
    BY <2>2, <2>3, <1>3
<1> QED
  BY <1>7, <1>8, <1>9, <1>3

\* The presses that act in one step from a settled state.
LEMMA PressStep ==
  ASSUME CInv, NEW keys \in SUBSET VirtualKey, Step(keys), settled
  PROVE  /\ Acting(input') = armed \cap ctl'.lastKeys \cap OneShot
         /\ \A k \in OneShot : k \in armed' <=> k \notin ctl'.lastKeys
<1>1. input' = InputOf(ctl, keys) /\ ctl'.lastKeys = keys
  BY DEF Step, Convert, After
<1>2. Acting(input') = New(ctl, keys) \cap OneShot
  BY <1>1, ActingIsNew
<1>3. New(ctl, keys) \cap OneShot = (keys \ ctl.lastKeys) \cap OneShot
  BY DEF CInv, New
<1>4. \A k \in OneShot : k \in armed <=> k \notin ctl.lastKeys
  BY DEF CInv
<1>5. armed' = (armed \ Acting(input')) \cup (VirtualKey \ keys)
  BY DEF Step
<1>6. OneShot \subseteq VirtualKey
  BY DEF OneShot, VirtualKey
<1>7. (keys \ ctl.lastKeys) \cap OneShot = armed \cap keys \cap OneShot
  BY <1>4
<1>8. \A k \in OneShot : k \in armed' <=> k \notin keys
  BY <1>2, <1>3, <1>4, <1>5, <1>6
<1> QED
  BY <1>1, <1>2, <1>3, <1>7, <1>8

\* A tick without keys settles everything.
LEMMA SettleStep ==
  ASSUME CInv, NEW keys \in SUBSET VirtualKey, Step(keys), ~settled, settled'
  PROVE  /\ ctl'.currentKeys = {} /\ ctl'.lastKeys = {} /\ side' = 0
         /\ \A k \in OneShot : k \in armed' <=> k \notin ctl'.lastKeys
         /\ Charged'
<1>1. keys = {}
  BY DEF Step
<1>2. ctl' = After(ctl, {}) /\ side' = SideOf({}) /\ armed' = (armed \ Acting(input')) \cup VirtualKey
  BY <1>1 DEF Step, Convert
<1>3. SideOf({}) = 0 /\ Live(ctl, {}) = {}
  BY DEF SideOf, Live
<1>4. Shift(ctl.dasCounter, 0).das = 0
  BY DEF Shift
<1>5. ctl'.currentKeys = {} /\ ctl'.lastKeys = {} /\ ctl'.dasCounter = 0
  BY <1>2, <1>3, <1>4 DEF After
<1>6. side' = 0 /\ run' = 0
  BY <1>2, <1>3 DEF Step
<1>7. OneShot \subseteq VirtualKey
  BY DEF OneShot, VirtualKey
<1> QED
  BY <1>2, <1>5, <1>6, <1>7 DEF Charged

LEMMA StepInv ==
  ASSUME CInv, NEW keys \in Keystates, Step(keys)
  PROVE  CInv'
<1>1. keys \in SUBSET VirtualKey
  BY KeyAssumption
<1>2. ControlTypeOK'
  <2>1. /\ ctl' = After(ctl, keys) /\ input' = InputOf(ctl, keys)
    BY DEF Step, Convert
  <2>2. ctl \in [lastKeys : SUBSET VirtualKey, currentKeys : SUBSET VirtualKey, dasCounter : Int]
    BY DEF CInv, ControlTypeOK
  <2>3. /\ armed' \subseteq VirtualKey /\ settled' \in BOOLEAN
    BY DEF Step, CInv, ControlTypeOK
  <2>4. side' \in {-1, 0, 1}
    BY DEF Step, SideOf
  <2>5. run' \in Nat
    BY DasTicksNat, DasAssumption DEF Step, CInv, ControlTypeOK
  <2>6. /\ ctl' \in [lastKeys : SUBSET VirtualKey, currentKeys : SUBSET VirtualKey, dasCounter : Int]
        /\ input' \in
              [movement : -FieldWidth..FieldWidth, rotation : {-1, 0, 1, 2}, gravity : -128..127,
               extra : SUBSET {"finesse", "harddrop", "hold", "restart", "quit"},
               keys : SUBSET Watched]
    BY <2>1, <2>2, <1>1, InputTyped
  <2> QED
    BY <2>3, <2>4, <2>5, <2>6 DEF ControlTypeOK
<1>3. ctl'.lastKeys = keys /\ side' = SideOf(keys)
  BY DEF Step, Convert, After
<1>4. CASE settled
  <2>1. ctl'.currentKeys = {}
    BY <1>4 DEF Step, Convert, After, CInv
  <2>2. Regular => Charged'
    BY <1>1, <1>4, ShiftStep
  <2> QED
    BY <1>1, <1>2, <1>3, <1>4, <2>1, <2>2, PressStep, KeyAssumption DEF CInv, Regular
<1>5. CASE ~settled /\ settled'
  <2>1. side' = SideOf(ctl'.lastKeys)
    BY <1>3
  <2> QED
    BY <1>1, <1>2, <1>5, <2>1, SettleStep, KeyAssumption DEF CInv, Regular
<1>6. CASE ~settled'
  BY <1>2, <1>6, KeyAssumption DEF CInv
<1> QED
  BY <1>4, <1>5, <1>6 DEF CInv, ControlTypeOK

\* The inductive invariant holds.
THEOREM ControlInvariance == ASpec => []CInv
<1>1. CInv /\ UNCHANGED avars => CInv'
  BY DEF CInv, avars, hist, ControlTypeOK, Charged, SideOf, Regular
<1>2. CInv /\ [ANext]_avars => CInv'
  BY <1>1, StepInv DEF ANext
<1> QED
  BY <1>2, InitInv, PTL DEF ASpec, avars

\* Every press of a one-shot key acts once: EveryPressActsOnce (control.c:37-44).
THEOREM PressesActOnce == ASpec => EveryPressActsOnce
<1>1. CInv /\ [ANext]_avars => [settled =>
        Acting(input') = armed \cap ctl'.lastKeys \cap {"up", "hold", "restart", "quit"}]_avars
  <2> SUFFICES ASSUME CInv, NEW keys \in Keystates, Step(keys), settled
               PROVE Acting(input') = armed \cap ctl'.lastKeys \cap {"up", "hold", "restart", "quit"}
    BY DEF ANext
  <2> QED
    BY PressStep, KeyAssumption DEF OneShot
<1> QED
  BY <1>1, ControlInvariance, PTL DEF ASpec, EveryPressActsOnce, avars

\* A held direction moves at once, waits for the whole delay, then moves and never
\* goes the other way: Schedule, for every delay and every speed that is at most
\* a tick longer than the delay (control.c:42-87).
THEOREM ScheduleKept ==
  ASSUME Regular
  PROVE  ASpec => Schedule
<1>1. CInv /\ [ANext]_avars => [settled => input'.movement \in Movements]_avars
  <2> SUFFICES ASSUME CInv, NEW keys \in Keystates, Step(keys), settled
               PROVE input'.movement \in Movements
    BY DEF ANext
  <2> QED
    BY ShiftStep, KeyAssumption
<1> QED
  BY <1>1, ControlInvariance, PTL DEF ASpec, Schedule, avars

-----------------------------------------------------------------------------
\* Player.

\* Every tick leaves Control's history to AutoRepeat's step.
LEMMA PlayerSteps == [PNext]_pvars => [ANext]_<<ctl, input, hist>>
BY DEF PNext, GameTick, Again, ANext, pvars

\* Whatever the game does to the keys' meaning, AutoRepeat's results hold
\* (control.c knows nothing of the engine).
LEMMA PlayerControls == PSpec => ASpec
<1>1. PInit => AInit
  BY DEF PInit
<1> QED
  BY <1>1, PlayerSteps, PTL DEF PSpec, ASpec

\* FSInput.gravity is an i8 (control.c:115-119), and fields have fewer than 25
\* rows (engine.h:171, config.h:20).
Narrow == Height <= 127 /\ SoftDropRows <= 127

LEMMA HardDropCrosses ==
  ASSUME Narrow
  PROVE  AsI8(FieldHeight) = Height /\ Height \in Nat
BY SameField, FieldAssumption DEF AsI8, Narrow

\* A tick's input fits the engine.
FitsEngine(in) == in \in Input /\ ("harddrop" \in in.extra => in.gravity >= Height)

\* The gravity Control gives is the rows of a drop.
LEMMA KeysMakeInput ==
  ASSUME Narrow, NEW c, NEW keys,
         InputOf(c, keys) \in [movement : -FieldWidth..FieldWidth, rotation : {-1, 0, 1, 2},
                gravity : -128..127,
                extra : SUBSET {"finesse", "harddrop", "hold", "restart", "quit"},
                keys : SUBSET Watched]
  PROVE  FitsEngine(InputOf(c, keys))
<1> DEFINE in == InputOf(c, keys)
<1>1. in.gravity = DropRows(Live(c, keys), New(c, keys)) /\ in.extra = Extra(New(c, keys))
  BY DEF InputOf
<1>2. AsI8(SoftDropRows) \in Nat
  BY ControlFieldAssumption DEF AsI8, Narrow
<1>3. in.gravity \in Nat
  BY <1>1, <1>2, HardDropCrosses DEF DropRows
<1>4. "harddrop" \in in.extra => in.gravity = Height
  BY <1>1, HardDropCrosses DEF DropRows, Extra
<1> HIDE DEF in
<1>5. in.movement \in Int /\ in.rotation \in {0} \cup Direction
  BY ControlFieldAssumption DEF in, Direction, Clockwise, Anticlockwise, Halfturn
<1>6. in.extra \subseteq Flag /\ in.keys \subseteq Key
  BY DEF in, Flag, Key, Watched
<1>7. in = [movement |-> in.movement, rotation |-> in.rotation, gravity |-> in.gravity,
            extra |-> in.extra, keys |-> in.keys]
  BY DEF in
<1>8. in \in Input
  BY <1>3, <1>5, <1>6, <1>7 DEF Input
<1> QED
  BY <1>3, <1>4, <1>8, HardDropCrosses DEF FitsEngine, in

LEMMA StepFits ==
  ASSUME Narrow, CInv, NEW keys \in Keystates, Step(keys)
  PROVE  FitsEngine(input')
<1>1. input' = InputOf(ctl, keys) /\ keys \in SUBSET VirtualKey
  BY KeyAssumption DEF Step, Convert
<1> QED
  BY <1>1, InputTyped, KeysMakeInput DEF CInv, ControlTypeOK

-----------------------------------------------------------------------------
\* The player plays the engine.

\* Engine may be given whatever it assumes it can be given.
AllInputs == \A in \in Input : FitsEngine(in) => in \in Inputs

\* Every input control.c makes is one the engine assumes: a drop falls at least
\* the height of the field, also after its conversion to eight bits
\* (control.c:115-119, engine.c:509).
THEOREM PlayerInputsFit ==
  ASSUME Narrow
  PROVE  PSpec => []InputsFit
<1>1. PInit => FitsEngine(input)
  BY DEF PInit, AInit, ControlInit, NoInput, FitsEngine, Input
<1>2. CInv /\ FitsEngine(input) /\ [PNext]_pvars => FitsEngine(input)'
  <2>1. CASE UNCHANGED input
    BY <2>1 DEF FitsEngine
  <2>2. ASSUME CInv, NEW keys \in Keystates, GameTick(keys) PROVE FitsEngine(input)'
    BY <2>2, StepFits DEF GameTick, FitsEngine
  <2> QED
    BY <2>1, <2>2 DEF PNext, Again, pvars
<1>3. FitsEngine(input) => InputsFit
  BY DEF FitsEngine, InputsFit
<1> QED
  BY <1>1, <1>2, <1>3, PlayerControls, ControlInvariance, PTL DEF PSpec

\* A player at the keys plays the engine of Engine, with all that is proved about
\* it (updateGameLogic, main.c:33-53).
THEOREM PlayerPlaysEngine ==
  ASSUME Narrow, AllInputs
  PROVE  PSpec => Spec
<1>1. PInit => Init
  BY DEF PInit
<1>2. CInv /\ [PNext]_pvars => [Next]_vars
  <2>1. CASE UNCHANGED pvars
    BY <2>1 DEF pvars
  <2>2. CASE Again
    BY <2>2 DEF Again, Next
  <2>3. ASSUME CInv, NEW keys \in Keystates, GameTick(keys) PROVE Next
    <3>1. FitsEngine(input')
      BY <2>3, StepFits DEF GameTick
    <3>2. input' \in Inputs
      BY <3>1 DEF AllInputs, FitsEngine
    <3> QED
      BY <2>3, <3>2 DEF GameTick, Next, Tick
  <2> QED
    BY <2>1, <2>2, <2>3 DEF PNext
<1> QED
  BY <1>1, <1>2, PlayerControls, ControlInvariance, PTL DEF PSpec, Spec

-----------------------------------------------------------------------------
\* One press.

\* A key that has acted and was not released is down.
Remembered == (dropped => "up" \in ctl.lastKeys) /\ (held => "hold" \in ctl.lastKeys)

LEMMA RememberedStep == Remembered /\ [PNext]_pvars => Remembered'
<1> SUFFICES ASSUME Remembered, [PNext]_pvars PROVE Remembered'
  OBVIOUS
<1>1. CASE UNCHANGED <<ctl, dropped, held>>
  BY <1>1 DEF Remembered
<1>2. ASSUME NEW keys \in Keystates, GameTick(keys) PROVE Remembered'
  BY <1>2 DEF GameTick, Step, Convert, After, Remembered
<1> QED
  BY <1>1, <1>2 DEF PNext, Again, pvars

LEMMA RememberedAlways == PSpec => []Remembered
<1>1. PInit => Remembered
  BY DEF PInit, Remembered
<1> QED
  BY <1>1, RememberedStep, PTL DEF PSpec

\* An input asks for a drop or a hold only in the tick its key goes down.
LEMMA FlagsAreNew ==
  ASSUME NEW keys, Step(keys)
  PROVE  /\ "harddrop" \in input'.extra => "up" \notin ctl.lastKeys
         /\ "hold" \in input'.extra => "hold" \notin ctl.lastKeys
BY DEF Step, Convert, InputOf, Extra, New

\* However long the key is down, whatever is dealt meanwhile and in whichever
\* game, one press of hard drop drops one piece (control.c:37-44, engine.c:675).
THEOREM OneDrop == PSpec => OneDropPerPress
<1>1. Remembered /\ [PNext]_pvars => [Drops => ~dropped]_pvars
  <2>1. ASSUME Remembered, NEW keys \in Keystates, GameTick(keys), Drops PROVE ~dropped
    BY <2>1, FlagsAreNew DEF GameTick, Remembered, Drops
  <2>2. ASSUME Again PROVE ~Drops
    BY <2>2 DEF Again, GameReset, Drops, Active, Finished
  <2> QED
    BY <2>1, <2>2 DEF PNext
<1> QED
  BY <1>1, RememberedAlways, PTL DEF PSpec, OneDropPerPress

-----------------------------------------------------------------------------
\* One press of hold.

\* A dealt piece leaves the hold slot alone, unless an initial hold was recorded.
LEMMA SpawnKeepsHold ==
  ASSUME NEW fld, NEW g \in Play, NEW irs \in {0} \cup Direction, NEW placed,
         Spawn(fld, g, irs, FALSE, placed)
  PROVE  play'.holdPiece = g.holdPiece
<1>1. PICK r1 \in Pieces, r2 \in Pieces : Enter(fld, Spawned(fld, g, irs, FALSE, r1, r2))
  BY DEF Spawn
<1> DEFINE s == Spawned(fld, g, irs, FALSE, r1, r2)
<1>2. s \in Play
  BY SpawnedInField DEF InField
<1>3. s = Rotated(fld, newPiece(g, r1), irs)
  BY DEF Spawned
<1>4. Rotated(fld, newPiece(g, r1), irs).holdPiece = newPiece(g, r1).holdPiece
  <2> DEFINE n == newPiece(g, r1)
  <2> HIDE DEF n
  <2>1. SameHold(n, Rotated(fld, n, irs))
    BY RotatedHold
  <2> QED
    BY <2>1 DEF SameHold, n
<1>5. s.holdPiece = g.holdPiece
  BY <1>3, <1>4 DEF newPiece
<1>6. play' = s \/ play' = updateHardDropY(fld, s)
  BY <1>1 DEF Enter
<1> HIDE DEF s
<1> QED
  BY <1>2, <1>5, <1>6, AimedHold DEF SameHold

LEMMA AreKeepsHold ==
  ASSUME TypeOK, ~PersistentAction, ihsFlag = FALSE, NEW i \in Inputs, NEW fld,
         NEW g \in Play, NEW placed, Are(i, fld, g, placed)
  PROVE  play'.holdPiece = g.holdPiece /\ ihsFlag' = FALSE
<1>1. \/ Spawn(fld, g, irsAmount, FALSE, placed)
      \/ play' = g /\ ihsFlag' = FALSE
  BY DEF Are
<1>2. irsAmount \in {0} \cup Direction
  BY DEF TypeOK
<1>3. CASE Spawn(fld, g, irsAmount, FALSE, placed)
  <2>1. ihsFlag' = FALSE
    BY <1>3 DEF Spawn
  <2> QED
    BY <2>1, <1>2, <1>3, SpawnKeepsHold
<1> QED
  BY <1>1, <1>3

\* Without initial actions only an input that asks for a hold changes the slot.
LEMMA TickHolds ==
  ASSUME IInv, ~PersistentAction, ihsFlag = FALSE, NEW i \in Inputs,
         \/ TickAbandon(i) \/ TickReadyGo(i) \/ TickAre(i) \/ TickNewPiece(i)
         \/ TickLock(i) \/ TickMove(i) \/ TickLines(i)
  PROVE  ihsFlag' = FALSE /\ ("hold" \notin i.extra => play'.holdPiece = play.holdPiece)
<1> USE DEF IInv
<1>1. CASE TickAbandon(i)
  BY <1>1 DEF TickAbandon
<1>2. CASE TickReadyGo(i)
  BY <1>2 DEF TickReadyGo
<1>3. CASE TickAre(i)
  <2>1. play \in Play /\ Are(i, field, play, blocksPlaced)
    BY <1>3 DEF TickAre, TypeOK
  <2> QED
    BY <2>1, AreKeepsHold
<1>4. CASE TickNewPiece(i)
  <2>1. /\ play \in Play /\ irsAmount \in {0} \cup Direction
        /\ Spawn(field, play, irsAmount, FALSE, blocksPlaced)
    BY <1>4 DEF TickNewPiece, TypeOK
  <2>2. ihsFlag' = FALSE
    BY <2>1 DEF Spawn
  <2> QED
    BY <2>1, <2>2, SpawnKeepsHold
<1>5. CASE TickLock(i)
  <2>1. play \in Play /\ play' = Fallen(play, i.gravity) /\ ihsFlag' = ihsFlag
    BY <1>5 DEF TickLock, TypeOK
  <2> QED
    BY <2>1, FallenHold DEF SameHold
<1>6. CASE TickMove(i)
  <2>1. SameHold(play, play') \/ "hold" \in i.extra
    BY <1>6, MoveParts
  <2>2. ihsFlag' = ihsFlag
    BY <1>6 DEF TickMove
  <2> QED
    BY <2>1, <2>2 DEF SameHold
<1>7. CASE TickLines(i)
  <2> DEFINE g == [play EXCEPT !.piece = None]
  <2>1. g \in Play /\ g.holdPiece = play.holdPiece
    BY DEF TypeOK, Play
  <2>2. \/ \E fld, placed : Are(i, fld, g, placed)
        \/ play' = g /\ ihsFlag' = ihsFlag
    BY <1>7 DEF TickLines
  <2> HIDE DEF g
  <2> QED
    BY <2>1, <2>2, AreKeepsHold
<1> QED
  BY <1>1, <1>2, <1>3, <1>4, <1>5, <1>6, <1>7

\* Without initial actions one press of hold holds one piece, whatever is dealt
\* while the key is down, also in the countdown of the next game
\* (control.c:37-44, engine.c:468-500, 543-551).
THEOREM OneHold ==
  ASSUME Narrow, AllInputs, ~PersistentAction
  PROVE  PSpec => OneHoldPerPress
<1>1. PInit => ihsFlag = FALSE
  BY DEF PInit, Init
<1>2. /\ IInv /\ CInv /\ Remembered /\ ihsFlag = FALSE /\ [PNext]_pvars
      => (ihsFlag = FALSE)' /\ [(Holds /\ state \notin Finished) => ~held]_pvars
  <2> SUFFICES ASSUME IInv, CInv, Remembered, ihsFlag = FALSE, [PNext]_pvars
               PROVE  ihsFlag' = FALSE /\ [(Holds /\ state \notin Finished) => ~held]_pvars
    OBVIOUS
  <2>1. CASE UNCHANGED pvars
    BY <2>1 DEF pvars, vars
  <2>2. CASE Again
    BY <2>2 DEF Again, GameReset
  <2>3. ASSUME NEW keys \in Keystates, GameTick(keys)
        PROVE  ihsFlag' = FALSE /\ (Holds => ~held)
    <3>1. input' \in Inputs
      BY <2>3, StepFits DEF GameTick, AllInputs, FitsEngine
    <3>2. ihsFlag' = FALSE /\ ("hold" \notin input'.extra => play'.holdPiece = play.holdPiece)
      BY <2>3, <3>1, TickHolds DEF GameTick
    <3>3. Step(keys)
      BY <2>3 DEF GameTick
    <3> QED
      BY <3>2, <3>3, FlagsAreNew DEF Holds, Remembered
  <2> QED
    BY <2>1, <2>2, <2>3 DEF PNext
<1>3. PSpec => [](IInv /\ CInv /\ Remembered)
  BY PlayerPlaysEngine, Invariance, PlayerControls, ControlInvariance, RememberedAlways, PTL
<1> QED
  BY <1>1, <1>2, <1>3, PTL DEF PSpec, OneHoldPerPress
=============================================================================
