-------------------------- MODULE RefinementProofs --------------------------
(***************************************************************************)
(* Proofs that Engine implements Stack under the mapping of                *)
(* EngineRefinement, and of the properties that come with it.              *)
(***************************************************************************)
EXTENDS EngineRefinement, EngineProofs

Facts == INSTANCE StackProofs WITH
  phase <- Phase, board <- field, piece <- IF InPlay THEN Blocks ELSE {},
  lines <- linesCleared, placed <- blocksPlaced, MaxCells <- 4

\* The cells of the piece in play, as Stack sees them.
Shown == IF InPlay THEN Blocks ELSE {}

LEMMA BoardFits ==
  Width \in Nat \ {0} /\ Height \in Nat \ {0} /\ Goal \in Nat /\ 4 \in Nat
  BY FieldAssumption, TimingAssumption

\* Counting cells is the same in the modules instantiated.
LEMMA SameCounting ==
  /\ \A S : Game!Cardinality(S) = Cardinality(S)
  /\ \A S : Game!IsFiniteSet(S) = IsFiniteSet(S)
  /\ \A S : Facts!Cardinality(S) = Cardinality(S)
<1>1. \A S : Game!Cardinality(S) = Cardinality(S)
  BY Zenon DEF Game!Cardinality, Cardinality
<1>2. \A S : Game!IsFiniteSet(S) = IsFiniteSet(S)
  BY Zenon DEF Game!IsFiniteSet, IsFiniteSet
<1>3. \A S : Facts!Cardinality(S) = Cardinality(S)
  BY Zenon DEF Facts!Cardinality, Cardinality
<1> QED
  BY <1>1, <1>2, <1>3

\* The names of states are different, and every state has one phase.
LEMMA PhaseOf ==
  /\ state \in Active   => Phase = "playing"
  /\ state = "LINES"    => Phase = "resting"
  /\ state \in Finished => Phase = "over"
  /\ state \in {"READY", "GO", "NEW_PIECE", "ARE"} => Phase = "waiting"
  BY DEF Phase, Active, Finished

\* A piece inside the field is a piece of the game.
LEMMA PieceCells ==
  ASSUME NEW g, InField(g)
  PROVE  BlocksOf(g.piece, g.x, g.y, g.theta) \in Game!Piece
<1> DEFINE shape == ShapeOf[g.piece][g.theta]
           cells == BlocksOf(g.piece, g.x, g.y, g.theta)
           f == [b \in shape |-> <<g.x + b[1], g.y + b[2]>>]
<1>1. g.piece \in Pieces /\ g.theta \in Theta /\ cells \subseteq Cell
  BY DEF InField, Play, At
<1>2. IsFiniteSet(shape) /\ Cardinality(shape) <= 4 /\ shape # {}
  BY <1>1, FourCells, PieceAssumption
<1>3. f \in Surjection(shape, cells)
  BY DEF Surjection, BlocksOf
<1> HIDE DEF shape, f
<1>4. IsFiniteSet(cells) /\ Cardinality(cells) <= Cardinality(shape)
  BY <1>2, <1>3, FS_Surjection
<1>5. Cardinality(cells) <= 4
  BY <1>2, <1>4, FS_CardinalityType
<1>6. cells # {}
  BY <1>2 DEF BlocksOf, shape
<1>7. Game!Cell = Cell
  BY DEF Cell, Game!Cell
<1> HIDE DEF cells
<1>8. cells \in Game!Piece
  BY <1>1, <1>4, <1>5, <1>6, <1>7, SameCounting DEF Game!Piece
<1> QED
  BY <1>8 DEF cells

\* A new piece enters where there is room on the field fld.
LEMMA SpawnProceeds ==
  ASSUME NEW fld, fld \subseteq Cell, NEW g \in Play, NEW irs \in {0} \cup Direction,
         NEW ihs \in BOOLEAN, NEW placed, Spawn(fld, g, irs, ihs, placed)
  PROVE  /\ Game!Proceed(fld)
         /\ state' \in Active => ~isCollision(fld, play', play'.x, play'.y, play'.theta)
<1>1. PICK r1 \in Pieces, r2 \in Pieces : Enter(fld, Spawned(fld, g, irs, ihs, r1, r2))
  BY DEF Spawn
<1> DEFINE s == Spawned(fld, g, irs, ihs, r1, r2)
           h == updateHardDropY(fld, s)
<1>2. InField(s)
  BY SpawnedInField
<1> HIDE DEF s
<1>3. CASE isCollision(fld, s, s.x, s.y, s.theta)
  <2>1. state' = "GAMEOVER"
    BY <1>1, <1>3 DEF s, Enter
  <2>2. Phase' = "over" /\ Shown' = {} /\ state' \notin Active
    BY <2>1 DEF Phase, Shown, InPlay, Active, Finished
  <2> QED
    BY <2>2 DEF Game!Proceed, Shown
<1>4. CASE ~isCollision(fld, s, s.x, s.y, s.theta)
  <2>1. state' = "FALLING" /\ play' = h
    BY <1>1, <1>4 DEF s, Enter
  <2>2. InField(h) /\ h = [s EXCEPT !.hardDropY = h.hardDropY]
    BY <1>2, <1>4, UpdateHardDropY
  <2> HIDE DEF h
  <2>3. h.piece = s.piece /\ h.x = s.x /\ h.y = s.y /\ h.theta = s.theta
    BY <1>2, <2>2 DEF InField, Play
  <2>4. ~isCollision(fld, h, h.x, h.y, h.theta)
    BY <1>4, <2>3 DEF isCollision
  <2>5. Phase' = "playing" /\ InPlay'
    BY <2>1 DEF Phase, InPlay, Active, Finished
  <2>6. Shown' = BlocksOf(h.piece, h.x, h.y, h.theta)
    BY <2>1, <2>5 DEF Shown, Blocks
  <2>7. Shown' \in Game!Piece
    BY <2>2, <2>6, PieceCells
  <2>8. Shown' \cap fld = {}
    BY <2>4, <2>6 DEF isCollision, isOccupied, BlocksOf
  <2> QED
    BY <2>1, <2>4, <2>5, <2>7, <2>8 DEF Game!Proceed, Shown
<1> QED
  BY <1>3, <1>4

\* The delay between pieces, or its end.
LEMMA AreProceeds ==
  ASSUME TypeOK, NEW i \in Inputs, NEW fld, fld \subseteq Cell, NEW g \in Play, NEW placed,
         Are(i, fld, g, placed)
  PROVE  /\ Game!Proceed(fld)
         /\ state' \in Active => ~isCollision(fld, play', play'.x, play'.y, play'.theta)
<1> DEFINE irs == IF PersistentAction THEN InitialRotation(i) ELSE irsAmount
           ihs == IF PersistentAction THEN "hold" \in i.keys ELSE ihsFlag
<1>1. irs \in {0} \cup Direction
  BY DEF InitialRotation, Direction, TypeOK
<1>2. ihs \in BOOLEAN
  <2>1. ("hold" \in i.keys) \in BOOLEAN /\ ihsFlag \in BOOLEAN
    BY DEF TypeOK
  <2>2. CASE PersistentAction
    BY <2>1, <2>2, Zenon
  <2>3. CASE ~PersistentAction
    BY <2>1, <2>3, Zenon
  <2> QED
    BY <2>2, <2>3
<1>3. Spawn(fld, g, irs, ihs, placed) \/ state' = "ARE"
  BY DEF Are
<1> HIDE DEF irs, ihs
<1>4. CASE state' = "ARE"
  <2>1. Phase' = "waiting" /\ Shown' = {} /\ state' \notin Active
    BY <1>4 DEF Phase, Shown, InPlay, Active, Finished
  <2> QED
    BY <2>1 DEF Game!Proceed, Shown
<1> QED
  BY <1>1, <1>2, <1>3, <1>4, SpawnProceeds

-----------------------------------------------------------------------------
\* One lemma per action.

LEMMA AbandonGame ==
  ASSUME NEW i \in Inputs, TickAbandon(i)
  PROVE  Game!Abandon
<1>1. state' \in {"QUIT", "RESTART"}
  BY DEF TickAbandon
<1>2. Phase' = "over" /\ Shown' = {}
  BY <1>1 DEF Phase, Shown, InPlay, Active, Finished
<1> QED
  BY <1>2 DEF TickAbandon, Game!Abandon, Shown

LEMMA ReadyGoGame ==
  ASSUME NEW i \in Inputs, TickReadyGo(i)
  PROVE  Game!Wait /\ state' \notin Active
<1>1. state \in {"READY", "GO"} /\ state' \in {"READY", "GO", "NEW_PIECE"}
  BY DEF TickReadyGo
<1>2. Phase = "waiting" /\ Phase' = "waiting" /\ Shown' = {} /\ state' \notin Active
  BY <1>1 DEF Phase, Shown, InPlay, Active, Finished
<1> QED
  BY <1>2 DEF TickReadyGo, Game!Wait, Game!Proceed, Shown

LEMMA NewPieceGame ==
  ASSUME IInv, NEW i \in Inputs, TickNewPiece(i) \/ TickAre(i)
  PROVE  /\ Game!Wait
         /\ state' \in Active => ~isCollision(field', play', play'.x, play'.y, play'.theta)
<1>1. state \in {"NEW_PIECE", "ARE"} /\ UNCHANGED <<field, linesCleared, blocksPlaced>>
  BY DEF TickNewPiece, TickAre
<1>2. TypeOK /\ field \subseteq Cell /\ play \in Play /\ irsAmount \in {0} \cup Direction
      /\ ihsFlag \in BOOLEAN
  BY DEF IInv, TypeOK
<1>3. \/ Spawn(field, play, irsAmount, ihsFlag, blocksPlaced)
      \/ Are(i, field, play, blocksPlaced)
  BY DEF TickNewPiece, TickAre
<1>4. /\ Game!Proceed(field)
      /\ state' \in Active => ~isCollision(field, play', play'.x, play'.y, play'.theta)
  BY <1>2, <1>3, SpawnProceeds, AreProceeds
<1>5. Phase = "waiting"
  BY <1>1, PhaseOf
<1> QED
  BY <1>1, <1>4, <1>5 DEF Game!Wait

LEMMA LockGame ==
  ASSUME IInv, IInv', NEW i \in Inputs, TickLock(i)
  PROVE  Game!Settle
<1>1. state \in Active /\ state' = "LINES" /\ UNCHANGED <<field, linesCleared, blocksPlaced>>
  BY LockStep DEF TickLock
<1>2. Phase = "playing" /\ Phase' = "resting" /\ InPlay'
  BY <1>1 DEF Phase, InPlay, Active, Finished
<1>3. Good(field', play') /\ play'.y = play'.hardDropY
  BY <1>1, <1>2 DEF IInv
<1>4. Shown' = BlocksOf(play'.piece, play'.x, play'.y, play'.theta)
  BY <1>2 DEF Shown, Blocks
<1>5. Shown' \in Game!Piece
  BY <1>3, <1>4, PieceCells DEF Good
<1>6. isCollision(field, play', play'.x, play'.y + 1, play'.theta)
  BY <1>1, <1>3 DEF Good, Ghost
<1>7. Game!Rests(Shown', field)
  <2>1. PICK b \in ShapeOf[play'.piece][play'.theta] :
          isOccupied(field, play'.x + b[1], play'.y + 1 + b[2])
    BY <1>6 DEF isCollision
  <2>2. /\ play'.y \in Int /\ b[2] \in Int
    BY <1>3, ShapeBox DEF Good, InField, Play
  <2>3. play'.y + 1 + b[2] = play'.y + b[2] + 1
    BY <2>2
  <2>4. <<play'.x + b[1], play'.y + b[2]>> \in Shown'
    BY <1>4 DEF BlocksOf
  <2>5. <<play'.x + b[1], play'.y + b[2] + 1>> \notin Cell \/ <<play'.x + b[1], play'.y + b[2] + 1>> \in field
    BY <2>1, <2>3 DEF isOccupied
  <2>6. Game!Cell = Cell
    BY DEF Game!Cell, Cell
  <2> QED
    BY <2>4, <2>5, <2>6 DEF Game!Rests
<1> QED
  BY <1>1, <1>2, <1>5, <1>7 DEF Game!Settle, Shown

LEMMA MoveGame ==
  ASSUME IInv, NEW i \in Inputs, TickMove(i)
  PROVE  Game!Move
<1>1. state \in Active /\ state' \in Active /\ Good(field, play')
      /\ UNCHANGED <<field, linesCleared, blocksPlaced>>
  BY MoveStep DEF TickMove
<1>2. Phase = "playing" /\ Phase' = "playing" /\ InPlay'
  BY <1>1 DEF Phase, InPlay, Active, Finished
<1>3. Shown' \in Game!Piece
  BY <1>1, <1>2, PieceCells DEF Good, Shown, Blocks
<1> QED
  BY <1>1, <1>2, <1>3 DEF Game!Move, Shown

LEMMA LinesGame ==
  ASSUME IInv, NEW i \in Inputs, TickLines(i)
  PROVE  /\ Game!Place
         /\ state' \in Active => ~isCollision(field', play', play'.x, play'.y, play'.theta)
<1> DEFINE merged == field \cup Blocks
           total  == linesCleared + Cardinality(FullRows(merged))
           g      == [play EXCEPT !.piece = None]
<1>1. /\ state = "LINES" /\ blocksPlaced' = blocksPlaced + 1
      /\ field' = clearLines(merged) /\ linesCleared' = total
      /\ IF total < Goal THEN Are(i, clearLines(merged), g, blocksPlaced + 1)
                         ELSE state' = "GAMEOVER" /\ play' = g
  BY DEF TickLines, Blocks
<1>2. TypeOK /\ InField(play) /\ InPlay
  BY <1>1 DEF IInv, InPlay, Good
<1>3. Phase = "resting" /\ Shown = Blocks
  BY <1>1, <1>2 DEF Phase, Shown, Active, Finished
<1>4. merged \subseteq Cell
  BY <1>2 DEF InField, At, TypeOK, Blocks
<1>5. /\ Game!Full(merged) = FullRows(merged)
      /\ Game!Cleared(merged) = clearLines(merged)
  <2> HIDE DEF merged
  <2>1. Game!Full(merged) = FullRows(merged)
    BY DEF Game!Full, FullRows
  <2>2. \A S, y : Game!Below(S, y) = RowsBelow(S, y)
    BY SameCounting DEF Game!Below, RowsBelow
  <2>3. Game!Cleared(merged) = clearLines(merged)
    BY <2>1, <2>2 DEF Game!Cleared, clearLines
  <2> QED
    BY <2>1, <2>3
<1> HIDE DEF merged
<1>6. clearLines(merged) \subseteq Cell /\ total \in Int /\ Goal \in Int
  <2>1. Cardinality(FullRows(merged)) \in Nat
    <3>1. 0 \in 0..Height - 1
      BY FieldAssumption
    <3> QED
      BY <3>1, FullRowsBounded
  <2> QED
    BY <1>2, <1>4, <2>1, ClearLinesInField, TimingAssumption DEF TypeOK
<1>7. g \in Play
  BY <1>2 DEF InField, Play
<1>8. /\ field' = Game!Cleared(field \cup Shown)
      /\ linesCleared' = linesCleared + Game!Cardinality(Game!Full(field \cup Shown))
  BY <1>1, <1>3, <1>5, SameCounting DEF merged, total
<1> HIDE DEF total, g
<1>9. CASE total < Goal
  <2>1. Are(i, clearLines(merged), g, blocksPlaced + 1)
    BY <1>1, <1>9
  <2>2. /\ Game!Proceed(clearLines(merged))
        /\ state' \in Active =>
             ~isCollision(clearLines(merged), play', play'.x, play'.y, play'.theta)
    BY <1>2, <1>6, <1>7, <2>1, AreProceeds
  <2>3. ~(linesCleared' >= Goal)
    BY <1>1, <1>6, <1>9
  <2>4. Game!Proceed(field')
    BY <1>1, <2>2 DEF Game!Proceed
  <2>5. blocksPlaced' = blocksPlaced + 1
    BY <1>1
  <2>6. Game!Place
    BY <1>3, <1>8, <2>3, <2>4, <2>5 DEF Game!Place, Shown
  <2> QED
    BY <1>1, <2>2, <2>6
<1>10. CASE ~(total < Goal)
  <2>1. state' = "GAMEOVER"
    BY <1>1, <1>10
  <2>2. Phase' = "over" /\ Shown' = {} /\ state' \notin Active
    BY <2>1 DEF Phase, Shown, InPlay, Active, Finished
  <2>3. linesCleared' >= Goal
    BY <1>1, <1>6, <1>10
  <2>4. blocksPlaced' = blocksPlaced + 1
    BY <1>1
  <2>5. Game!Place
    BY <1>3, <1>8, <2>2, <2>3, <2>4 DEF Game!Place, Shown
  <2> QED
    BY <2>2, <2>5
<1> QED
  BY <1>9, <1>10

LEMMA ResetGame ==
  ASSUME GameReset
  PROVE  Game!NewGame /\ state' \notin Active
<1>1. state \in Finished /\ state' = "READY" /\ field' = {} /\ linesCleared' = 0 /\ blocksPlaced' = 0
  BY DEF GameReset
<1>2. Phase = "over" /\ Phase' = "waiting" /\ Shown' = {} /\ state' \notin Active
  BY <1>1 DEF Phase, Shown, InPlay, Active, Finished
<1> QED
  BY <1>1, <1>2 DEF Game!NewGame, Shown

\* Every step of the engine is a step of the game.
LEMMA StepOfGame ==
  ASSUME IInv, IInv', [Next]_vars
  PROVE  [Game!Next]_<<Phase, field, Shown, linesCleared, blocksPlaced>>
<1>1. CASE UNCHANGED vars
  <2>1. UNCHANGED <<Phase, field, Shown, linesCleared, blocksPlaced>>
    BY <1>1 DEF vars, Phase, Shown, InPlay, Blocks, BlocksOf
  <2> QED
    BY <2>1
<1>2. CASE GameReset
  BY <1>2, ResetGame DEF Game!Next
<1>3. CASE Tick
  <2>1. PICK i \in Inputs : \/ TickAbandon(i) \/ TickReadyGo(i) \/ TickAre(i) \/ TickNewPiece(i)
                            \/ TickLock(i) \/ TickMove(i) \/ TickLines(i)
    BY <1>3 DEF Tick
  <2> QED
    BY <2>1, AbandonGame, ReadyGoGame, NewPieceGame, LockGame, MoveGame, LinesGame DEF Game!Next
<1> QED
  BY <1>1, <1>2, <1>3 DEF Next

\* The engine implements the game Stack, for every field, piece set, wallkick
\* table, delay and option: ImplementsGame (engine.c:509-759).
THEOREM EngineImplementsGame == Spec => ImplementsGame
<1>1. Init => Game!Init
  <2> SUFFICES ASSUME Init PROVE Game!Init
    OBVIOUS
  <2>1. state = "READY" /\ field = {} /\ linesCleared = 0 /\ blocksPlaced = 0
    BY DEF Init
  <2> QED
    BY <2>1 DEF Game!Init, Phase, InPlay, Active, Finished
<1>2. IInv /\ IInv' /\ [Next]_vars => [Game!Next]_Game!vars
  BY StepOfGame DEF Game!vars, Shown
<1> QED
  BY <1>1, <1>2, Invariance, PTL DEF Spec, ImplementsGame, Game!Spec

\* A piece enters play only where there is room, whatever initial rotation and
\* hold were pressed: SpawnIsFree (engine.c:644-666).
THEOREM SpawnsAreFree == Spec => SpawnIsFree
<1>1. IInv /\ [Next]_vars
        => [state \notin Active /\ state' \in Active
              => ~isCollision(field', play', play'.x, play'.y, play'.theta)]_vars
  <2> SUFFICES ASSUME IInv, Next, state \notin Active, state' \in Active
               PROVE  ~isCollision(field', play', play'.x, play'.y, play'.theta)
    OBVIOUS
  <2>1. CASE GameReset
    BY <2>1, ResetGame
  <2>2. CASE Tick
    <3>1. PICK i \in Inputs : \/ TickAbandon(i) \/ TickReadyGo(i) \/ TickAre(i) \/ TickNewPiece(i)
                              \/ TickLock(i) \/ TickMove(i) \/ TickLines(i)
      BY <2>2 DEF Tick
    <3>2. ~TickLock(i) /\ ~TickMove(i)
      BY DEF TickLock, TickMove
    <3>3. ~TickAbandon(i)
      BY DEF TickAbandon, Active
    <3> QED
      BY <3>1, <3>2, <3>3, ReadyGoGame, NewPieceGame, LinesGame
  <2> QED
    BY <2>1, <2>2 DEF Next
<1> QED
  BY <1>1, Invariance, PTL DEF Spec, SpawnIsFree

\* No row of the engine's field stays full after a tick: NoFullRow, from the
\* lemma about line clears of Stack.
THEOREM NoRowStaysFull == Spec => []NoFullRow
<1>1. \A fld \in SUBSET Cell : FullRows(clearLines(fld)) = {}
  <2>1. Facts!BoardAssumption
    BY BoardFits DEF Facts!BoardAssumption
  <2>2. \A b \in SUBSET Facts!Cell : Facts!Full(Facts!Cleared(b)) = {}
    BY <2>1, Facts!ClearedHasNoFullRow
  <2> QED
    <3> SUFFICES ASSUME NEW fld \in SUBSET Cell PROVE FullRows(clearLines(fld)) = {}
      OBVIOUS
    <3>1. \A b : Facts!Full(b) = FullRows(b)
      BY DEF Facts!Full, FullRows
    <3>2. \A S, y : Facts!Below(S, y) = RowsBelow(S, y)
      BY SameCounting DEF Facts!Below, RowsBelow
    <3>3. Facts!Cleared(fld) = clearLines(fld)
      BY <3>1, <3>2 DEF Facts!Cleared, clearLines
    <3>4. Facts!Cell = Cell
      BY DEF Facts!Cell, Cell
    <3> QED
      BY <2>2, <3>1, <3>3, <3>4
<1>2. NoFullRow <=> FullRows(field) = {}
  BY DEF NoFullRow, FullRows
<1>3. Init => NoFullRow
  <2> SUFFICES ASSUME Init PROVE NoFullRow
    OBVIOUS
  <2>1. field = {} /\ 0 \in 0..Width - 1
    BY FieldAssumption DEF Init
  <2> QED
    BY <2>1 DEF NoFullRow
<1>4. IInv /\ NoFullRow /\ [Next]_vars => NoFullRow'
  <2> SUFFICES ASSUME IInv, NoFullRow, [Next]_vars PROVE NoFullRow'
    OBVIOUS
  <2>1. CASE field' = field
    BY <2>1 DEF NoFullRow
  <2>2. CASE field' = {}
    <3>1. 0 \in 0..Width - 1
      BY FieldAssumption
    <3> QED
      BY <2>2, <3>1 DEF NoFullRow
  <2>3. CASE \E i \in Inputs : TickLines(i)
    <3>1. field' = clearLines(field \cup Blocks)
      BY <2>3 DEF TickLines, Blocks
    <3>2. field \cup Blocks \subseteq Cell
      BY <2>3 DEF TickLines, IInv, InPlay, Good, InField, At, TypeOK, Blocks
    <3> QED
      BY <1>1, <3>1, <3>2 DEF NoFullRow, FullRows
  <2> QED
    BY <2>1, <2>2, <2>3
    DEF Next, Tick, vars, GameReset, TickAbandon, TickReadyGo, TickAre, TickNewPiece, TickLock, TickMove
<1> QED
  BY <1>3, <1>4, Invariance, PTL DEF Spec
\* The two instances of Stack, of its definitions and of the proofs about
\* them, are the same specification.
LEMMA SameGame ==
  /\ Game!Init <=> Facts!Init
  /\ [Game!Next]_Game!vars <=> [Facts!Next]_Facts!vars
  /\ Game!NothingFromNothing <=> Facts!NothingFromNothing
<1>1. Game!Cell = Facts!Cell /\ Game!vars = Facts!vars
  BY DEF Game!Cell, Facts!Cell, Game!vars, Facts!vars
<1>2. \A S : Game!Cardinality(S) = Facts!Cardinality(S)
  BY SameCounting
<1>3. \A S : Game!IsFiniteSet(S) = Facts!IsFiniteSet(S)
  BY Zenon DEF Game!IsFiniteSet, Facts!IsFiniteSet
<1>4. \A b : Game!Full(b) = Facts!Full(b)
  BY DEF Game!Full, Facts!Full
<1>5. \A S, y : Game!Below(S, y) = Facts!Below(S, y)
  BY <1>2 DEF Game!Below, Facts!Below
<1>6. \A b : Game!Cleared(b) = Facts!Cleared(b)
  BY <1>4, <1>5 DEF Game!Cleared, Facts!Cleared
<1>7. Game!Piece = Facts!Piece
  BY <1>1, <1>2, <1>3 DEF Game!Piece, Facts!Piece
<1>8. \A p, b : Game!Rests(p, b) <=> Facts!Rests(p, b)
  BY <1>1 DEF Game!Rests, Facts!Rests
<1>9. \A b : Game!Proceed(b) <=> Facts!Proceed(b)
  BY <1>7 DEF Game!Proceed, Facts!Proceed
<1>10. /\ Game!Wait <=> Facts!Wait
       /\ Game!Move <=> Facts!Move
       /\ Game!Settle <=> Facts!Settle
       /\ Game!Abandon <=> Facts!Abandon
       /\ Game!NewGame <=> Facts!NewGame
  BY <1>7, <1>8, <1>9 DEF Game!Wait, Facts!Wait, Game!Move, Facts!Move, Game!Settle, Facts!Settle,
     Game!Abandon, Facts!Abandon, Game!NewGame, Facts!NewGame
<1>11. Game!Place <=> Facts!Place
  BY <1>2, <1>4, <1>6, <1>9 DEF Game!Place, Facts!Place
<1>12. Game!Init <=> Facts!Init
  BY DEF Game!Init, Facts!Init
<1>13. Game!NothingFromNothing <=> Facts!NothingFromNothing
  BY <1>2 DEF Game!NothingFromNothing, Facts!NothingFromNothing
<1>14. Game!Next <=> Facts!Next
  BY <1>10, <1>11, Zenon DEF Game!Next, Facts!Next
<1>15. Game!vars' = Facts!vars'
  BY DEF Game!vars, Facts!vars
<1>16. [Game!Next]_Game!vars <=> [Facts!Next]_Facts!vars
  BY <1>1, <1>14, <1>15, Zenon
<1> QED
  BY <1>12, <1>13, <1>16

\* Line clears of the engine create nothing: NothingFromNothing, carried over
\* from Stack.
THEOREM NothingIsCreated == Spec => []NothingFromNothing
<1>1. Facts!BoardAssumption
  BY BoardFits DEF Facts!BoardAssumption
<1>2. Facts!Spec => []Facts!NothingFromNothing
  BY <1>1, Facts!CellsComeFromPieces
<1>3. Spec => Facts!Spec
  BY EngineImplementsGame, SameGame, PTL DEF ImplementsGame, Game!Spec, Facts!Spec
<1>4. Facts!NothingFromNothing => NothingFromNothing
  BY SameGame DEF NothingFromNothing
<1> QED
  BY <1>2, <1>3, <1>4, PTL
=============================================================================
