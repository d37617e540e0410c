---------------------------- MODULE EngineProofs ----------------------------
(***************************************************************************)
(* Proofs about Engine for every field size, delay, option, set of pieces, *)
(* shape and wallkick table that satisfy its assumptions.                  *)
(*                                                                         *)
(* First least elements, line clears, what each function of engine.c does  *)
(* to a piece that lies inside the field, and the inductive invariant      *)
(* IInv.  Then what a tick does to the hold slot, the two ways in which it *)
(* can put a piece into the stack, and the pieces that are dealt, held and *)
(* swapped: none is lost.  Last, how long a piece may stay in play and how *)
(* long the phases between two pieces last.                                *)
(***************************************************************************)
EXTENDS Engine, TLAPS, FiniteSetTheorems, SequenceTheorems, WellFoundedInduction

-----------------------------------------------------------------------------
\* Least elements: the searches of the C code (the first wallkick that fits,
\* the first row where a drop collides) find something.

\* Every nonempty set of naturals has a least element.
LEMMA NatMin ==
  ASSUME NEW S, S \subseteq Nat, S # {}
  PROVE  \E m \in S : \A k \in S : m <= k
<1> DEFINE TT == {1..k : k \in S}
<1>1. IsWellFoundedOn(StrictSubsetOrdering(Nat), FiniteSubsetsOf(Nat))
  BY FS_StrictSubsetOrderingWellFounded
<1>2. TT \subseteq FiniteSubsetsOf(Nat)
  <2>1. ASSUME NEW k \in S PROVE 1..k \in SUBSET Nat /\ IsFiniteSet(1..k)
    BY FS_Interval
  <2> QED BY <2>1 DEF FiniteSubsetsOf
<1>3. TT # {}
  OBVIOUS
<1> HIDE DEF TT
<1>4. PICK t \in TT : \A u \in TT : ~ (<<u, t>> \in StrictSubsetOrdering(Nat))
  BY <1>1, <1>2, <1>3, WFMin
<1>5. PICK m \in S : t = 1..m
  BY <1>4 DEF TT
<1>6. ASSUME NEW k \in S, k < m PROVE FALSE
  <2>1. 1..k \in TT
    BY DEF TT
  <2>2. 1..k \subseteq 1..m /\ 1..k # 1..m
    <3>1. k \in Nat /\ m \in Nat
      OBVIOUS
    <3>2. m \in 1..m /\ m \notin 1..k
      BY <3>1, <1>6
    <3>3. 1..k \subseteq 1..m
      BY <3>1, <1>6
    <3> QED BY <3>2, <3>3
  <2>3. <<1..k, 1..m>> \in StrictSubsetOrdering(Nat)
    BY <2>2 DEF StrictSubsetOrdering
  <2> QED BY <1>4, <1>5, <2>1, <2>3
<1> QED BY <1>6

\* Least picks the least element of a set of integers that is bounded below.
LEMMA LeastIsLeast ==
  ASSUME NEW a \in Int, NEW S, S \subseteq Int, S # {}, \A k \in S : a <= k
  PROVE  Least(S) \in S /\ \A k \in S : Least(S) <= k
<1> DEFINE T == {k - a : k \in S}
<1>1. T \subseteq Nat /\ T # {}
  <2>1. \A k \in S : k - a \in Nat
    OBVIOUS
  <2>2. \E k \in S : k - a \in T
    OBVIOUS
  <2> QED BY <2>1, <2>2
<1> HIDE DEF T
<1>2. PICK t \in T : \A u \in T : t <= u
  BY <1>1, NatMin
<1>3. PICK m \in S : t = m - a
  BY <1>2 DEF T
<1>4. \A k \in S : m <= k
  <2>1. ASSUME NEW k \in S PROVE m <= k
    <3>1. k - a \in T
      BY DEF T
    <3> QED BY <3>1, <1>2, <1>3
  <2> QED BY <2>1
<1> QED BY <1>4 DEF Least

-----------------------------------------------------------------------------
\* Line clears.

\* A row below which n rows are full is n rows or more above the floor, and
\* there are finitely many full rows.
LEMMA FullRowsBounded ==
  ASSUME NEW fld, NEW y \in 0..Height - 1
  PROVE  /\ Cardinality(FullRows(fld)) \in Nat
         /\ RowsBelow(FullRows(fld), y) \in 0..Height - 1 - y
<1>1. Height \in Nat
  BY FieldAssumption
<1>2. IsFiniteSet(0..Height - 1) /\ IsFiniteSet(y + 1..Height - 1)
  BY <1>1, FS_Interval
<1>3. FullRows(fld) \subseteq 0..Height - 1
  BY DEF FullRows
<1>4. IsFiniteSet(FullRows(fld)) /\ Cardinality(FullRows(fld)) \in Nat
  BY <1>2, <1>3, FS_Subset, FS_CardinalityType
<1> DEFINE B == {r \in FullRows(fld) : r > y}
<1>5. B \subseteq y + 1..Height - 1
  BY <1>1, <1>3
<1> HIDE DEF B
<1>6. Cardinality(B) <= Cardinality(y + 1..Height - 1) /\ IsFiniteSet(B)
  BY <1>2, <1>5, FS_Subset
<1>7. Cardinality(B) \in Nat
  BY <1>6, FS_CardinalityType
<1>8. Cardinality(y + 1..Height - 1) = Height - 1 - y
  BY <1>1, FS_Interval
<1>9. RowsBelow(FullRows(fld), y) = Cardinality(B)
  BY DEF RowsBelow, B
<1> QED BY <1>1, <1>4, <1>6, <1>7, <1>8, <1>9

\* Clearing lines leaves every cell inside the field.
LEMMA ClearLinesInField ==
  ASSUME NEW fld, fld \subseteq Cell
  PROVE  clearLines(fld) \subseteq Cell
<1> SUFFICES ASSUME NEW c \in fld
             PROVE  <<c[1], c[2] + RowsBelow(FullRows(fld), c[2])>> \in Cell
  BY DEF clearLines
<1>1. c[1] \in 0..Width - 1 /\ c[2] \in 0..Height - 1 /\ c = <<c[1], c[2]>>
  BY DEF Cell
<1>2. RowsBelow(FullRows(fld), c[2]) \in 0..Height - 1 - c[2]
  BY <1>1, FullRowsBounded
<1>3. c[2] + RowsBelow(FullRows(fld), c[2]) \in 0..Height - 1
  BY <1>1, <1>2, FieldAssumption
<1> QED BY <1>1, <1>3 DEF Cell

-----------------------------------------------------------------------------
\* What the functions of engine.c do to a piece inside the field.

At(g, y) == BlocksOf(g.piece, g.x, y, g.theta)

\* The piece of g lies inside the field.
InField(g) == g \in Play /\ g.piece \in Pieces /\ At(g, g.y) \subseteq Cell

\* hardDropY is where the piece would rest; a hold can leave it one row above y.
Ghost(fld, g) ==
  /\ g.hardDropY >= g.y - 1 /\ At(g, g.hardDropY) \subseteq Cell
  /\ isCollision(fld, g, g.x, g.hardDropY + 1, g.theta)

\* actualY is exactly at row y.
Exact(g) == g.actualY = fix(g.y)

\* actualY is less than a row away from y.
Near(g) == fix(g.y - 1) < g.actualY /\ g.actualY < fix(g.y + 1)

\* Shapes are nonempty and lie in the 4 x 4 box.
LEMMA ShapeBox ==
  ASSUME NEW p \in Pieces, NEW theta \in Theta
  PROVE  /\ ShapeOf[p][theta] # {}
         /\ \A b \in ShapeOf[p][theta] : b[1] \in 0..3 /\ b[2] \in 0..3
BY PieceAssumption

\* A position without a collision is inside the field.
LEMMA FreeInField ==
  ASSUME NEW fld, NEW g, NEW x, NEW y, NEW theta, ~isCollision(fld, g, x, y, theta)
  PROVE  BlocksOf(g.piece, x, y, theta) \subseteq Cell
BY DEF isCollision, isOccupied, BlocksOf

\* The rows of a piece inside the field.
LEMMA RowsOfPiece ==
  ASSUME NEW g, g \in Play, g.piece \in Pieces, NEW y \in Int
  PROVE  At(g, y) \subseteq Cell <=>
           \A b \in ShapeOf[g.piece][g.theta] :
              g.x + b[1] \in 0..Width - 1 /\ y + b[2] \in 0..Height - 1
<1>1. \A i, j : <<i, j>> \in Cell <=> i \in 0..Width - 1 /\ j \in 0..Height - 1
  BY DEF Cell
<1> HIDE DEF Cell
<1>2. At(g, y) \subseteq Cell <=> \A b \in ShapeOf[g.piece][g.theta] : <<g.x + b[1], y + b[2]>> \in Cell
  BY Zenon DEF At, BlocksOf
<1> QED BY <1>1, <1>2, Zenon

\* Between two rows where it lies inside the field a piece lies inside it.
LEMMA InFieldBetween ==
  ASSUME NEW g, g \in Play, g.piece \in Pieces, NEW lo \in Int, NEW hi \in Int, NEW y \in lo..hi,
         At(g, lo) \subseteq Cell, At(g, hi) \subseteq Cell
  PROVE  At(g, y) \subseteq Cell
<1> g.theta \in Theta /\ Height \in Nat
  BY FieldAssumption DEF Play
<1>1. ASSUME NEW b \in ShapeOf[g.piece][g.theta]
      PROVE  g.x + b[1] \in 0..Width - 1 /\ y + b[2] \in 0..Height - 1
  <2>1. b[2] \in 0..3
    BY ShapeBox
  <2>2. g.x + b[1] \in 0..Width - 1 /\ lo + b[2] \in 0..Height - 1 /\ hi + b[2] \in 0..Height - 1
    BY RowsOfPiece
  <2> QED BY <2>1, <2>2
<1> QED BY <1>1, RowsOfPiece

\* A piece inside the field is at most Height rows down, where it collides.
LEMMA FloorCollides ==
  ASSUME NEW fld, NEW g, InField(g)
  PROVE  g.y \in Int /\ g.y < Height /\ isCollision(fld, g, g.x, Height, g.theta)
<1>1. g \in Play /\ g.piece \in Pieces /\ g.theta \in Theta /\ g.y \in Int /\ Height \in Nat
  BY FieldAssumption DEF InField, Play
<1>2. PICK b \in ShapeOf[g.piece][g.theta] : b[2] \in 0..3
  BY <1>1, ShapeBox
<1>3. g.y + b[2] \in 0..Height - 1
  BY <1>1, RowsOfPiece DEF InField
<1>4. Height + b[2] \notin 0..Height - 1
  BY <1>1, <1>2
<1>5. <<g.x + b[1], Height + b[2]>> \notin Cell
  BY <1>4 DEF Cell
<1>6. isCollision(fld, g, g.x, Height, g.theta)
  BY <1>5 DEF isCollision, isOccupied
<1> QED BY <1>1, <1>2, <1>3, <1>6

\* updateHardDropY finds the ghost of a piece inside the field, also of one that
\* overlaps the stack as long as it is not in the top row.
LEMMA UpdateHardDropY ==
  ASSUME NEW fld, NEW g, InField(g),
         g.y >= 1 \/ ~isCollision(fld, g, g.x, g.y, g.theta)
  PROVE  LET h == updateHardDropY(fld, g) IN
         /\ InField(h) /\ Ghost(fld, h)
         /\ h = [g EXCEPT !.hardDropY = h.hardDropY]
         /\ ~isCollision(fld, g, g.x, g.y, g.theta) => h.hardDropY >= g.y
<1> DEFINE S == {y \in g.y..Height : isCollision(fld, g, g.x, y, g.theta)}
           m == Least(S)
           h == updateHardDropY(fld, g)
<1>1. g \in Play /\ g.piece \in Pieces /\ g.theta \in Theta /\ g.y \in Int /\ Height \in Nat
  BY FieldAssumption DEF InField, Play
<1>2. Height \in S /\ S \subseteq Int /\ (\A k \in S : g.y <= k)
  BY <1>1, FloorCollides
<1>3. m \in S /\ (\A k \in S : m <= k)
  <2> HIDE DEF S
  <2> QED BY <1>1, <1>2, LeastIsLeast
<1>4. m \in g.y..Height /\ isCollision(fld, g, g.x, m, g.theta)
  BY <1>3
<1>5. h = [g EXCEPT !.hardDropY = m - 1]
  BY DEF updateHardDropY
<1>6. ~isCollision(fld, g, g.x, g.y, g.theta) => m # g.y
  BY <1>4
<1>7. At(g, m - 1) \subseteq Cell
  <2>1. CASE m = g.y
    <3>1. g.y >= 1
      BY <1>6, <2>1
    <3>2. ASSUME NEW b \in ShapeOf[g.piece][g.theta]
          PROVE  g.x + b[1] \in 0..Width - 1 /\ m - 1 + b[2] \in 0..Height - 1
      <4>1. g.x + b[1] \in 0..Width - 1 /\ g.y + b[2] \in 0..Height - 1
        BY <1>1, RowsOfPiece DEF InField
      <4>2. b[2] \in 0..3
        BY <1>1, ShapeBox
      <4> QED BY <1>1, <2>1, <3>1, <4>1, <4>2
    <3>3. m - 1 \in Int
      BY <1>1, <2>1
    <3> QED BY <1>1, <3>2, <3>3, RowsOfPiece
  <2>2. CASE m # g.y
    <3>1. m - 1 \in g.y..Height /\ m - 1 < m
      BY <1>1, <1>4, <2>2
    <3>2. ~isCollision(fld, g, g.x, m - 1, g.theta)
      BY <1>1, <1>3, <3>1
    <3> QED BY <3>2, FreeInField DEF At
  <2> QED BY <2>1, <2>2
<1> HIDE DEF S, m
<1>8. h \in Play /\ h.hardDropY = m - 1 /\ h = [g EXCEPT !.hardDropY = h.hardDropY]
  BY <1>1, <1>4, <1>5 DEF Play
<1>9. h.piece = g.piece /\ h.x = g.x /\ h.y = g.y /\ h.theta = g.theta
  BY <1>1, <1>5 DEF Play
<1>10. InField(h)
  BY <1>8, <1>9 DEF InField, At
<1>11. Ghost(fld, h)
  <2>1. h.hardDropY + 1 = m /\ h.hardDropY >= h.y - 1
    BY <1>1, <1>4, <1>8, <1>9
  <2> QED BY <1>4, <1>7, <1>8, <1>9, <2>1 DEF Ghost, At, isCollision
<1>12. ~isCollision(fld, g, g.x, g.y, g.theta) => h.hardDropY >= g.y
  BY <1>1, <1>4, <1>6, <1>8
<1> QED BY <1>8, <1>10, <1>11, <1>12

\* Fixed point: the row and the fraction of a position.
LEMMA FixedPoint ==
  ASSUME NEW a \in Int
  PROVE  /\ unfixflr(a) \in Int
         /\ fix(unfixflr(a) - 1) < a /\ a < fix(unfixflr(a) + 1)
         /\ unfixfrc(a) \in Int /\ -fix(1) < unfixfrc(a) /\ unfixfrc(a) < fix(1)
         /\ a >= 0 => unfixflr(a) >= 0
<1>1. CASE a >= 0
  <2> DEFINE q == a \div 1000000
  <2>1. q \in Int /\ q >= 0 /\ q * 1000000 <= a /\ a < (q + 1) * 1000000
    BY <1>1
  <2>2. unfixflr(a) = q
    BY <1>1 DEF unfixflr
  <2> HIDE DEF q
  <2> QED BY <2>1, <2>2 DEF fix, unfixfrc
<1>2. CASE a < 0
  <2> DEFINE q == (-a) \div 1000000
  <2>1. q \in Int /\ q * 1000000 <= -a /\ -a < (q + 1) * 1000000
    BY <1>2
  <2>2. unfixflr(a) = -q
    BY <1>2 DEF unfixflr
  <2> HIDE DEF q
  <2> QED BY <1>2, <2>1, <2>2 DEF fix, unfixfrc
<1> QED BY <1>1, <1>2

\* A whole row is its own row.
LEMMA WholeRow ==
  ASSUME NEW n \in Int
  PROVE  fix(n) \in Int /\ unfixflr(fix(n)) = n /\ unfixfrc(fix(n)) = 0
<1>1. fix(n) \in Int
  BY DEF fix
<1>2. fix(unfixflr(fix(n)) - 1) < fix(n) /\ fix(n) < fix(unfixflr(fix(n)) + 1) /\ unfixflr(fix(n)) \in Int
  BY <1>1, FixedPoint
<1>3. unfixflr(fix(n)) = n
  BY <1>1, <1>2 DEF fix
<1> QED BY <1>1, <1>3 DEF unfixfrc

\* Dealing takes a piece off the queue and puts another at its end.
LEMMA DealKeepsQueue ==
  ASSUME NEW q \in [1..PreviewCount -> Pieces], NEW r \in Pieces
  PROVE  Dealt(q, r) \in Pieces /\ Behind(q, r) \in [1..PreviewCount -> Pieces]
<1>1. PreviewCount \in Nat
  BY OptionAssumption
<1>2. q \in Seq(Pieces) /\ Len(q) = PreviewCount
  BY <1>1
<1>3. Append(q, r) \in Seq(Pieces) /\ Len(Append(q, r)) = PreviewCount + 1
  BY <1>1, <1>2
<1>4. Head(Append(q, r)) \in Pieces
  BY <1>1, <1>3
<1>5. Tail(Append(q, r)) \in Seq(Pieces) /\ Len(Tail(Append(q, r))) = PreviewCount
  BY <1>1, <1>3
<1>6. Tail(Append(q, r)) \in [1..PreviewCount -> Pieces]
  BY <1>5, LenProperties
<1> QED BY <1>4, <1>6 DEF Dealt, Behind

\* newPiece puts a piece inside the field with a fresh lock timer.
LEMMA NewPiece ==
  ASSUME NEW g \in Play, NEW r \in Pieces
  PROVE  LET h == newPiece(g, r) IN
         InField(h) /\ Near(h) /\ Exact(h) /\ h.y = 1 /\ h.lockTimer = 0
<1> DEFINE h == newPiece(g, r)
<1>1. Width \in Nat /\ Height \in Nat /\ Width >= 5 /\ Height >= 4
  BY FieldAssumption
<1>2. g.nextPiece \in [1..PreviewCount -> Pieces] /\ g.holdPiece \in Pieces \cup {None}
  BY DEF Play
<1>3. Dealt(g.nextPiece, r) \in Pieces /\ Behind(g.nextPiece, r) \in [1..PreviewCount -> Pieces]
  BY <1>2, DealKeepsQueue
<1>4. Width \div 2 - 2 \in Int /\ 0 <= Width \div 2 - 2 /\ Width \div 2 + 2 <= Width - 1
  BY <1>1
<1>5. h \in Play /\ h.piece \in Pieces
  <2>1. fix(1) \in Int
    BY DEF fix
  <2>2. g.hardDropY \in Int /\ g.holdPiece \in Pieces \cup {None} /\ 0 \in Theta
    BY DEF Play, Theta
  <2> QED BY <1>3, <1>4, <2>1, <2>2, SMT DEF newPiece, Play
<1>6. h.x = Width \div 2 - 2 /\ h.y = 1 /\ h.theta = 0 /\ h.actualY = fix(1) /\ h.lockTimer = 0
  BY DEF newPiece
<1>7. At(h, 1) \subseteq Cell
  <2>1. ASSUME NEW b \in ShapeOf[h.piece][h.theta]
        PROVE  h.x + b[1] \in 0..Width - 1 /\ 1 + b[2] \in 0..Height - 1
    <3>1. b[1] \in 0..3 /\ b[2] \in 0..3 /\ b[2] <= 2
      BY <1>5, <1>6, ShapeBox, PieceAssumption DEF Theta
    <3> QED BY <1>1, <1>4, <1>6, <3>1
  <2> QED BY <1>5, <2>1, RowsOfPiece
<1> HIDE DEF h
<1>8. Near(h) /\ Exact(h)
  BY <1>6 DEF Near, Exact, fix
<1> QED BY <1>5, <1>6, <1>7, <1>8 DEF InField, h

\* A swapped-in piece is inside the field: this is where Width >= 5 matters.
LEMMA SwappedInField ==
  ASSUME NEW g \in Play, g.piece \in Pieces, g.holdPiece \in Pieces
  PROVE  LET h == Swapped(g) IN
         InField(h) /\ Near(h) /\ Exact(h) /\ h.y = 1 /\ h.lockTimer = g.lockTimer
<1> DEFINE h == Swapped(g)
<1>1. Width \in Nat /\ Height \in Nat /\ Width >= 5 /\ Height >= 4
  BY FieldAssumption
<1>2. Width \div 2 - 1 \in Int /\ 0 <= Width \div 2 - 1 /\ Width \div 2 + 2 <= Width - 1
  BY <1>1
<1>3. h \in Play /\ h.piece \in Pieces
  <2>1. fix(1) \in Int
    BY DEF fix
  <2>2. g.hardDropY \in Int /\ g.lockTimer \in Nat /\ g.holdAvailable \in BOOLEAN
        /\ g.nextPiece \in [1..PreviewCount -> Pieces] /\ 0 \in Theta
    BY DEF Play, Theta
  <2> QED BY <1>2, <2>1, <2>2, SMT DEF Swapped, Play
<1>4. /\ h.x = Width \div 2 - 1 /\ h.y = 1 /\ h.theta = 0 /\ h.actualY = fix(1)
      /\ h.lockTimer = g.lockTimer
  BY DEF Swapped
<1>5. At(h, 1) \subseteq Cell
  <2>1. ASSUME NEW b \in ShapeOf[h.piece][h.theta]
        PROVE  h.x + b[1] \in 0..Width - 1 /\ 1 + b[2] \in 0..Height - 1
    <3>1. b[1] \in 0..3 /\ b[2] \in 0..3 /\ b[2] <= 2
      BY <1>3, <1>4, ShapeBox, PieceAssumption DEF Theta
    <3> QED BY <1>1, <1>2, <1>4, <3>1
  <2> QED BY <1>3, <2>1, RowsOfPiece
<1> HIDE DEF h
<1>6. Near(h) /\ Exact(h)
  BY <1>4 DEF Near, Exact, fix
<1> QED BY <1>3, <1>4, <1>5, <1>6 DEF InField, h

\* tryHold leaves a piece inside the field whose ghost rests on something, and
\* either keeps the lock timer or clears it.
LEMMA TryHold ==
  ASSUME NEW fld, NEW g, InField(g), Near(g), NEW r \in Pieces
  PROVE  LET h == tryHold(fld, g, r) IN
         /\ InField(h) /\ Near(h) /\ h.lockTimer \in {0, g.lockTimer}
         /\ Ghost(fld, g) \/ g.holdAvailable => Ghost(fld, h)
         /\ Exact(g) => Exact(h)
<1>1. g \in Play /\ g.piece \in Pieces
  BY DEF InField
<1>2. CASE ~g.holdAvailable
  BY <1>2 DEF tryHold
<1>3. CASE g.holdAvailable
  <2> DEFINE taken == IF g.holdPiece = None THEN newPiece([g EXCEPT !.holdPiece = g.piece], r)
                                            ELSE Swapped(g)
             used  == [taken EXCEPT !.holdAvailable = FALSE]
             h     == updateHardDropY(fld, used)
  <2>1. InField(taken) /\ Near(taken) /\ Exact(taken) /\ taken.y = 1 /\ taken.lockTimer \in {0, g.lockTimer}
    <3>1. CASE g.holdPiece = None
      <4>1. [g EXCEPT !.holdPiece = g.piece] \in Play
        BY <1>1 DEF Play
      <4> QED BY <3>1, <4>1, NewPiece
    <3>2. CASE g.holdPiece # None
      <4>1. g.holdPiece \in Pieces
        BY <1>1, <3>2 DEF Play
      <4> QED BY <1>1, <3>2, <4>1, SwappedInField
    <3> QED BY <3>1, <3>2
  <2> HIDE DEF taken
  <2>2. used \in Play /\ used.piece = taken.piece /\ used.x = taken.x /\ used.y = 1
        /\ used.theta = taken.theta /\ used.actualY = taken.actualY
        /\ used.lockTimer = taken.lockTimer
    BY <2>1 DEF InField, Play
  <2>3. InField(used) /\ Near(used) /\ Exact(used)
    BY <2>1, <2>2 DEF InField, At, Near, Exact
  <2> HIDE DEF used
  <2>4. InField(h) /\ Ghost(fld, h) /\ h = [used EXCEPT !.hardDropY = h.hardDropY]
    BY <2>2, <2>3, UpdateHardDropY
  <2>5. Near(h) /\ Exact(h) /\ h.lockTimer = used.lockTimer
    BY <2>2, <2>3, <2>4 DEF Near, Exact, Play
  <2>6. tryHold(fld, g, r) = h
    BY <1>3 DEF tryHold, taken, used
  <2> QED BY <2>1, <2>2, <2>4, <2>5, <2>6
<1> QED BY <1>2, <1>3

\* A rotation turns the piece away from where it was.
LEMMA TurnedAway ==
  ASSUME NEW theta \in Theta, NEW dir \in Direction
  PROVE  Turned(theta, dir) \in Theta /\ Turned(theta, dir) # theta
BY DEF Theta, Direction, Clockwise, Anticlockwise, Halfturn, Turned

\* doRotate puts the piece where a wallkick test fits, or leaves it alone.
LEMMA DoRotate ==
  ASSUME NEW fld, NEW g, InField(g), Near(g), NEW dir \in {0} \cup Direction
  PROVE  LET h == Rotated(fld, g, dir) IN
         /\ InField(h) /\ Near(h) /\ h.lockTimer \in {g.lockTimer, LockTicks}
         /\ h.holdAvailable = g.holdAvailable /\ (Exact(g) => Exact(h))
         /\ h = g \/ (h.theta # g.theta /\ ~isCollision(fld, h, h.x, h.y, h.theta))
<1>1. g \in Play /\ g.piece \in Pieces /\ g.theta \in Theta
  BY DEF InField, Play
<1>2. CASE dir = 0
  BY <1>2 DEF Rotated
<1>3. CASE dir # 0
  <2> DEFINE row  == KicksOf[g.piece][dir][g.theta]
             fits == Fits(fld, g, dir)
             h    == doRotate(fld, g, dir)
  <2>1. dir \in Direction /\ Rotated(fld, g, dir) = h
    BY <1>3 DEF Rotated
  <2>2. row \in Seq([x : Int, y : Int, ljt : BOOLEAN])
    BY <1>1, <2>1, KickAssumption
  <2>3. CASE fits = {}
    BY <2>1, <2>3 DEF doRotate
  <2>4. CASE fits # {}
    <3> DEFINE k == Least(fits)
               s == Kicked(g, dir, row[k], row[1])
    <3>1. k \in fits
      <4>1. fits \subseteq DOMAIN row
        BY DEF Fits
      <4>2. DOMAIN row = 1..Len(row) /\ Len(row) \in Nat
        BY <2>2, LenProperties
      <4>3. fits \subseteq Int /\ \A j \in fits : 0 <= j
        <5> HIDE DEF fits, row
        <5> QED BY <4>1, <4>2
      <4>4. 0 \in Int /\ fits # {}
        BY <2>4
      <4> HIDE DEF fits
      <4>5. Least(fits) \in fits
        BY <4>3, <4>4, LeastIsLeast
      <4> QED BY <4>5
    <3>2. ~isCollision(fld, g, g.x + row[k].x, g.y + row[k].y, Turned(g.theta, dir))
      BY <3>1 DEF Fits
    <3>3. row[k] \in [x : Int, y : Int, ljt : BOOLEAN]
      <4>1. k \in DOMAIN row
        BY <3>1 DEF Fits
      <4>2. row \in [1..Len(row) -> [x : Int, y : Int, ljt : BOOLEAN]]
        BY <2>2, LenProperties
      <4>3. \A j \in 1..Len(row) : row[j] \in [x : Int, y : Int, ljt : BOOLEAN]
        BY <4>2
      <4>4. DOMAIN row = 1..Len(row)
        BY <2>2, LenProperties
      <4> HIDE DEF row, k
      <4> QED BY <4>1, <4>3, <4>4
    <3>4. h = s
      BY <2>4 DEF doRotate
    <3> HIDE DEF row, fits, k
    <3>5. /\ s.piece = g.piece /\ s.x = g.x + row[k].x /\ s.y = g.y + row[k].y
          /\ s.theta = Turned(g.theta, dir) /\ s.holdAvailable = g.holdAvailable
          /\ s.actualY = fix(g.y + row[k].y) + unfixfrc(g.actualY)
          /\ s.lockTimer \in {g.lockTimer, LockTicks}
      BY DEF Kicked
    <3>6. s \in Play
      <4>1. /\ g.x + row[k].x \in Int /\ g.y + row[k].y \in Int
            /\ g.actualY \in Int /\ g.hardDropY \in Int /\ g.lockTimer \in Nat
            /\ g.floorkickCount \in Nat /\ g.holdAvailable \in BOOLEAN
            /\ g.holdPiece \in Pieces \cup {None} /\ g.nextPiece \in [1..PreviewCount -> Pieces]
        BY <1>1, <3>3 DEF Play
      <4>2. fix(g.y + row[k].y) + unfixfrc(g.actualY) \in Int
        BY <4>1, FixedPoint DEF fix
      <4>3. Turned(g.theta, dir) \in Theta /\ LockTicks \in Nat
        BY <1>1, <2>1, TurnedAway, TimingAssumption
      <4> QED BY <1>1, <4>1, <4>2, <4>3, SMT DEF Kicked, Play
    <3> HIDE DEF s
    <3>7. InField(s) /\ ~isCollision(fld, s, s.x, s.y, s.theta)
      <4>1. ~isCollision(fld, s, s.x, s.y, s.theta)
        BY <3>2, <3>5 DEF isCollision
      <4> QED BY <1>1, <3>5, <3>6, <4>1, FreeInField DEF InField, At
    <3>8. Near(s)
      <4>1. s.y \in Int /\ g.actualY \in Int
        BY <1>1, <3>6 DEF Play
      <4>2. unfixfrc(g.actualY) \in Int /\ -fix(1) < unfixfrc(g.actualY) /\ unfixfrc(g.actualY) < fix(1)
        BY <4>1, FixedPoint
      <4>3. s.actualY = fix(s.y) + unfixfrc(g.actualY)
        BY <3>5
      <4> QED BY <4>1, <4>2, <4>3 DEF Near, fix
    <3>10. Exact(g) => Exact(s)
      <4>1. g.y \in Int /\ s.y \in Int /\ s.y = g.y + row[k].y
        BY <1>1, <3>5, <3>6 DEF Play
      <4>2. Exact(g) => unfixfrc(g.actualY) = 0
        BY <4>1, WholeRow DEF Exact
      <4> QED BY <3>5, <4>1, <4>2 DEF Exact, fix
    <3>9. s.theta # g.theta
      BY <1>1, <2>1, <3>5, TurnedAway
    <3> QED BY <2>1, <3>4, <3>5, <3>7, <3>8, <3>9, <3>10
  <2> QED BY <2>3, <2>4
<1> QED BY <1>2, <1>3

\* Sideways steps stop before the first blocked column.
LEMMA StepsAreFree ==
  ASSUME NEW fld, NEW g, NEW sign \in {-1, 1}, NEW distance \in Nat
  PROVE  LET n == StepsFree(fld, g, sign, distance) IN
         n \in Nat /\ (n = 0 \/ ~isCollision(fld, g, g.x + sign * n, g.y, g.theta))
<1> DEFINE blocked == {n \in 1..distance : isCollision(fld, g, g.x + sign * n, g.y, g.theta)}
           n       == StepsFree(fld, g, sign, distance)
<1>1. CASE blocked = {}
  <2>1. n = distance
    BY <1>1 DEF StepsFree
  <2>2. distance = 0 \/ distance \in 1..distance
    OBVIOUS
  <2> QED BY <1>1, <2>1, <2>2
<1>2. CASE blocked # {}
  <2> DEFINE m == Least(blocked)
  <2>1. blocked \subseteq Int /\ (\A k \in blocked : 1 <= k) /\ 1 \in Int
    OBVIOUS
  <2>2. m \in blocked /\ \A k \in blocked : m <= k
    <3> HIDE DEF blocked
    <3> QED BY <1>2, <2>1, LeastIsLeast
  <2>3. m \in 1..distance
    BY <2>2
  <2>4. n = m - 1
    BY <1>2 DEF StepsFree
  <2>5. n = 0 \/ n \in 1..distance
    <3> HIDE DEF m, n
    <3> QED BY <2>3, <2>4
  <2>6. n \notin blocked
    <3>1. m <= n => FALSE
      <4> HIDE DEF m, n
      <4> QED BY <2>3, <2>4
    <3> QED BY <2>2, <3>1
  <2>7. n \in Nat
    <3> HIDE DEF m, n
    <3> QED BY <2>3, <2>4
  <2> QED BY <2>5, <2>6, <2>7
<1> QED BY <1>1, <1>2

\* Sideways movement keeps the piece inside the field, and ends where there is
\* no collision unless it did not move at all.
LEMMA MovedInField ==
  ASSUME NEW fld, NEW g, InField(g), Near(g), NEW movement \in Int
  PROVE  LET h == Moved(fld, g, movement) IN
         /\ InField(h) /\ Near(h) /\ h.lockTimer = g.lockTimer
         /\ h.theta = g.theta
         /\ h = g \/ (h.x # g.x /\ ~isCollision(fld, h, h.x, h.y, h.theta))
<1> DEFINE h == Moved(fld, g, movement)
<1>1. g \in Play /\ g.piece \in Pieces /\ g.x \in Int
  BY DEF InField, Play
<1>2. PICK x \in Int : /\ h = [g EXCEPT !.x = x]
                       /\ x = g.x \/ ~isCollision(fld, g, x, g.y, g.theta)
  <2>1. CASE movement < 0
    <3>1. -movement \in Nat
      BY <2>1
    <3> DEFINE n == StepsFree(fld, g, -1, -movement)
    <3>2. n \in Nat /\ (n = 0 \/ ~isCollision(fld, g, g.x + (-1) * n, g.y, g.theta))
      BY <3>1, StepsAreFree
    <3>3. h = [g EXCEPT !.x = g.x - n]
      BY <2>1 DEF Moved
    <3> HIDE DEF n, h
    <3>4. g.x - n \in Int /\ g.x + (-1) * n = g.x - n /\ (n = 0 => g.x - n = g.x)
      BY <1>1, <3>2
    <3> QED BY <3>2, <3>3, <3>4
  <2>2. CASE ~(movement < 0)
    <3>1. movement \in Nat
      BY <2>2
    <3> DEFINE n == StepsFree(fld, g, 1, movement)
    <3>2. n \in Nat /\ (n = 0 \/ ~isCollision(fld, g, g.x + 1 * n, g.y, g.theta))
      BY <3>1, StepsAreFree
    <3>3. h = [g EXCEPT !.x = g.x + n]
      BY <2>2 DEF Moved
    <3> HIDE DEF n, h
    <3>4. g.x + n \in Int /\ g.x + 1 * n = g.x + n /\ (n = 0 => g.x + n = g.x)
      BY <1>1, <3>2
    <3> QED BY <3>2, <3>3, <3>4
  <2> QED BY <2>1, <2>2
<1> HIDE DEF h
<1>3. h \in Play
  BY <1>1, <1>2 DEF Play
<1>4. /\ h.piece = g.piece /\ h.x = x /\ h.y = g.y /\ h.theta = g.theta
      /\ h.actualY = g.actualY /\ h.lockTimer = g.lockTimer
  BY <1>1, <1>2 DEF Play
<1>5. CASE x = g.x
  <2>1. h = g
    BY <1>1, <1>2, <1>5 DEF Play
  <2> QED BY <2>1 DEF h
<1>6. CASE x # g.x
  <2>1. ~isCollision(fld, h, h.x, h.y, h.theta)
    BY <1>2, <1>4, <1>6 DEF isCollision
  <2>2. InField(h) /\ Near(h)
    BY <1>1, <1>3, <1>4, <2>1, FreeInField DEF InField, At, Near
  <2> QED BY <1>4, <1>6, <2>1, <2>2 DEF h
<1> QED BY <1>5, <1>6

\* doPieceGravity keeps the piece inside the field and at or above its ghost,
\* also when the truncation of a negative position lifts it by a row.
LEMMA FallsInField ==
  ASSUME NEW fld, NEW g, InField(g), Near(g), Ghost(fld, g), NEW rows \in Nat
  PROVE  LET h == Fallen(g, rows) IN
         /\ InField(h) /\ Ghost(fld, h) /\ h.y <= h.hardDropY /\ h.y = unfixflr(h.actualY)
         /\ h.lockTimer \in {0, g.lockTimer}
         /\ Reaches(g, rows) => h.y = h.hardDropY /\ Exact(h)
<1> DEFINE h == Fallen(g, rows)
           v == PulledY(g, rows)
<1>1. /\ g \in Play /\ g.piece \in Pieces /\ g.y \in Int /\ g.actualY \in Int /\ g.theta \in Theta
      /\ g.hardDropY \in Int /\ g.lockTimer \in Nat
  BY DEF InField, Play
<1>2. v \in Int /\ v >= g.actualY /\ v > fix(g.y - 1)
  <2>1. Gravity \in Nat /\ fix(rows) \in Nat /\ fix(g.y - 1) \in Int
    BY <1>1, TimingAssumption DEF fix
  <2> QED BY <1>1, <2>1 DEF PulledY, Near
<1>3. PICK y \in Int, a \in Int, t \in Nat :
        /\ h = [g EXCEPT !.actualY = a, !.y = y, !.lockTimer = t]
        /\ y = unfixflr(a) /\ t \in {0, g.lockTimer}
        /\ y <= g.hardDropY /\ At(g, y) \subseteq Cell
        /\ Reaches(g, rows) => y = g.hardDropY /\ a = fix(y)
  <2>1. CASE Reaches(g, rows)
    <3>1. h = [g EXCEPT !.actualY = fix(g.hardDropY), !.y = g.hardDropY]
      BY <2>1 DEF Fallen
    <3>2. fix(g.hardDropY) \in Int /\ unfixflr(fix(g.hardDropY)) = g.hardDropY
      BY <1>1, WholeRow
    <3>3. [g EXCEPT !.actualY = fix(g.hardDropY), !.y = g.hardDropY]
          = [g EXCEPT !.actualY = fix(g.hardDropY), !.y = g.hardDropY, !.lockTimer = g.lockTimer]
      BY <1>1 DEF Play
    <3>4. At(g, g.hardDropY) \subseteq Cell
      BY DEF Ghost
    <3>5. h = [g EXCEPT !.actualY = fix(g.hardDropY), !.y = g.hardDropY, !.lockTimer = g.lockTimer]
      BY <3>1, <3>3, Zenon
    <3>6. g.hardDropY <= g.hardDropY
      BY <1>1
    <3> HIDE DEF h
    <3> QED BY <1>1, <3>2, <3>4, <3>5, <3>6, Zenon
  <2>2. CASE ~Reaches(g, rows)
    <3> DEFINE y == unfixflr(v)
               t == IF LockStyle # "entry" /\ y > g.y THEN 0 ELSE g.lockTimer
    <3>1. h = [g EXCEPT !.actualY = v, !.y = y, !.lockTimer = t]
      BY <2>2 DEF Fallen
    <3>2. y \in Int /\ fix(y - 1) < v /\ v < fix(y + 1) /\ (v >= 0 => y >= 0)
      BY <1>2, FixedPoint
    <3>3. v < fix(g.hardDropY)
      BY <1>1, <1>2, <2>2 DEF Reaches, fix
    <3>4. y <= g.hardDropY
      <4> HIDE DEF y, v
      <4> QED BY <1>1, <1>2, <3>2, <3>3 DEF fix
    <3>5. At(g, y) \subseteq Cell
      <4>1. CASE y >= g.y
        <5>1. y \in g.y..g.hardDropY
          BY <1>1, <3>2, <3>4, <4>1
        <5>2. At(g, g.y) \subseteq Cell /\ At(g, g.hardDropY) \subseteq Cell
          BY DEF InField, Ghost
        <5> HIDE DEF y
        <5> QED BY <1>1, <5>1, <5>2, InFieldBetween
      <4>2. CASE y < g.y
        <5>1. y = g.y - 1 /\ y >= 0
          <6>1. v < 0 => y >= g.y
            <7> HIDE DEF v
            <7> QED BY <1>1, <1>2 DEF unfixflr, fix
          <6> HIDE DEF y, v
          <6> QED BY <1>1, <1>2, <3>2, <4>2, <6>1 DEF fix
        <5>2. ASSUME NEW b \in ShapeOf[g.piece][g.theta]
              PROVE  g.x + b[1] \in 0..Width - 1 /\ y + b[2] \in 0..Height - 1
          <6>1. g.x + b[1] \in 0..Width - 1 /\ g.y + b[2] \in 0..Height - 1
            BY <1>1, RowsOfPiece DEF InField
          <6>2. b[2] \in 0..3 /\ Height \in Nat
            BY <1>1, ShapeBox, FieldAssumption
          <6> HIDE DEF y
          <6> QED BY <1>1, <5>1, <6>1, <6>2
        <5> HIDE DEF y
        <5> QED BY <1>1, <3>2, <5>2, RowsOfPiece
      <4> HIDE DEF y
      <4> QED BY <1>1, <3>2, <4>1, <4>2
    <3>6. t \in Nat /\ t \in {0, g.lockTimer}
      BY <1>1
    <3> HIDE DEF h, t
    <3>7. y = unfixflr(v)
      OBVIOUS
    <3> HIDE DEF y, v
    <3> QED BY <1>2, <2>2, <3>1, <3>2, <3>4, <3>5, <3>6, <3>7
  <2> QED BY <2>1, <2>2
<1> HIDE DEF h
<1>4. /\ h.piece = g.piece /\ h.x = g.x /\ h.y = y /\ h.theta = g.theta /\ h.actualY = a
      /\ h.hardDropY = g.hardDropY /\ h.lockTimer = t
  BY <1>1, <1>3 DEF Play
<1>5. h \in Play
  <2> DEFINE g1 == [g EXCEPT !.actualY = a]
             g2 == [g1 EXCEPT !.y = y]
  <2>1. g1 \in Play
    BY <1>1 DEF Play
  <2> HIDE DEF g1
  <2>2. g2 \in Play
    BY <1>1, <2>1 DEF Play
  <2>3. h = [g2 EXCEPT !.lockTimer = t]
    BY <1>3 DEF g1
  <2> HIDE DEF g2
  <2> QED BY <1>1, <2>2, <2>3 DEF Play
<1>6. InField(h) /\ Ghost(fld, h)
  <2>1. h.hardDropY >= h.y - 1
    BY <1>1, <1>3, <1>4
  <2> QED BY <1>1, <1>3, <1>4, <1>5, <2>1 DEF InField, Ghost, At, isCollision
<1> QED BY <1>3, <1>4, <1>6 DEF h, Exact

\* What FSS_NEW_PIECE puts into play, before it looks for lockout.
LEMMA SpawnedInField ==
  ASSUME NEW fld, NEW g \in Play, NEW irs \in {0} \cup Direction, NEW ihs \in BOOLEAN,
         NEW r1 \in Pieces, NEW r2 \in Pieces
  PROVE  LET s == Spawned(fld, g, irs, ihs, r1, r2) IN
         InField(s) /\ Near(s) /\ Exact(s) /\ s.lockTimer <= LockTicks
<1> DEFINE n == newPiece(g, r1)
           t == Rotated(fld, n, irs)
           h == tryHold(fld, t, r2)
           s == Spawned(fld, g, irs, ihs, r1, r2)
<1>1. InField(n) /\ Near(n) /\ Exact(n) /\ n.lockTimer = 0
  BY NewPiece
<1> HIDE DEF n
<1>2. InField(t) /\ Near(t) /\ Exact(t) /\ t.lockTimer \in {0, LockTicks}
  BY <1>1, DoRotate
<1> HIDE DEF t
<1>3. InField(h) /\ Near(h) /\ Exact(h) /\ h.lockTimer \in {0, LockTicks}
  BY <1>2, TryHold
<1> HIDE DEF h
<1>4. s = IF ihs THEN h ELSE t
  BY DEF Spawned, n, t, h
<1>5. LockTicks \in Nat
  BY TimingAssumption
<1> HIDE DEF s
<1>6. InField(s) /\ Near(s) /\ Exact(s) /\ s.lockTimer <= LockTicks
  BY <1>2, <1>3, <1>4, <1>5
<1> QED BY <1>6 DEF s

-----------------------------------------------------------------------------
\* The inductive invariant.

\* A piece in play lies inside the field, at the row of its actualY, at or
\* above a ghost that rests on something.
Good(fld, g) == InField(g) /\ Ghost(fld, g) /\ g.y <= g.hardDropY /\ g.y = unfixflr(g.actualY)

\* The properties say where the piece is; that a landed piece has reached its
\* ghost, and that the countdown has not passed its end, make them inductive.
IInv ==
  /\ TypeOK /\ TimersBounded
  /\ InPlay => Good(field, play)
  /\ state \in {"LANDED", "LINES"} => play.y = play.hardDropY /\ Exact(play)
  /\ state \in {"READY", "GO"} => genericCounter <= ReadyTicks + GoTicks

LEMMA GoodNear ==
  ASSUME NEW fld, NEW g, Good(fld, g)
  PROVE  InField(g) /\ Near(g) /\ Ghost(fld, g)
<1>1. g.actualY \in Int
  BY DEF Good, InField, Play
<1> QED BY <1>1, FixedPoint DEF Good, Near

\* The initial states.
LEMMA InitIInv == Init => IInv
<1> SUFFICES ASSUME Init PROVE IInv
  OBVIOUS
<1>1. TypeOK
  <2>1. PICK queue \in [1..PreviewCount -> Pieces] :
          play = [piece |-> None, x |-> 0, y |-> 0, actualY |-> 0, theta |-> 0,
                  hardDropY |-> 0, lockTimer |-> 0, floorkickCount |-> 0,
                  holdPiece |-> None, holdAvailable |-> TRUE, nextPiece |-> queue]
    BY DEF Init
  <2>2. play \in Play
    BY <2>1, SMT DEF Play, Theta
  <2>3. ihsFlag \in BOOLEAN
    BY DEF Init
  <2> QED BY <2>2, <2>3 DEF Init, TypeOK, State
<1>2. TimersBounded /\ genericCounter <= ReadyTicks + GoTicks
  BY TimingAssumption DEF Init, TimersBounded
<1>3. state = "READY"
  BY DEF Init
<1> QED BY <1>1, <1>2, <1>3 DEF IInv, InPlay, Active

\* Dealing the next piece, from FSS_NEW_PIECE or through it.
LEMMA SpawnStep ==
  ASSUME NEW fld, fld \subseteq Cell, NEW g \in Play, NEW irs \in {0} \cup Direction,
         NEW ihs \in BOOLEAN, NEW placed, Spawn(fld, g, irs, ihs, placed)
  PROVE  /\ state' \in {"GAMEOVER", "FALLING"} /\ play' \in Play
         /\ play'.lockTimer <= LockTicks
         /\ state' = "FALLING" => Good(fld, play')
         /\ irsAmount' = 0 /\ ihsFlag' = FALSE
<1>1. PICK r1 \in Pieces, r2 \in Pieces :
        LET s == Spawned(fld, g, irs, ihs, r1, r2) IN
        IF isCollision(fld, s, s.x, s.y, s.theta)
        THEN state' = "GAMEOVER" /\ play' = s
        ELSE state' = "FALLING"  /\ play' = updateHardDropY(fld, s)
  BY DEF Spawn, Enter
<1> DEFINE s == Spawned(fld, g, irs, ihs, r1, r2)
           h == updateHardDropY(fld, s)
<1>2. InField(s) /\ Near(s) /\ Exact(s) /\ s.lockTimer <= LockTicks
  BY SpawnedInField
<1> HIDE DEF s
<1>3. CASE isCollision(fld, s, s.x, s.y, s.theta)
  <2>1. state' = "GAMEOVER" /\ play' = s
    BY <1>1, <1>3 DEF s
  <2> QED BY <1>2, <2>1 DEF Spawn, InField
<1>4. CASE ~isCollision(fld, s, s.x, s.y, s.theta)
  <2>1. state' = "FALLING" /\ play' = h
    BY <1>1, <1>4 DEF s
  <2>2. /\ InField(h) /\ Ghost(fld, h) /\ h = [s EXCEPT !.hardDropY = h.hardDropY]
        /\ h.hardDropY >= s.y
    BY <1>2, <1>4, UpdateHardDropY
  <2> HIDE DEF h
  <2>3. h.y = s.y /\ h.actualY = s.actualY /\ h.lockTimer = s.lockTimer /\ s.y \in Int /\ h.hardDropY \in Int
    BY <1>2, <2>2 DEF InField, Play
  <2>4. h.y = unfixflr(h.actualY)
    BY <1>2, <2>3, WholeRow DEF Exact
  <2>5. h.y <= h.hardDropY
    BY <2>2, <2>3
  <2> QED BY <1>2, <2>1, <2>2, <2>3, <2>4, <2>5 DEF Good, Spawn, InField
<1> QED BY <1>3, <1>4

\* Waiting in FSS_ARE, or leaving it.
LEMMA AreStep ==
  ASSUME TypeOK, NEW i \in Inputs, NEW fld, fld \subseteq Cell, NEW g \in Play, NEW placed,
         areTimer <= AreTicks + 1, g.lockTimer <= LockTicks + 1, Are(i, fld, g, placed)
  PROVE  /\ state' \in {"GAMEOVER", "FALLING", "ARE"} /\ play' \in Play
         /\ play'.lockTimer <= LockTicks + (IF state' = "FALLING" THEN 0 ELSE 1)
         /\ state' = "FALLING" => Good(fld, play')
         /\ irsAmount' \in {0} \cup Direction /\ ihsFlag' \in BOOLEAN
         /\ areTimer' \in Nat /\ areTimer' <= AreTicks + 1
<1> DEFINE irs == IF PersistentAction THEN InitialRotation(i) ELSE irsAmount
           ihs == IF PersistentAction THEN "hold" \in i.keys ELSE ihsFlag
<1>1. irs \in {0} \cup Direction
  BY DEF InitialRotation, Direction, TypeOK
<1>2. ihs \in BOOLEAN
  <2>1. ("hold" \in i.keys) \in BOOLEAN
    OBVIOUS
  <2>2. ihsFlag \in BOOLEAN
    BY DEF TypeOK
  <2>3. CASE PersistentAction
    BY <2>1, <2>3, Zenon
  <2>4. CASE ~PersistentAction
    BY <2>2, <2>4, Zenon
  <2> QED BY <2>3, <2>4
<1>3. \/ areTimer' = 0 /\ Spawn(fld, g, irs, ihs, placed)
      \/ /\ ~(areTimer > AreTicks) /\ state' = "ARE" /\ areTimer' = areTimer + 1
         /\ play' = g /\ irsAmount' = irs /\ ihsFlag' = ihs
  BY DEF Are
<1> HIDE DEF irs, ihs
<1>4. areTimer \in Nat /\ AreTicks \in Nat /\ LockTicks \in Nat
  BY TimingAssumption DEF TypeOK
<1>5. CASE areTimer' = 0 /\ Spawn(fld, g, irs, ihs, placed)
  <2>1. /\ state' \in {"GAMEOVER", "FALLING"} /\ play' \in Play /\ play'.lockTimer <= LockTicks
        /\ state' = "FALLING" => Good(fld, play')
        /\ irsAmount' = 0 /\ ihsFlag' = FALSE
    BY <1>1, <1>2, <1>5, SpawnStep
  <2>2. play'.lockTimer \in Nat
    BY <2>1 DEF Play
  <2>3. play'.lockTimer <= LockTicks + (IF state' = "FALLING" THEN 0 ELSE 1)
    BY <1>4, <2>1, <2>2
  <2>4. ihsFlag' \in BOOLEAN
    BY <2>1
  <2> QED BY <1>4, <1>5, <2>1, <2>3, <2>4
<1>6. CASE /\ ~(areTimer > AreTicks) /\ state' = "ARE" /\ areTimer' = areTimer + 1
           /\ play' = g /\ irsAmount' = irs /\ ihsFlag' = ihs
  <2>1. areTimer' \in Nat /\ areTimer' <= AreTicks + 1
    BY <1>4, <1>6
  <2>2. play'.lockTimer <= LockTicks + (IF state' = "FALLING" THEN 0 ELSE 1)
    BY <1>6
  <2>3. ihsFlag' \in BOOLEAN
    BY <1>2, <1>6
  <2> QED BY <1>1, <1>6, <2>1, <2>2, <2>3
<1> QED BY <1>3, <1>5, <1>6

\* A tick that locks the piece: it reaches its ghost, by gravity or because it
\* already rests there.
LEMMA LockStep ==
  ASSUME IInv, NEW i \in Inputs, TickLock(i)
  PROVE  /\ state' = "LINES" /\ Good(field, play') /\ play'.y = play'.hardDropY /\ Exact(play')
         /\ play'.lockTimer <= LockTicks + 1
<1> DEFINE h == Fallen(play, i.gravity)
<1>1. Good(field, play) /\ InField(play) /\ Near(play) /\ Ghost(field, play)
  BY GoodNear DEF IInv, InPlay, TickLock
<1>2. i.gravity \in Nat
  BY InputAssumption DEF Input
<1>3. /\ InField(h) /\ Ghost(field, h) /\ h.y <= h.hardDropY /\ h.y = unfixflr(h.actualY)
      /\ h.lockTimer \in {0, play.lockTimer} /\ (Reaches(play, i.gravity) => h.y = h.hardDropY /\ Exact(h))
  BY <1>1, <1>2, FallsInField
<1>4. Reaches(play, i.gravity)
  <2>1. /\ play.y \in Int /\ play.hardDropY \in Int /\ play.actualY \in Int
        /\ play.piece \in Pieces /\ play.theta \in Theta /\ play \in Play
    BY <1>1 DEF InField, Play
  <2>2. Gravity \in Nat /\ Height \in Nat
    BY TimingAssumption, FieldAssumption
  <2>3. CASE "harddrop" \in i.extra
    <3>1. i.gravity >= Height
      BY <2>3, InputAssumption
    <3>2. PICK b \in ShapeOf[play.piece][play.theta] : b[2] \in 0..3
      BY <2>1, ShapeBox
    <3>3. play.y + b[2] \in 0..Height - 1 /\ play.hardDropY + b[2] \in 0..Height - 1
      BY <1>1, <2>1, RowsOfPiece DEF InField, Ghost
    <3>4. play.hardDropY <= play.y + Height - 1
      BY <2>1, <2>2, <3>2, <3>3
    <3> QED BY <1>1, <1>2, <2>1, <2>2, <3>1, <3>4 DEF Near, Reaches, PulledY, fix
  <2>4. CASE state = "LANDED"
    <3>1. play.actualY = fix(play.hardDropY)
      BY <2>4 DEF IInv, Exact
    <3> QED BY <1>2, <2>1, <2>2, <3>1 DEF Reaches, PulledY, fix
  <2> QED BY <2>3, <2>4 DEF TickLock, Locks
<1>5. play' = h /\ state' = "LINES"
  BY <1>4 DEF TickLock, FallState
<1>6. h.lockTimer <= LockTicks + 1
  <2>1. play.lockTimer \in Nat /\ play.lockTimer <= LockTicks + 1
    BY <1>1, TimingAssumption DEF IInv, TimersBounded, TickLock, InField, Play
  <2> HIDE DEF h
  <2> QED BY <1>3, <2>1, TimingAssumption
<1> HIDE DEF h
<1> QED BY <1>3, <1>4, <1>5, <1>6 DEF Good

\* A tick that plays the piece: hold, rotate, move, fall.
LEMMA MoveStep ==
  ASSUME IInv, NEW i \in Inputs, TickMove(i)
  PROVE  /\ state' \in Active /\ Good(field, play')
         /\ state' = "LANDED" => play'.y = play'.hardDropY /\ Exact(play')
         /\ play'.lockTimer <= LockTicks + (IF state' = "FALLING" THEN 0 ELSE 1)
<1>1. PICK r \in Pieces :
        LET held   == IF "hold" \in i.extra THEN tryHold(field, play, r) ELSE play
            turned == Rotated(field, held, i.rotation)
        IN  Settle(held, turned, Moved(field, turned, i.movement), i.gravity)
  BY DEF TickMove
<1> DEFINE held    == IF "hold" \in i.extra THEN tryHold(field, play, r) ELSE play
           turned  == Rotated(field, held, i.rotation)
           shifted == Moved(field, turned, i.movement)
           acted   == turned.theta # held.theta \/ shifted.x # turned.x
           aimed   == IF acted THEN updateHardDropY(field, shifted) ELSE shifted
           fallen  == Fallen(aimed, i.gravity)
           timer   == IF acted /\ LockStyle = "move" THEN 0 ELSE fallen.lockTimer
<1>2. /\ state' = FallState(state, aimed, i.gravity)
      /\ play'  = [fallen EXCEPT !.lockTimer = IF state' = "LANDED" THEN timer + 1 ELSE timer]
  <2>1. Settle(held, turned, shifted, i.gravity)
    BY <1>1
  <2> HIDE DEF held, turned, shifted
  <2>2. CASE acted
    BY <2>1, <2>2 DEF Settle, Fall
  <2>3. CASE ~acted
    BY <2>1, <2>3 DEF Settle, Fall
  <2> QED BY <2>2, <2>3
<1>3. i.gravity \in Nat /\ i.movement \in Int /\ i.rotation \in {0} \cup Direction /\ LockTicks \in Nat
  BY InputAssumption, TimingAssumption DEF Input
<1>4. /\ InField(play) /\ Near(play) /\ Ghost(field, play) /\ state \in Active
      /\ play.lockTimer \in Nat /\ play.lockTimer <= LockTicks
  <2>1. Good(field, play) /\ InField(play) /\ state \in Active
    BY GoodNear DEF IInv, InPlay, TickMove
  <2>2. play.lockTimer \in Nat
    BY <2>1 DEF InField, Play
  <2>3. CASE state = "LANDED"
    <3>1. ~(play.lockTimer >= LockTicks)
      BY <2>3 DEF TickMove, Locks
    <3> QED BY <1>3, <2>1, <2>2, <3>1, GoodNear
  <2>4. CASE state = "FALLING"
    BY <1>3, <2>1, <2>2, <2>4, GoodNear DEF IInv, TimersBounded
  <2> QED BY <2>1, <2>3, <2>4 DEF Active
<1>5. InField(held) /\ Near(held) /\ Ghost(field, held) /\ held.lockTimer \in {0, play.lockTimer}
  BY <1>4, TryHold
<1> HIDE DEF held
<1>6. /\ InField(turned) /\ Near(turned) /\ turned.lockTimer \in {0, play.lockTimer, LockTicks}
      /\ turned = held \/ (turned.theta # held.theta
                           /\ ~isCollision(field, turned, turned.x, turned.y, turned.theta))
  <2>1. /\ InField(turned) /\ Near(turned) /\ turned.lockTimer \in {held.lockTimer, LockTicks}
        /\ turned = held \/ (turned.theta # held.theta
                             /\ ~isCollision(field, turned, turned.x, turned.y, turned.theta))
    BY <1>3, <1>5, DoRotate
  <2> HIDE DEF turned
  <2> QED BY <1>5, <2>1
<1> HIDE DEF turned
<1>7. /\ InField(shifted) /\ Near(shifted) /\ shifted.lockTimer = turned.lockTimer
      /\ shifted = turned \/ (shifted.x # turned.x
                              /\ ~isCollision(field, shifted, shifted.x, shifted.y, shifted.theta))
  BY <1>3, <1>6, MovedInField
<1> HIDE DEF shifted
<1>8. /\ InField(aimed) /\ Near(aimed) /\ Ghost(field, aimed)
      /\ aimed.lockTimer = turned.lockTimer
  <2>1. CASE acted
    <3> DEFINE h == updateHardDropY(field, shifted)
    <3>1. ~isCollision(field, shifted, shifted.x, shifted.y, shifted.theta)
      BY <1>6, <1>7, <2>1
    <3>2. InField(h) /\ Ghost(field, h) /\ h = [shifted EXCEPT !.hardDropY = h.hardDropY]
      BY <1>7, <3>1, UpdateHardDropY
    <3>3. aimed = h
      BY <2>1
    <3> HIDE DEF h
    <3>4. h.actualY = shifted.actualY /\ h.y = shifted.y /\ h.lockTimer = shifted.lockTimer
      BY <1>7, <3>2 DEF InField, Play
    <3>5. Near(h)
      BY <1>7, <3>4 DEF Near
    <3> QED BY <1>7, <3>2, <3>3, <3>4, <3>5
  <2>2. CASE ~acted
    <3>1. shifted = held /\ aimed = shifted
      BY <1>6, <1>7, <2>2
    <3> QED BY <1>5, <1>7, <3>1
  <2> QED BY <2>1, <2>2
<1> HIDE DEF aimed, acted
<1>9. /\ InField(fallen) /\ Ghost(field, fallen) /\ fallen.y <= fallen.hardDropY
      /\ fallen.y = unfixflr(fallen.actualY) /\ fallen.lockTimer \in {0, aimed.lockTimer}
      /\ Reaches(aimed, i.gravity) => fallen.y = fallen.hardDropY /\ Exact(fallen)
  BY <1>3, <1>8, FallsInField
<1> HIDE DEF fallen
<1>10. timer \in Nat /\ timer <= LockTicks
  BY <1>3, <1>4, <1>6, <1>8, <1>9
<1> HIDE DEF timer
<1>11. state' \in Active /\ (state' = "LANDED" => Reaches(aimed, i.gravity))
  BY <1>2, <1>4 DEF FallState, Active
<1>12. PICK t \in Nat : /\ play' = [fallen EXCEPT !.lockTimer = t]
                        /\ t <= LockTicks + (IF state' = "FALLING" THEN 0 ELSE 1)
  <2>1. CASE state' = "LANDED"
    <3>1. timer + 1 \in Nat /\ timer + 1 <= LockTicks + 1
      BY <1>3, <1>10
    <3> QED BY <1>2, <2>1, <3>1
  <2>2. CASE state' # "LANDED"
    <3>1. state' = "FALLING" /\ timer <= LockTicks + 0
      BY <1>3, <1>10, <1>11, <2>2 DEF Active
    <3> QED BY <1>2, <1>10, <2>2, <3>1
  <2> QED BY <2>1, <2>2
<1>13. /\ play' \in Play /\ play'.piece = fallen.piece /\ play'.x = fallen.x /\ play'.y = fallen.y
       /\ play'.theta = fallen.theta /\ play'.actualY = fallen.actualY
       /\ play'.hardDropY = fallen.hardDropY /\ play'.lockTimer = t
  BY <1>9, <1>12 DEF InField, Play
<1>14. InField(play') /\ Ghost(field, play')
  BY <1>9, <1>13 DEF InField, Ghost, At, isCollision
<1> QED BY <1>9, <1>11, <1>12, <1>13, <1>14 DEF Good, Exact

\* Locking the piece merges it into the field and clears lines.
LEMMA LinesStep ==
  ASSUME IInv, NEW i \in Inputs, TickLines(i)
  PROVE  IInv'
<1> DEFINE merged == field \cup BlocksOf(play.piece, play.x, play.y, play.theta)
           total  == linesCleared + Cardinality(FullRows(merged))
           fld    == clearLines(merged)
           g      == [play EXCEPT !.piece = None]
<1>1. /\ state = "LINES" /\ blocksPlaced' = blocksPlaced + 1 /\ field' = fld
      /\ linesCleared' = total /\ genericCounter' = genericCounter
      /\ \/ Are(i, fld, g, blocksPlaced + 1)
         \/ state' = "GAMEOVER" /\ play' = g /\ UNCHANGED <<irsAmount, ihsFlag, areTimer>>
  BY DEF TickLines
<1>2. InField(play) /\ TypeOK /\ TimersBounded
  BY <1>1 DEF IInv, InPlay, Good
<1>3. merged \subseteq Cell
  BY <1>2 DEF InField, At, TypeOK
<1> HIDE DEF merged
<1>4. fld \subseteq Cell /\ total \in Nat
  <2>1. Cardinality(FullRows(merged)) \in Nat
    <3>1. 0 \in 0..Height - 1
      BY FieldAssumption
    <3> QED BY <3>1, FullRowsBounded
  <2> QED BY <1>2, <1>3, <2>1, ClearLinesInField DEF TypeOK
<1> HIDE DEF fld, total
<1>5. g \in Play /\ g.lockTimer = play.lockTimer /\ g.lockTimer <= LockTicks + 1 /\ g.lockTimer \in Nat
  <2>1. g \in Play /\ g.lockTimer = play.lockTimer
    BY <1>2 DEF InField, Play
  <2>2. play.lockTimer <= LockTicks + 1
    BY <1>1, <1>2 DEF TimersBounded
  <2> QED BY <2>1, <2>2 DEF Play
<1> HIDE DEF g
<1>6. /\ state' \in {"GAMEOVER", "FALLING", "ARE"} /\ play' \in Play
      /\ play'.lockTimer <= LockTicks + (IF state' = "FALLING" THEN 0 ELSE 1)
      /\ state' = "FALLING" => Good(fld, play')
      /\ irsAmount' \in {0} \cup Direction /\ ihsFlag' \in BOOLEAN
      /\ areTimer' \in Nat /\ areTimer' <= AreTicks + 1
  <2>1. CASE Are(i, fld, g, blocksPlaced + 1)
    <3>1. areTimer <= AreTicks + 1
      BY <1>2 DEF TimersBounded
    <3> QED BY <1>2, <1>4, <1>5, <2>1, <3>1, AreStep
  <2>2. CASE state' = "GAMEOVER" /\ play' = g /\ UNCHANGED <<irsAmount, ihsFlag, areTimer>>
    <3>1. ihsFlag' \in BOOLEAN /\ irsAmount' \in {0} \cup Direction /\ areTimer' \in Nat
      BY <1>2, <2>2 DEF TypeOK
    <3> QED BY <1>2, <1>5, <2>2, <3>1 DEF TimersBounded
  <2> QED BY <1>1, <2>1, <2>2
<1>7. TypeOK'
  <2>1. blocksPlaced' \in Nat /\ genericCounter' \in Nat
    BY <1>1, <1>2 DEF TypeOK
  <2>2. state' \in State
    BY <1>6 DEF State, Active, Finished
  <2> QED BY <1>1, <1>4, <1>6, <2>1, <2>2 DEF TypeOK
<1>8. TimersBounded'
  BY <1>1, <1>2, <1>6 DEF TimersBounded
<1> QED BY <1>1, <1>6, <1>7, <1>8 DEF IInv, InPlay, Active

\* The countdown, and the holds during it.
LEMMA ReadyGoStep ==
  ASSUME IInv, NEW i \in Inputs, TickReadyGo(i)
  PROVE  IInv'
<1>1. TypeOK /\ TimersBounded /\ play \in Play /\ state \in {"READY", "GO"}
      /\ genericCounter <= ReadyTicks + GoTicks
  BY DEF IInv, TypeOK, TickReadyGo
<1>2. play' \in Play /\ play'.lockTimer = play.lockTimer
  <2>1. CASE UNCHANGED play
    BY <1>1, <2>1
  <2>2. CASE ~UNCHANGED play
    <3>1. PICK r \in Pieces :
            play' = [play EXCEPT !.holdPiece = Dealt(play.nextPiece, r),
                                 !.nextPiece = Behind(@, r),
                                 !.holdAvailable = InfiniteReadyGoHold]
      BY <2>2 DEF TickReadyGo
    <3>2. play.nextPiece \in [1..PreviewCount -> Pieces]
      BY <1>1 DEF Play
    <3>3. /\ Dealt(play.nextPiece, r) \in Pieces
          /\ Behind(play.nextPiece, r) \in [1..PreviewCount -> Pieces]
      BY <3>2, DealKeepsQueue
    <3> DEFINE g1 == [play EXCEPT !.holdPiece = Dealt(play.nextPiece, r)]
               g2 == [g1 EXCEPT !.nextPiece = Behind(play.nextPiece, r)]
    <3>4. g1 \in Play /\ g1.lockTimer = play.lockTimer
      BY <1>1, <3>3 DEF Play
    <3>5. g1.nextPiece = play.nextPiece
      BY <1>1 DEF Play
    <3>6. play' = [g2 EXCEPT !.holdAvailable = InfiniteReadyGoHold]
      BY <1>1, <3>1 DEF Play
    <3> HIDE DEF g1
    <3>7. g2 \in Play /\ g2.lockTimer = g1.lockTimer
      BY <3>3, <3>4 DEF Play
    <3> HIDE DEF g2
    <3>8. InfiniteReadyGoHold \in BOOLEAN
      BY OptionAssumption
    <3>9. play' \in Play
      BY <3>6, <3>7, <3>8 DEF Play
    <3>10. play'.lockTimer = g2.lockTimer
      BY <3>6, <3>7 DEF Play
    <3> QED BY <3>4, <3>7, <3>9, <3>10
  <2> QED BY <2>1, <2>2
<1>3. /\ state' \in {"READY", "GO", "NEW_PIECE"} /\ genericCounter' = genericCounter + 1
      /\ state' \in {"READY", "GO"} => genericCounter # ReadyTicks + GoTicks
  BY <1>1 DEF TickReadyGo
<1>4. genericCounter \in Nat /\ ReadyTicks \in Nat /\ GoTicks \in Nat
  BY <1>1, TimingAssumption DEF TypeOK
<1>5. /\ genericCounter' \in Nat /\ genericCounter' <= ReadyTicks + GoTicks + 1
      /\ state' \in {"READY", "GO"} => genericCounter' <= ReadyTicks + GoTicks
  BY <1>1, <1>3, <1>4
<1>6. TypeOK'
  <2>1. ihsFlag' \in BOOLEAN
    BY <1>1 DEF TypeOK, TickReadyGo
  <2>2. state' \in State
    BY <1>3 DEF State
  <2> QED BY <1>1, <1>2, <1>5, <2>1, <2>2 DEF TypeOK, TickReadyGo
<1>7. TimersBounded'
  <2>1. play'.lockTimer <= LockTicks + 1
    BY <1>1, <1>2 DEF TimersBounded
  <2> QED BY <1>1, <1>3, <1>5, <2>1 DEF TimersBounded, TickReadyGo
<1> QED BY <1>3, <1>5, <1>6, <1>7 DEF IInv, InPlay, Active

\* A new game.
LEMMA GameResetStep ==
  ASSUME IInv, GameReset
  PROVE  IInv'
<1>1. PICK queue \in [1..PreviewCount -> Pieces] :
        play' = [piece |-> None, x |-> play.x, y |-> play.y, actualY |-> play.actualY,
                 theta |-> play.theta, hardDropY |-> play.hardDropY, lockTimer |-> 0,
                 floorkickCount |-> 0, holdPiece |-> None, holdAvailable |-> TRUE,
                 nextPiece |-> queue]
  BY DEF GameReset
<1>2. play' \in Play /\ play'.lockTimer = 0
  <2>1. /\ play.x \in Int /\ play.y \in Int /\ play.actualY \in Int /\ play.theta \in Theta
        /\ play.hardDropY \in Int
    BY DEF IInv, TypeOK, Play
  <2> QED BY <1>1, <2>1, SMT DEF Play
<1>3. /\ state' = "READY" /\ field' = {} /\ irsAmount' = 0 /\ ihsFlag' = FALSE /\ areTimer' = 0
      /\ genericCounter' = 0 /\ linesCleared' = 0 /\ blocksPlaced' = 0
  BY DEF GameReset
<1>4. TypeOK'
  <2>1. ihsFlag' \in BOOLEAN
    BY <1>3
  <2> QED BY <1>2, <1>3, <2>1 DEF TypeOK, State
<1>5. TimersBounded' /\ genericCounter' <= ReadyTicks + GoTicks
  BY <1>2, <1>3, TimingAssumption DEF TimersBounded
<1> QED BY <1>3, <1>4, <1>5 DEF IInv, InPlay, Active

\* Coming into play from FSS_NEW_PIECE.
LEMMA NewPieceStep ==
  ASSUME IInv, NEW i \in Inputs, TickNewPiece(i)
  PROVE  IInv'
<1>1. /\ field \subseteq Cell /\ play \in Play /\ irsAmount \in {0} \cup Direction
      /\ ihsFlag \in BOOLEAN
  BY DEF IInv, TypeOK
<1>2. /\ state' \in {"GAMEOVER", "FALLING"} /\ play' \in Play /\ play'.lockTimer <= LockTicks
      /\ state' = "FALLING" => Good(field, play')
      /\ irsAmount' = 0 /\ ihsFlag' = FALSE
  BY <1>1, SpawnStep DEF TickNewPiece
<1>3. UNCHANGED <<field, areTimer, genericCounter, linesCleared, blocksPlaced>>
  BY DEF TickNewPiece
<1>4. TypeOK'
  <2>1. ihsFlag' \in BOOLEAN
    BY <1>2
  <2>2. state' \in State
    BY <1>2 DEF State, Active, Finished
  <2> QED BY <1>2, <1>3, <2>1, <2>2 DEF IInv, TypeOK
<1>5. TimersBounded'
  <2>1. play'.lockTimer <= LockTicks + (IF state' = "FALLING" THEN 0 ELSE 1)
    BY <1>2, TimingAssumption DEF Play
  <2> QED BY <1>3, <2>1 DEF IInv, TimersBounded
<1> QED BY <1>2, <1>3, <1>4, <1>5 DEF IInv, InPlay, Active

\* The invariant is inductive.
LEMMA NextIInv == IInv /\ [Next]_vars => IInv'
<1> SUFFICES ASSUME IInv, [Next]_vars PROVE IInv'
  OBVIOUS
<1>1. CASE UNCHANGED vars
  BY <1>1 DEF vars, IInv, TypeOK, TimersBounded, InPlay, Good, InField, At, Ghost, Exact,
              isCollision, isOccupied, BlocksOf
<1>2. CASE GameReset
  BY <1>2, GameResetStep
<1>3. CASE Tick
  <2> PICK i \in Inputs : \/ TickAbandon(i) \/ TickReadyGo(i) \/ TickAre(i) \/ TickNewPiece(i)
                          \/ TickLock(i) \/ TickMove(i) \/ TickLines(i)
    BY <1>3 DEF Tick
  <2> TypeOK /\ TimersBounded
    BY DEF IInv
  <2>1. CASE TickAbandon(i)
    <3>1. /\ state' \in {"QUIT", "RESTART"}
          /\ UNCHANGED <<field, play, irsAmount, ihsFlag, areTimer, genericCounter,
                         linesCleared, blocksPlaced>>
      BY <2>1 DEF TickAbandon
    <3>2. TypeOK'
      BY <3>1 DEF TypeOK, State, Finished
    <3>3. play.lockTimer <= LockTicks + 1
      BY TimingAssumption DEF TypeOK, TimersBounded, Play
    <3>4. TimersBounded'
      BY <3>1, <3>3 DEF TimersBounded
    <3> QED BY <3>1, <3>2, <3>4 DEF IInv, InPlay, Active
  <2>2. CASE TickReadyGo(i)
    BY <2>2, ReadyGoStep
  <2>3. CASE TickAre(i)
    <3>1. /\ state = "ARE" /\ Are(i, field, play, blocksPlaced)
          /\ UNCHANGED <<field, genericCounter, linesCleared, blocksPlaced>>
      BY <2>3 DEF TickAre
    <3>2. field \subseteq Cell /\ play \in Play /\ areTimer <= AreTicks + 1
      BY DEF TypeOK, TimersBounded
    <3>3. play.lockTimer <= LockTicks + 1
      BY <3>1 DEF TimersBounded
    <3>4. /\ state' \in {"GAMEOVER", "FALLING", "ARE"} /\ play' \in Play
          /\ play'.lockTimer <= LockTicks + (IF state' = "FALLING" THEN 0 ELSE 1)
          /\ state' = "FALLING" => Good(field, play')
          /\ irsAmount' \in {0} \cup Direction /\ ihsFlag' \in BOOLEAN
          /\ areTimer' \in Nat /\ areTimer' <= AreTicks + 1
      BY <3>1, <3>2, <3>3, AreStep
    <3>5. state' \in State
      BY <3>4 DEF State, Active, Finished
    <3>6. TypeOK'
      BY <3>1, <3>4, <3>5 DEF TypeOK
    <3>7. TimersBounded'
      BY <3>1, <3>4 DEF TimersBounded
    <3> QED BY <3>1, <3>4, <3>6, <3>7 DEF IInv, InPlay, Active
  <2>4. CASE TickNewPiece(i)
    BY <2>4, NewPieceStep
  <2>5. CASE TickLock(i)
    <3>1. /\ state' = "LINES" /\ Good(field, play') /\ play'.y = play'.hardDropY /\ Exact(play')
          /\ play'.lockTimer <= LockTicks + 1
      BY <2>5, LockStep
    <3>2. UNCHANGED <<field, irsAmount, ihsFlag, areTimer, genericCounter, linesCleared, blocksPlaced>>
      BY <2>5 DEF TickLock
    <3>3. TypeOK'
      BY <3>1, <3>2 DEF TypeOK, State, Good, InField
    <3>4. TimersBounded'
      BY <3>1, <3>2 DEF TimersBounded
    <3> QED BY <3>1, <3>2, <3>3, <3>4 DEF IInv
  <2>6. CASE TickMove(i)
    <3>1. /\ state' \in Active /\ Good(field, play')
          /\ state' = "LANDED" => play'.y = play'.hardDropY /\ Exact(play')
          /\ play'.lockTimer <= LockTicks + (IF state' = "FALLING" THEN 0 ELSE 1)
      BY <2>6, MoveStep
    <3>2. UNCHANGED <<field, irsAmount, ihsFlag, areTimer, genericCounter, linesCleared, blocksPlaced>>
      BY <2>6 DEF TickMove
    <3>3. TypeOK'
      BY <3>1, <3>2 DEF TypeOK, State, Good, InField
    <3>4. TimersBounded'
      BY <3>1, <3>2 DEF TimersBounded
    <3> QED BY <3>1, <3>2, <3>3, <3>4 DEF IInv, Active
  <2>7. CASE TickLines(i)
    BY <2>7, LinesStep
  <2> QED BY <2>1, <2>2, <2>3, <2>4, <2>5, <2>6, <2>7
<1> QED BY <1>1, <1>2, <1>3 DEF Next

-----------------------------------------------------------------------------
\* The theorems.

\* IInv holds in every state the program reaches.
THEOREM Invariance == Spec => []IInv
<1> QED BY InitIInv, NextIInv, PTL DEF Spec

\* The fields of the FSEngine keep their types, whatever keys are pressed in
\* whatever state (engine.h:158-327).
THEOREM TypeCorrect == Spec => []TypeOK
<1>1. IInv => TypeOK
  BY DEF IInv
<1> QED BY <1>1, Invariance, PTL

\* lockPiece (engine.c:178-180) never writes outside the array b: no sequence of
\* wallkicks, holds, moves and drops takes the piece out of the field.
THEOREM PieceStaysInField == Spec => []ActiveInField
<1>1. IInv => ActiveInField
  BY DEF IInv, ActiveInField, Good, InField, At, Blocks
<1> QED BY <1>1, Invariance, PTL

\* The row the piece is drawn and tested at is the row of its actualY
\* (engine.c:357, 393), after every kick, swap and drop.
THEOREM RowsAgree == Spec => []RowAgrees
<1>1. IInv => RowAgrees
  BY DEF IInv, RowAgrees, Good
<1> QED BY <1>1, Invariance, PTL

\* The hardDropY that updateHardDropY leaves behind (engine.c:456-464, 733) is
\* never out of date: the ghost is in the field, not above the piece, and rests.
THEOREM GhostAlwaysRests == Spec => []GhostRests
<1>1. IInv => GhostRests
  BY DEF IInv, GhostRests, Good, Ghost, At
<1> QED BY <1>1, Invariance, PTL

\* A piece that counts its lock delay down or locks has support right below it
\* (engine.c:675-683): no piece locks in mid-air.
THEOREM NothingLocksInMidAir == Spec => []Supported
<1>1. ASSUME IInv, state \in {"LANDED", "LINES"}
      PROVE  isCollision(field, play, play.x, play.y + 1, play.theta)
  <2>1. Ghost(field, play) /\ play.y = play.hardDropY
    BY <1>1 DEF IInv, InPlay, Active, Good
  <2> QED BY <2>1 DEF Ghost
<1>2. IInv => Supported
  BY <1>1 DEF Supported
<1> QED BY <1>2, Invariance, PTL

\* The lock timer, the ARE timer and the countdown never run past the tests that
\* end their delays (engine.c:561, 567, 637, 677).
THEOREM TimersStayBounded == Spec => []TimersBounded
<1>1. IInv => TimersBounded
  BY DEF IInv
<1> QED BY <1>1, Invariance, PTL

\* A tick that decides to lock the piece, by a hard drop or because its delay is
\* over, ends with the piece on its ghost and ready to be merged
\* (engine.c:675-684).
THEOREM LockIsFinal == Spec => LocksAtOnce
<1>1. IInv /\ [Next]_vars => [\A i \in Inputs : TickLock(i) => state' = "LINES"]_vars
  <2>1. ASSUME IInv, NEW i \in Inputs, TickLock(i) PROVE state' = "LINES"
    BY <2>1, LockStep
  <2> QED BY <2>1
<1> QED BY <1>1, Invariance, PTL DEF Spec, LocksAtOnce

-----------------------------------------------------------------------------
\* What lies under a piece.

\* The piece of g shares no cell with the stack.
Free(fld, g) == ~isCollision(fld, g, g.x, g.y, g.theta)

\* Nothing lies between the piece and its ghost.
Way(fld, g) ==
  \A y \in Int : g.y < y /\ y <= g.hardDropY => ~isCollision(fld, g, g.x, y, g.theta)

\* The search for the ghost stops at the first row that collides.
LEMMA GhostIsFirst ==
  ASSUME NEW fld, NEW g, InField(g)
  PROVE  LET h == updateHardDropY(fld, g) IN
         Way(fld, h) /\ (Free(fld, g) => Free(fld, h) /\ h.y <= h.hardDropY)
<1> DEFINE S == {y \in g.y..Height : isCollision(fld, g, g.x, y, g.theta)}
           m == Least(S)
           h == updateHardDropY(fld, g)
<1>1. g \in Play /\ g.y \in Int /\ Height \in Nat
  BY FieldAssumption DEF InField, Play
<1>2. Height \in S /\ S \subseteq Int /\ (\A k \in S : g.y <= k)
  BY <1>1, FloorCollides
<1>3. m \in S /\ (\A k \in S : m <= k)
  <2> HIDE DEF S
  <2> QED
    BY <1>1, <1>2, LeastIsLeast
<1>4. m \in g.y..Height /\ isCollision(fld, g, g.x, m, g.theta)
  BY <1>3
<1>5. \A y \in Int : g.y <= y /\ y <= m - 1 => ~isCollision(fld, g, g.x, y, g.theta)
  BY <1>1, <1>3, <1>4
<1>6. h = [g EXCEPT !.hardDropY = m - 1]
  BY DEF updateHardDropY
<1> HIDE DEF S, m
<1>7. h.piece = g.piece /\ h.x = g.x /\ h.y = g.y /\ h.theta = g.theta /\ h.hardDropY = m - 1
  BY <1>1, <1>6 DEF Play
<1>8. \A y : isCollision(fld, h, h.x, y, h.theta) <=> isCollision(fld, g, g.x, y, g.theta)
  BY <1>7 DEF isCollision
<1>9. Way(fld, h)
  BY <1>1, <1>5, <1>7, <1>8 DEF Way
<1>10. Free(fld, g) => Free(fld, h) /\ m # g.y
  BY <1>4, <1>7, <1>8 DEF Free
<1> QED
  BY <1>1, <1>4, <1>7, <1>9, <1>10

-----------------------------------------------------------------------------
\* The hold slot and the queue.

SameHold(g, h) ==
  /\ h.piece = g.piece /\ h.holdPiece = g.holdPiece /\ h.holdAvailable = g.holdAvailable
  /\ h.nextPiece = g.nextPiece

\* Turning, moving, aiming and falling do not touch them.
LEMMA RotatedHold ==
  ASSUME NEW fld, NEW g, NEW dir
  PROVE  SameHold(g, Rotated(fld, g, dir))
<1>1. CASE dir = 0 \/ Fits(fld, g, dir) = {}
  BY <1>1 DEF Rotated, doRotate, SameHold
<1>2. CASE dir # 0 /\ Fits(fld, g, dir) # {}
  <2> DEFINE row == KicksOf[g.piece][dir][g.theta]
             k   == Least(Fits(fld, g, dir))
  <2>1. Rotated(fld, g, dir) = Kicked(g, dir, row[k], row[1])
    BY <1>2 DEF Rotated, doRotate
  <2> HIDE DEF row, k
  <2> QED
    BY <2>1 DEF Kicked, SameHold
<1> QED
  BY <1>1, <1>2

LEMMA MovedHold ==
  ASSUME NEW fld, NEW g \in Play, NEW movement
  PROVE  SameHold(g, Moved(fld, g, movement))
BY DEF Moved, SameHold, Play

LEMMA AimedHold ==
  ASSUME NEW fld, NEW g \in Play
  PROVE  SameHold(g, updateHardDropY(fld, g))
BY DEF updateHardDropY, SameHold, Play

LEMMA FallenHold ==
  ASSUME NEW g \in Play, NEW rows
  PROVE  SameHold(g, Fallen(g, rows))
<1>1. CASE Reaches(g, rows)
  BY <1>1 DEF Fallen, SameHold, Play
<1>2. CASE ~Reaches(g, rows)
  BY <1>2 DEF Fallen, SameHold, Play
<1> QED
  BY <1>1, <1>2

\* A hold uses itself up, also when it deals a new piece, and looks for the ghost
\* of the piece it puts into play.
LEMMA HoldUsed ==
  ASSUME NEW fld, NEW g, InField(g), NEW r \in Pieces
  PROVE  LET h == tryHold(fld, g, r) IN
         IF g.holdAvailable THEN ~h.holdAvailable /\ Exact(h) /\ Way(fld, h) ELSE h = g
<1>1. CASE ~g.holdAvailable
  BY <1>1 DEF tryHold
<1>2. CASE g.holdAvailable
  <2> DEFINE taken == IF g.holdPiece = None THEN newPiece([g EXCEPT !.holdPiece = g.piece], r)
                                            ELSE Swapped(g)
             used  == [taken EXCEPT !.holdAvailable = FALSE]
  <2>1. InField(taken) /\ Exact(taken)
    <3>1. CASE g.holdPiece = None
      <4>1. [g EXCEPT !.holdPiece = g.piece] \in Play
        BY DEF InField, Play
      <4> QED
        BY <3>1, <4>1, NewPiece
    <3>2. CASE g.holdPiece # None
      <4>1. g \in Play /\ g.piece \in Pieces /\ g.holdPiece \in Pieces
        BY <3>2 DEF InField, Play
      <4> QED
        BY <3>2, <4>1, SwappedInField
    <3> QED
      BY <3>1, <3>2
  <2> HIDE DEF taken
  <2>2. used \in Play /\ ~used.holdAvailable /\ used.y = taken.y /\ used.actualY = taken.actualY
        /\ used.piece = taken.piece /\ used.x = taken.x /\ used.theta = taken.theta
    BY <2>1 DEF InField, Play
  <2>3. tryHold(fld, g, r) = updateHardDropY(fld, used)
    BY <1>2 DEF tryHold, taken, used
  <2> HIDE DEF used
  <2>5. InField(used)
    BY <2>1, <2>2 DEF InField, At
  <2>4. LET h == updateHardDropY(fld, used) IN h.y = used.y /\ h.actualY = used.actualY
    BY <2>2 DEF updateHardDropY, Play
  <2> QED
    BY <1>2, <2>1, <2>2, <2>3, <2>4, <2>5, AimedHold, GhostIsFirst DEF SameHold, Exact
<1> QED
  BY <1>1, <1>2

-----------------------------------------------------------------------------
\* A tick that plays the piece, taken apart once for the proofs below: what its
\* hold, turn, movement and ghost search leave behind.

LEMMA MoveParts ==
  ASSUME IInv, NEW i \in Inputs, TickMove(i)
  PROVE  \E held, turned, aimed \in Play, t \in Nat :
           /\ \/ held = play
              \/ /\ "hold" \in i.extra /\ play.holdAvailable /\ ~held.holdAvailable
                 /\ Exact(held) /\ Way(field, held)
                 /\ \E r \in Pieces : held = tryHold(field, play, r)
           /\ InField(held) /\ Near(held) /\ turned = Rotated(field, held, i.rotation)
           /\ \/ aimed = held
              \/ Free(field, aimed) /\ Way(field, aimed) /\ aimed.y <= aimed.hardDropY
           /\ aimed.y = turned.y /\ aimed.actualY = turned.actualY /\ aimed.theta = turned.theta
           /\ InField(aimed) /\ Near(aimed) /\ Ghost(field, aimed)
           /\ play' = [Fallen(aimed, i.gravity) EXCEPT !.lockTimer = t]
           /\ SameHold(held, play')
<1>1. PICK r \in Pieces :
        LET held   == IF "hold" \in i.extra THEN tryHold(field, play, r) ELSE play
            turned == Rotated(field, held, i.rotation)
        IN  Settle(held, turned, Moved(field, turned, i.movement), i.gravity)
  BY DEF TickMove
<1> DEFINE held    == IF "hold" \in i.extra THEN tryHold(field, play, r) ELSE play
           turned  == Rotated(field, held, i.rotation)
           shifted == Moved(field, turned, i.movement)
           acted   == turned.theta # held.theta \/ shifted.x # turned.x
           aimed   == IF acted THEN updateHardDropY(field, shifted) ELSE shifted
<1>2. i.movement \in Int /\ i.rotation \in {0} \cup Direction /\ i.gravity \in Nat
  BY InputAssumption DEF Input
<1>3. InField(play) /\ Near(play) /\ Ghost(field, play)
  BY GoodNear DEF IInv, InPlay, TickMove
<1>4. /\ InField(held) /\ Near(held) /\ Ghost(field, held)
      /\ held = play \/ (/\ "hold" \in i.extra /\ play.holdAvailable /\ ~held.holdAvailable
                          /\ Exact(held) /\ Way(field, held)
                          /\ held = tryHold(field, play, r))
  BY <1>3, TryHold, HoldUsed
<1>5. Settle(held, turned, shifted, i.gravity)
  BY <1>1
<1> HIDE DEF held
<1>6. /\ InField(turned) /\ Near(turned)
      /\ turned = held \/ (turned.theta # held.theta
                           /\ ~isCollision(field, turned, turned.x, turned.y, turned.theta))
      /\ SameHold(held, turned)
  BY <1>2, <1>4, DoRotate, RotatedHold
<1> HIDE DEF turned
<1>7. /\ InField(shifted) /\ Near(shifted)
      /\ shifted = turned \/ (shifted.x # turned.x
                              /\ ~isCollision(field, shifted, shifted.x, shifted.y, shifted.theta))
      /\ SameHold(turned, shifted)
      /\ shifted.y = turned.y /\ shifted.actualY = turned.actualY /\ shifted.theta = turned.theta
  <2>1. turned \in Play
    BY <1>6 DEF InField
  <2> QED
    BY <1>2, <1>6, <2>1, MovedInField, MovedHold DEF Moved, Play
<1> HIDE DEF shifted
<1>8. /\ InField(aimed) /\ Near(aimed) /\ Ghost(field, aimed) /\ SameHold(shifted, aimed)
      /\ aimed.y = shifted.y /\ aimed.actualY = shifted.actualY /\ aimed.theta = shifted.theta
      /\ \/ aimed = held
         \/ Free(field, aimed) /\ Way(field, aimed) /\ aimed.y <= aimed.hardDropY
  <2>1. CASE acted
    <3> DEFINE h == updateHardDropY(field, shifted)
    <3>1. Free(field, shifted)
      BY <1>6, <1>7, <2>1 DEF Free
    <3>2. InField(h) /\ Ghost(field, h) /\ h = [shifted EXCEPT !.hardDropY = h.hardDropY]
      BY <1>7, <3>1, UpdateHardDropY DEF Free
    <3>3. Free(field, h) /\ Way(field, h) /\ h.y <= h.hardDropY
      BY <1>7, <3>1, GhostIsFirst
    <3>4. SameHold(shifted, h)
      BY <1>7, AimedHold DEF InField
    <3>5. aimed = h
      BY <2>1
    <3> HIDE DEF h
    <3>6. h.actualY = shifted.actualY /\ h.y = shifted.y /\ h.theta = shifted.theta
      BY <1>7, <3>2 DEF InField, Play
    <3> QED
      BY <1>7, <3>2, <3>3, <3>4, <3>5, <3>6 DEF Near
  <2>2. CASE ~acted
    <3>1. shifted = held /\ aimed = shifted
      BY <1>6, <1>7, <2>2
    <3> QED
      BY <1>4, <3>1 DEF SameHold
  <2> QED
    BY <2>1, <2>2
<1>10. \E t \in Nat : play' = [Fallen(aimed, i.gravity) EXCEPT !.lockTimer = t]
  <2> DEFINE fallen == Fallen(aimed, i.gravity)
             timer  == IF acted /\ LockStyle = "move" THEN 0 ELSE fallen.lockTimer
             t      == IF state' = "LANDED" THEN timer + 1 ELSE timer
  <2>1. play' = [fallen EXCEPT !.lockTimer = t]
    <3>1. CASE acted
      BY <1>5, <3>1 DEF Settle, Fall
    <3>2. CASE ~acted
      BY <1>5, <3>2 DEF Settle, Fall
    <3> QED
      BY <3>1, <3>2
  <2>2. InField(fallen)
    BY <1>2, <1>8, FallsInField
  <2> HIDE DEF fallen, acted, aimed
  <2>3. t \in Nat
    BY <2>2 DEF InField, Play
  <2> HIDE DEF t
  <2> QED
    BY <2>1, <2>3 DEF fallen
<1>11. PICK t \in Nat : play' = [Fallen(aimed, i.gravity) EXCEPT !.lockTimer = t]
  BY <1>10
<1>12. held \in Play /\ turned \in Play /\ aimed \in Play
  BY <1>4, <1>6, <1>8 DEF InField
<1> HIDE DEF aimed
<1>13. SameHold(aimed, Fallen(aimed, i.gravity)) /\ Fallen(aimed, i.gravity) \in Play
  BY <1>2, <1>8, <1>12, FallenHold, FallsInField DEF InField
<1>14. SameHold(Fallen(aimed, i.gravity), play')
  BY <1>11, <1>13 DEF SameHold, Play
<1>15. SameHold(held, play')
  BY <1>6, <1>7, <1>8, <1>13, <1>14 DEF SameHold
<1>16. turned = Rotated(field, held, i.rotation)
  BY DEF turned
<1> QED
  BY <1>4, <1>7, <1>8, <1>11, <1>12, <1>15, <1>16

-----------------------------------------------------------------------------
\* Falling.

\* A lower position is never in a higher row.
LEMMA RowMonotone ==
  ASSUME NEW a \in Int, NEW b \in Int, a <= b
  PROVE  unfixflr(a) <= unfixflr(b)
<1>1. CASE a >= 0
  BY <1>1 DEF unfixflr
<1>2. CASE a < 0
  BY <1>2 DEF unfixflr
<1> QED
  BY <1>1, <1>2

\* The row of actualY is not above y: true of every piece but one that a kick
\* brought down with a negative fraction.
Level(g) == g.y <= unfixflr(g.actualY)

\* A turn of a piece that is not above the top row keeps it level.
LEMMA TurnsLevel ==
  ASSUME NEW fld, NEW g, InField(g), NEW dir, g.actualY >= 0, Level(g),
         Rotated(fld, g, dir) \in Play
  PROVE  Level(Rotated(fld, g, dir))
<1>1. CASE dir = 0 \/ Fits(fld, g, dir) = {}
  BY <1>1 DEF Rotated, doRotate
<1>2. CASE dir # 0 /\ Fits(fld, g, dir) # {}
  <2> DEFINE row == KicksOf[g.piece][dir][g.theta]
             h   == Kicked(g, dir, row[Least(Fits(fld, g, dir))], row[1])
  <2>1. Rotated(fld, g, dir) = h
    BY <1>2 DEF Rotated, doRotate
  <2>2. h.actualY = fix(h.y) + unfixfrc(g.actualY)
    BY DEF Kicked
  <2> HIDE DEF h
  <2>3. g.actualY \in Int /\ h.y \in Int /\ h.actualY \in Int
    BY <2>1 DEF InField, Play
  <2>4. unfixfrc(g.actualY) \in Int /\ unfixfrc(g.actualY) >= 0
    BY <2>3, SMT DEF unfixfrc, unfixflr, fix
  <2>5. fix(h.y) \in Int
    BY <2>3, WholeRow
  <2>7. fix(h.y) <= h.actualY
    BY <2>2, <2>4, <2>5, SMT
  <2>6. unfixflr(fix(h.y)) <= unfixflr(h.actualY)
    BY <2>3, <2>5, <2>7, RowMonotone
  <2> QED
    BY <2>1, <2>3, <2>6, WholeRow DEF Level
<1> QED
  BY <1>1, <1>2

\* A piece falls down its way, at most to its ghost; one that is not level can
\* be lifted by a row.
LEMMA FallsItsWay ==
  ASSUME NEW fld, NEW g, InField(g), Near(g), Ghost(fld, g), NEW rows \in Nat
  PROVE  LET h == Fallen(g, rows) IN
         /\ h \in Play /\ h.piece = g.piece /\ h.x = g.x /\ h.theta = g.theta
         /\ h.hardDropY = g.hardDropY /\ h.y <= h.hardDropY
         /\ h.y = h.hardDropY \/ h.y >= g.y \/ (h.y = g.y - 1 /\ ~Level(g))
<1> DEFINE h == Fallen(g, rows)
           v == PulledY(g, rows)
<1>1. g \in Play /\ g.y \in Int /\ g.actualY \in Int /\ Gravity \in Nat /\ fix(rows) \in Nat
  BY TimingAssumption DEF InField, Play, fix
<1>2. h \in Play /\ h.y <= h.hardDropY /\ (Reaches(g, rows) => h.y = h.hardDropY)
  BY FallsInField DEF InField
<1>3. h.piece = g.piece /\ h.x = g.x /\ h.theta = g.theta /\ h.hardDropY = g.hardDropY
  <2>1. CASE Reaches(g, rows)
    BY <1>1, <2>1 DEF Fallen, Play
  <2>2. CASE ~Reaches(g, rows)
    BY <1>1, <2>2 DEF Fallen, Play
  <2> QED
    BY <2>1, <2>2
<1>4. ASSUME ~Reaches(g, rows) PROVE h.y >= g.y \/ (h.y = g.y - 1 /\ ~Level(g))
  <2>1. h.y = unfixflr(v)
    BY <1>1, <1>4 DEF Fallen, Play
  <2>2. v \in Int /\ v >= g.actualY /\ fix(g.y - 1) < v
    <3>1. fix(g.y - 1) \in Int /\ fix(g.y - 1) < g.actualY
      BY <1>1 DEF Near, fix
    <3> QED
      BY <1>1, <3>1 DEF PulledY
  <2> HIDE DEF v, h
  <2>3. unfixflr(v) \in Int /\ v < fix(unfixflr(v) + 1)
    BY <2>2, FixedPoint
  <2>4. unfixflr(v) >= g.y - 1
    BY <1>1, <2>2, <2>3 DEF fix
  <2>5. unfixflr(g.actualY) <= unfixflr(v) /\ unfixflr(g.actualY) \in Int
    BY <1>1, <2>2, RowMonotone, FixedPoint
  <2> QED
    BY <1>1, <2>1, <2>3, <2>4, <2>5 DEF Level
<1> HIDE DEF h
<1> QED
  BY <1>2, <1>3, <1>4 DEF h

\* What is between the piece and its ghost, and whether the piece is clear, after
\* a tick that plays it.
LEMMA MoveClear ==
  ASSUME IInv, Way(field, play), NEW i \in Inputs, TickMove(i)
  PROVE  /\ Way(field, play')
         /\ Free(field, play) /\ ~Held /\ ~Lifted => Free(field, play')
<1>1. PICK held \in Play, turned \in Play, aimed \in Play, t \in Nat :
        /\ \/ held = play
           \/ play.holdAvailable /\ ~held.holdAvailable /\ Exact(held) /\ Way(field, held)
        /\ InField(held) /\ Near(held) /\ turned = Rotated(field, held, i.rotation)
        /\ \/ aimed = held
           \/ Free(field, aimed) /\ Way(field, aimed) /\ aimed.y <= aimed.hardDropY
        /\ aimed.y = turned.y /\ aimed.actualY = turned.actualY /\ aimed.theta = turned.theta
        /\ InField(aimed) /\ Near(aimed) /\ Ghost(field, aimed)
        /\ play' = [Fallen(aimed, i.gravity) EXCEPT !.lockTimer = t]
        /\ SameHold(held, play')
  BY MoveParts
<1> DEFINE h == Fallen(aimed, i.gravity)
<1>2. i.gravity \in Nat /\ i.rotation \in {0} \cup Direction
  BY InputAssumption DEF Input
<1>3. /\ h \in Play /\ h.piece = aimed.piece /\ h.x = aimed.x /\ h.theta = aimed.theta
      /\ h.hardDropY = aimed.hardDropY /\ h.y <= h.hardDropY
      /\ h.y = h.hardDropY \/ h.y >= aimed.y \/ (h.y = aimed.y - 1 /\ ~Level(aimed))
  BY <1>1, <1>2, FallsItsWay
<1>4. play' = [h EXCEPT !.lockTimer = t]
  BY <1>1
<1> HIDE DEF h
<1>5. /\ play'.piece = aimed.piece /\ play'.x = aimed.x /\ play'.theta = aimed.theta
      /\ play'.hardDropY = aimed.hardDropY /\ play'.y = h.y
  BY <1>3, <1>4 DEF Play
<1>6. \A y : isCollision(field, play', play'.x, y, play'.theta)
               <=> isCollision(field, aimed, aimed.x, y, aimed.theta)
  BY <1>5 DEF isCollision
<1>7. aimed.y \in Int /\ h.y \in Int /\ aimed.hardDropY \in Int /\ play.y \in Int /\ play.actualY \in Int
      /\ held.y \in Int /\ held.actualY \in Int /\ aimed.actualY \in Int
  BY <1>1, <1>3 DEF Play, IInv, TypeOK
<1>8. Good(field, play)
  BY DEF IInv, InPlay, TickMove
<1>9. Level(play) /\ Level(held)
  BY <1>1, <1>7, <1>8, WholeRow DEF Good, Level, Exact
<1>10. Way(field, aimed) /\ (Free(field, aimed) \/ aimed = held)
  BY <1>1
<1>11. Way(field, play')
  <2>1. CASE h.y = h.hardDropY \/ h.y >= aimed.y
    BY <1>3, <1>5, <1>6, <1>7, <1>10, <2>1 DEF Way
  <2>2. CASE h.y = aimed.y - 1 /\ ~Level(aimed)
    <3>1. Free(field, aimed)
      BY <1>9, <1>10, <2>2
    <3>2. \A y \in Int : h.y < y => y = aimed.y \/ aimed.y < y
      BY <1>7, <2>2
    <3> QED
      BY <1>5, <1>6, <1>7, <1>10, <3>1, <3>2 DEF Way, Free
  <2> QED
    BY <1>3, <2>1, <2>2
<1>12. ASSUME Free(field, play), ~Held, ~Lifted PROVE Free(field, play')
  <2>1. held = play
    BY <1>1, <1>12 DEF Held, SameHold
  <2>2. Free(field, aimed) /\ aimed.y <= aimed.hardDropY
    BY <1>1, <1>8, <1>12, <2>1 DEF Good
  <2>3. Level(aimed)
    <3>1. CASE turned = play
      BY <1>1, <1>9, <3>1 DEF Level
    <3>2. CASE turned # play
      <4>1. turned.theta # play.theta
        BY <1>1, <1>2, <2>1, <3>2, DoRotate
      <4>2. play.actualY >= 0
        BY <1>1, <1>5, <1>7, <1>12, <4>1 DEF Lifted
      <4>3. Level(turned)
        BY <1>1, <1>9, <2>1, <4>2, TurnsLevel
      <4> QED
        BY <1>1, <4>3 DEF Level
    <3> QED
      BY <3>1, <3>2
  <2>4. h.y = aimed.y \/ (aimed.y < h.y /\ h.y <= aimed.hardDropY)
    BY <1>3, <1>7, <2>2, <2>3
  <2>5. ~isCollision(field, aimed, aimed.x, h.y, aimed.theta)
    BY <1>7, <1>10, <2>2, <2>4 DEF Way, Free
  <2> QED
    BY <1>5, <1>6, <2>5 DEF Free
<1> QED
  BY <1>11, <1>12

-----------------------------------------------------------------------------
\* The theorems.

\* A piece is held at most once before the next one locks (engine.c:468-500), on
\* any field and from any queue, though the piece dealt by a first hold comes
\* with a fresh hold (engine.c:475-476).
THEOREM HeldOnce == Spec => HoldOncePerPiece
<1> DEFINE Used == (/\ ~play.holdAvailable => ~play'.holdAvailable
                    /\ (play'.piece # play.piece \/ play'.holdPiece # play.holdPiece)
                         => (play.holdAvailable /\ ~play'.holdAvailable))
<1>1. IInv /\ [Next]_vars
        => [(state \in Active /\ state' \in Active \cup {"LINES"}) => Used]_vars
  <2> SUFFICES ASSUME IInv, Next, state \in Active, state' \in Active \cup {"LINES"} PROVE Used
    OBVIOUS
  <2>1. CASE GameReset
    BY <2>1 DEF GameReset, Active, Finished
  <2>2. CASE Tick
    <3> PICK i \in Inputs : \/ TickAbandon(i) \/ TickReadyGo(i) \/ TickAre(i) \/ TickNewPiece(i)
                            \/ TickLock(i) \/ TickMove(i) \/ TickLines(i)
      BY <2>2 DEF Tick
    <3>1. TickLock(i) \/ TickMove(i)
      BY DEF TickAbandon, TickReadyGo, TickAre, TickNewPiece, TickLines, Active
    <3>2. CASE TickLock(i)
      <4>1. play \in Play /\ play' = Fallen(play, i.gravity)
        BY <3>2 DEF TickLock, IInv, TypeOK
      <4> QED
        BY <4>1, FallenHold DEF SameHold
    <3>3. CASE TickMove(i)
      <4>1. SameHold(play, play') \/ (play.holdAvailable /\ ~play'.holdAvailable)
        BY <3>3, MoveParts DEF SameHold
      <4> QED
        BY <4>1 DEF SameHold
    <3> QED
      BY <3>1, <3>2, <3>3
  <2> QED
    BY <2>1, <2>2 DEF Next
<1> QED
  BY <1>1, Invariance, PTL DEF Spec, HoldOncePerPiece

\* The way is open in every state with a piece in play.
WayOpen == InPlay => Way(field, play)

\* A dealt piece enters clear of the stack, with an open way down.
LEMMA SpawnClear ==
  ASSUME NEW fld, NEW g \in Play, NEW irs \in {0} \cup Direction, NEW ihs \in BOOLEAN,
         NEW placed, Spawn(fld, g, irs, ihs, placed), state' \in Active \cup {"LINES"}
  PROVE  Way(fld, play') /\ Free(fld, play')
<1>1. PICK r1 \in Pieces, r2 \in Pieces : Enter(fld, Spawned(fld, g, irs, ihs, r1, r2))
  BY DEF Spawn
<1> DEFINE s == Spawned(fld, g, irs, ihs, r1, r2)
<1>2. InField(s)
  BY SpawnedInField
<1>3. Free(fld, s) /\ play' = updateHardDropY(fld, s)
  BY <1>1 DEF Enter, Free, Active
<1> HIDE DEF s
<1> QED
  BY <1>2, <1>3, GhostIsFirst

LEMMA AreClear ==
  ASSUME TypeOK, NEW i \in Inputs, NEW fld, NEW g \in Play, NEW placed, Are(i, fld, g, placed),
         state' \in Active \cup {"LINES"}
  PROVE  Way(fld, play') /\ Free(fld, play')
<1> DEFINE irs == IF PersistentAction THEN InitialRotation(i) ELSE irsAmount
           ihs == IF PersistentAction THEN "hold" \in i.keys ELSE ihsFlag
<1>1. irs \in {0} \cup Direction
  BY DEF InitialRotation, Direction, TypeOK
<1>4. ihs \in BOOLEAN
  <2>1. ("hold" \in i.keys) \in BOOLEAN /\ ihsFlag \in BOOLEAN
    BY DEF TypeOK
  <2>2. CASE PersistentAction
    BY <2>1, <2>2, Zenon
  <2>3. CASE ~PersistentAction
    BY <2>1, <2>3, Zenon
  <2> QED
    BY <2>2, <2>3
<1>2. Spawn(fld, g, irs, ihs, placed) \/ state' = "ARE"
  BY DEF Are
<1> HIDE DEF irs, ihs
<1>3. \A a \in {0} \cup Direction, b \in BOOLEAN :
        Spawn(fld, g, a, b, placed) => Way(fld, play') /\ Free(fld, play')
  BY SpawnClear
<1> QED
  BY <1>1, <1>2, <1>3, <1>4 DEF Active

\* A piece that is free, good and has its way open is clear, and the other way
\* round.
LEMMA ClearIsFree ==
  ASSUME NEW fld, NEW g, Good(fld, g), Way(fld, g)
  PROVE  Free(fld, g) <=> /\ At(g, g.y) \cap fld = {}
                          /\ ~isCollision(fld, g, g.x, g.hardDropY, g.theta)
                          /\ isCollision(fld, g, g.x, g.hardDropY + 1, g.theta)
<1>1. /\ g.y \in Int /\ g.hardDropY \in Int /\ g.y <= g.hardDropY
      /\ isCollision(fld, g, g.x, g.hardDropY + 1, g.theta) /\ At(g, g.y) \subseteq Cell
  BY DEF Good, InField, Ghost, Play
<1>2. Free(fld, g) <=> At(g, g.y) \cap fld = {}
  BY <1>1 DEF Free, At, BlocksOf, isCollision, isOccupied
<1>3. Free(fld, g) => ~isCollision(fld, g, g.x, g.hardDropY, g.theta)
  BY <1>1 DEF Way, Free
<1> QED
  BY <1>1, <1>2, <1>3

\* One step: the way stays open, and only a hold or a lifted piece ends in the
\* stack.
LEMMA StepClear ==
  ASSUME IInv, IInv', WayOpen, Next
  PROVE  WayOpen' /\ (Clear => Clear' \/ (state \in Active /\ (Held \/ Lifted)))
<1>1. CASE InPlay'
  <2>1. state' \in Active \cup {"LINES"} /\ Good(field', play')
    BY <1>1 DEF InPlay, IInv
  <2>2. SUFFICES /\ Way(field', play')
                 /\ Clear => Free(field', play') \/ (state \in Active /\ (Held \/ Lifted))
    <3>1. Way(field', play') => (Clear' <=> Free(field', play'))
      BY <1>1, <2>1, ClearIsFree DEF Clear, NoOverlap, HardDropValid, Blocks, At
    <3> QED
      BY <1>1, <3>1 DEF WayOpen
  <2>3. PICK i \in Inputs : \/ TickAre(i) \/ TickNewPiece(i) \/ TickLock(i) \/ TickMove(i) \/ TickLines(i)
    BY <2>1 DEF Next, Tick, GameReset, TickAbandon, TickReadyGo, Active
  <2>4. TypeOK /\ play \in Play /\ irsAmount \in {0} \cup Direction /\ ihsFlag \in BOOLEAN
    BY DEF IInv, TypeOK
  <2>5. CASE TickAre(i)
    BY <2>1, <2>4, <2>5, AreClear DEF TickAre
  <2>6. CASE TickNewPiece(i)
    BY <2>1, <2>4, <2>6, SpawnClear DEF TickNewPiece
  <2>7. CASE TickLock(i)
    <3>1. InPlay /\ Good(field, play) /\ Way(field, play) /\ field' = field
      BY <2>7 DEF TickLock, InPlay, IInv, WayOpen
    <3>2. play'.y = play'.hardDropY /\ play' = Fallen(play, i.gravity) /\ play'.y \in Int
      BY <2>1, <2>7, LockStep DEF TickLock, Good, InField, Play
    <3>3. Way(field, play')
      BY <3>2 DEF Way
    <3>4. i.gravity \in Nat /\ InField(play) /\ Near(play) /\ Ghost(field, play)
      BY <3>1, GoodNear, InputAssumption DEF Input
    <3>5. /\ play'.piece = play.piece /\ play'.x = play.x /\ play'.theta = play.theta
          /\ play'.hardDropY = play.hardDropY
      BY <3>2, <3>4, FallsItsWay
    <3>6. Clear => Free(field, play')
      BY <3>1, <3>2, <3>5 DEF Clear, HardDropValid, Free, isCollision
    <3> QED
      BY <3>1, <3>3, <3>6
  <2>8. CASE TickMove(i)
    <3>1. state \in Active /\ InPlay /\ Good(field, play) /\ Way(field, play) /\ field' = field
      BY <2>8 DEF TickMove, InPlay, IInv, WayOpen
    <3>2. Clear => Free(field, play)
      BY <3>1, ClearIsFree DEF Clear, NoOverlap, HardDropValid, Blocks, At
    <3> QED
      BY <2>8, <3>1, <3>2, MoveClear
  <2>9. CASE TickLines(i)
    <3> DEFINE g == [play EXCEPT !.piece = None]
               fld == field'
    <3>1. Are(i, field', g, blocksPlaced + 1) /\ g \in Play
      BY <2>1, <2>4, <2>9 DEF TickLines, Play, Active
    <3> QED
      BY <2>1, <2>4, <3>1, AreClear
  <2> QED
    BY <2>3, <2>5, <2>6, <2>7, <2>8, <2>9
<1>2. CASE ~InPlay'
  BY <1>2 DEF WayOpen, Clear, NoOverlap, HardDropValid
<1> QED
  BY <1>1, <1>2

\* A piece that is clear of the stack stays clear, on any field and under any
\* wallkick table: only a hold in play (engine.c:687) and a kick that lowers a
\* piece from above the top row (engine.c:357) can end in the stack.
THEOREM OnlyTwoWaysIntoTheStack == Spec => StaysClear
<1>1. Init => WayOpen
  BY DEF Init, WayOpen, InPlay, Active
<1>2. IInv /\ IInv' /\ WayOpen /\ [Next]_vars => WayOpen'
  <2>1. CASE UNCHANGED vars
    BY <2>1 DEF vars, WayOpen, InPlay, Way, isCollision, isOccupied
  <2> QED
    BY <2>1, StepClear
<1>3. IInv /\ IInv' /\ WayOpen /\ [Next]_vars
        => [Clear => Clear' \/ (state \in Active /\ (Held \/ Lifted))]_vars
  BY StepClear
<1> QED
  BY <1>1, <1>2, <1>3, Invariance, PTL DEF Spec, StaysClear

-----------------------------------------------------------------------------
\* No piece is lost.

Copy(q, p) == Cardinality({k \in 1..PreviewCount : q[k] = p})

\* The queue moves up by one: what it loses is dealt.
LEMMA QueueMoves ==
  ASSUME NEW q \in [1..PreviewCount -> Pieces], NEW r \in Pieces
  PROVE  /\ PreviewCount = 0 => Dealt(q, r) = r
         /\ PreviewCount > 0 => Dealt(q, r) = q[1]
         /\ \A k \in 1..PreviewCount - 1 : Behind(q, r)[k] = q[k + 1]
<1>1. PreviewCount \in Nat
  BY OptionAssumption
<1>2. q \in Seq(Pieces) /\ Len(q) = PreviewCount
  BY <1>1
<1> DEFINE a == Append(q, r)
<1>3. /\ a \in Seq(Pieces) /\ Len(a) = PreviewCount + 1 /\ a[PreviewCount + 1] = r
      /\ \A k \in 1..PreviewCount : a[k] = q[k]
  BY <1>1, <1>2
<1> HIDE DEF a
<1>4. Head(a) = a[1] /\ \A k \in 1..PreviewCount : Tail(a)[k] = a[k + 1]
  BY <1>1, <1>3
<1> QED
  BY <1>1, <1>3, <1>4 DEF Dealt, Behind, a

LEMMA DealLosesNothing ==
  ASSUME NEW q \in [1..PreviewCount -> Pieces], NEW r \in Pieces, NEW p \in Pieces
  PROVE  /\ Copy(q, p) \in Nat /\ Copy(Behind(q, r), p) \in Nat
         /\ Copy(Behind(q, r), p) + (IF Dealt(q, r) = p THEN 1 ELSE 0) >= Copy(q, p)
<1> DEFINE n == PreviewCount
           b == Behind(q, r)
           A == {k \in 1..n : q[k] = p}
           B == {k \in 1..n : b[k] = p}
           f == [k \in A \ {1} |-> k - 1]
<1>1. n \in Nat
  BY OptionAssumption
<1>2. IsFiniteSet(1..n) /\ A \in SUBSET (1..n) /\ B \in SUBSET (1..n)
  BY <1>1, FS_Interval
<1>3. /\ n > 0 => Dealt(q, r) = q[1]
      /\ \A k \in 1..n - 1 : b[k] = q[k + 1]
  BY QueueMoves
<1> HIDE DEF n, b
<1>4. f \in Injection(A \ {1}, B)
  <2>1. \A k \in A \ {1} : k - 1 \in 1..n - 1 /\ q[(k - 1) + 1] = p
    BY <1>1
  <2>2. \A k \in A \ {1} : k - 1 \in B
    BY <1>1, <1>3, <2>1
  <2> QED
    BY <1>1, <1>2, <2>2 DEF Injection, IsInjective
<1>5. IsFiniteSet(A) /\ IsFiniteSet(B)
  BY <1>2, FS_Subset
<1> HIDE DEF A, B, f
<1>6. Cardinality(A) \in Nat /\ Cardinality(B) \in Nat
  BY <1>5, FS_CardinalityType
<1>7. Cardinality(A \ {1}) <= Cardinality(B)
  BY <1>4, <1>5, FS_Injection
<1>8. Cardinality(A \ {1}) = IF 1 \in A THEN Cardinality(A) - 1 ELSE Cardinality(A)
  BY <1>5, FS_RemoveElement
<1>9. 1 \in A => Dealt(q, r) = p
  BY <1>1, <1>3 DEF A
<1>10. Copy(q, p) = Cardinality(A) /\ Copy(b, p) = Cardinality(B)
  BY DEF Copy, A, B, n
<1> QED
  BY <1>6, <1>7, <1>8, <1>9, <1>10 DEF b

\* Nothing is lost from g to h.
Keeps(g, h) == \A p \in Pieces : Copies(h, p) >= Copies(g, p)

LEMMA CopiesOf ==
  ASSUME NEW g \in Play, NEW p \in Pieces
  PROVE  /\ Copies(g, p) = Copy(g.nextPiece, p) + (IF g.piece = p THEN 1 ELSE 0)
                             + (IF g.holdPiece = p THEN 1 ELSE 0)
         /\ Copy(g.nextPiece, p) \in Nat /\ p # None
<1>1. g.nextPiece \in [1..PreviewCount -> Pieces]
  BY DEF Play
<1>2. Copy(g.nextPiece, p) \in Nat
  BY <1>1, DealLosesNothing
<1>3. p # None
  BY PieceAssumption DEF PieceType, None
<1> QED
  BY <1>2, <1>3 DEF Copies, Copy

LEMMA SameKeeps ==
  ASSUME NEW g \in Play, NEW h \in Play, SameHold(g, h)
  PROVE  Keeps(g, h)
<1> SUFFICES ASSUME NEW p \in Pieces PROVE Copies(h, p) >= Copies(g, p)
  BY DEF Keeps
<1>1. Copies(h, p) = Copies(g, p) /\ Copies(g, p) \in Int
  BY CopiesOf DEF SameHold
<1> QED
  BY <1>1

LEMMA KeepsOn ==
  ASSUME NEW g \in Play, NEW h \in Play, NEW k \in Play, Keeps(g, h), Keeps(h, k)
  PROVE  Keeps(g, k)
<1> SUFFICES ASSUME NEW p \in Pieces PROVE Copies(k, p) >= Copies(g, p)
  BY DEF Keeps
<1>1. Copies(g, p) \in Int /\ Copies(h, p) \in Int /\ Copies(k, p) \in Int
  BY CopiesOf
<1> QED
  BY <1>1 DEF Keeps

\* newPiece deals what the queue loses; the piece it replaces must be elsewhere.
LEMMA NewPieceKeeps ==
  ASSUME NEW g \in Play, NEW r \in Pieces, g.piece = None \/ g.piece = g.holdPiece
  PROVE  \A p \in Pieces :
           Copies(newPiece(g, r), p) >=
             Copies(g, p) - (IF g.piece = p THEN 1 ELSE 0)
<1> SUFFICES ASSUME NEW p \in Pieces
             PROVE  Copies(newPiece(g, r), p) >= Copies(g, p) - (IF g.piece = p THEN 1 ELSE 0)
  OBVIOUS
<1> DEFINE h == newPiece(g, r)
           c == Copy(g.nextPiece, p)
           d == Copy(h.nextPiece, p)
<1>1. h \in Play
  BY NewPiece DEF InField
<1>2. g.nextPiece \in [1..PreviewCount -> Pieces]
  BY DEF Play
<1>3. h.nextPiece = Behind(g.nextPiece, r) /\ h.piece = Dealt(g.nextPiece, r) /\ h.holdPiece = g.holdPiece
  BY DEF newPiece
<1>4. c \in Nat /\ d \in Nat /\ d + (IF h.piece = p THEN 1 ELSE 0) >= c
  BY <1>2, <1>3, DealLosesNothing
<1> HIDE DEF h
<1>5. /\ Copies(g, p) = c + (IF g.piece = p THEN 1 ELSE 0) + (IF g.holdPiece = p THEN 1 ELSE 0)
      /\ Copies(h, p) = d + (IF h.piece = p THEN 1 ELSE 0) + (IF h.holdPiece = p THEN 1 ELSE 0)
  BY <1>1, CopiesOf
<1> HIDE DEF c, d
<1> QED
  BY <1>3, <1>4, <1>5 DEF h

\* A hold exchanges the two pieces, or deals one.
LEMMA HoldKeeps ==
  ASSUME NEW fld, NEW g, InField(g), Near(g), NEW r \in Pieces
  PROVE  tryHold(fld, g, r) \in Play /\ Keeps(g, tryHold(fld, g, r))
<1>1. g \in Play /\ g.piece \in Pieces /\ tryHold(fld, g, r) \in Play
  BY TryHold DEF InField
<1>2. CASE ~g.holdAvailable
  BY <1>1, <1>2, SameKeeps DEF tryHold, SameHold
<1>3. CASE g.holdAvailable
  <2> DEFINE taken == IF g.holdPiece = None THEN newPiece([g EXCEPT !.holdPiece = g.piece], r)
                                            ELSE Swapped(g)
             used  == [taken EXCEPT !.holdAvailable = FALSE]
  <2>1. taken \in Play /\ Keeps(g, taken)
    <3>1. CASE g.holdPiece = None
      <4> DEFINE put == [g EXCEPT !.holdPiece = g.piece]
      <4>1. put \in Play /\ put.piece = g.piece /\ put.holdPiece = g.piece /\ put.nextPiece = g.nextPiece
        BY <1>1 DEF Play
      <4>2. taken = newPiece(put, r)
        BY <3>1
      <4> HIDE DEF put, taken
      <4>3. taken \in Play
        BY <4>1, <4>2, NewPiece DEF InField
      <4>4. ASSUME NEW p \in Pieces PROVE Copies(taken, p) >= Copies(g, p)
        <5>1. Copies(taken, p) >= Copies(put, p) - (IF put.piece = p THEN 1 ELSE 0)
          BY <4>1, <4>2, NewPieceKeeps
        <5>2. Copies(put, p) = Copies(g, p) + (IF g.piece = p THEN 1 ELSE 0)
          BY <1>1, <3>1, <4>1, CopiesOf
        <5>3. Copies(g, p) \in Int
          BY <1>1, CopiesOf
        <5> QED
          BY <4>1, <5>1, <5>2, <5>3
      <4> QED
        BY <4>3, <4>4 DEF Keeps
    <3>2. CASE g.holdPiece # None
      <4>1. g.holdPiece \in Pieces
        BY <1>1, <3>2 DEF Play
      <4>2. taken = Swapped(g) /\ taken \in Play
        BY <1>1, <3>2, <4>1, SwappedInField DEF InField
      <4> HIDE DEF taken
      <4>3. taken.piece = g.holdPiece /\ taken.holdPiece = g.piece /\ taken.nextPiece = g.nextPiece
        BY <4>2 DEF Swapped
      <4>4. ASSUME NEW p \in Pieces PROVE Copies(taken, p) >= Copies(g, p)
        BY <1>1, <4>2, <4>3, CopiesOf
      <4> QED
        BY <4>2, <4>4 DEF Keeps
    <3> QED
      BY <3>1, <3>2
  <2>2. tryHold(fld, g, r) = updateHardDropY(fld, used)
    BY <1>3 DEF tryHold
  <2> HIDE DEF taken
  <2>3. used \in Play /\ used.piece = taken.piece /\ used.holdPiece = taken.holdPiece
        /\ used.nextPiece = taken.nextPiece
    BY <2>1 DEF Play
  <2> HIDE DEF used
  <2>4. SameHold(used, tryHold(fld, g, r))
    BY <2>2, <2>3, AimedHold
  <2>5. ASSUME NEW p \in Pieces PROVE Copies(tryHold(fld, g, r), p) >= Copies(g, p)
    <3>1. Copies(tryHold(fld, g, r), p) = Copies(taken, p)
      BY <1>1, <2>1, <2>3, <2>4, CopiesOf DEF SameHold
    <3> QED
      BY <2>1, <3>1 DEF Keeps
  <2> QED
    BY <1>1, <2>5 DEF Keeps
<1> QED
  BY <1>2, <1>3

\* A piece is dealt where there was none.
LEMMA SpawnKeeps ==
  ASSUME NEW fld, fld \subseteq Cell, NEW g \in Play, g.piece = None, NEW irs \in {0} \cup Direction,
         NEW ihs \in BOOLEAN, NEW placed, Spawn(fld, g, irs, ihs, placed)
  PROVE  play' \in Play /\ Keeps(g, play')
<1>1. PICK r1 \in Pieces, r2 \in Pieces : Enter(fld, Spawned(fld, g, irs, ihs, r1, r2))
  BY DEF Spawn
<1> DEFINE n == newPiece(g, r1)
           t == Rotated(fld, n, irs)
           s == Spawned(fld, g, irs, ihs, r1, r2)
<1>2. InField(n) /\ Near(n) /\ n \in Play
  BY NewPiece DEF InField
<1>3. Keeps(g, n)
  <2>1. ASSUME NEW p \in Pieces PROVE Copies(n, p) >= Copies(g, p)
    <3>1. Copies(n, p) >= Copies(g, p) - (IF g.piece = p THEN 1 ELSE 0)
      BY NewPieceKeeps
    <3>2. g.piece # p /\ Copies(g, p) \in Int
      BY CopiesOf
    <3> QED
      BY <3>1, <3>2
  <2> QED
    BY <2>1 DEF Keeps
<1>4. s = IF ihs THEN tryHold(fld, t, r2) ELSE t
  BY DEF Spawned
<1> HIDE DEF n, s
<1>5. InField(t) /\ Near(t) /\ t \in Play /\ SameHold(n, t)
  BY <1>2, DoRotate, RotatedHold DEF InField
<1> HIDE DEF t
<1>6. s \in Play /\ Keeps(t, s)
  <2>1. CASE ihs
    BY <1>4, <1>5, <2>1, HoldKeeps
  <2>2. CASE ~ihs
    BY <1>4, <1>5, <2>2, SameKeeps DEF SameHold
  <2> QED
    BY <2>1, <2>2
<1>7. Keeps(g, s)
  BY <1>2, <1>3, <1>5, <1>6, SameKeeps, KeepsOn
<1>8. play' = s \/ play' = updateHardDropY(fld, s)
  BY <1>1 DEF Enter, s
<1>9. InField(s)
  BY SpawnedInField DEF s
<1>10. play' \in Play /\ SameHold(s, play')
  <2>1. CASE play' = s
    BY <1>6, <2>1 DEF SameHold
  <2>2. CASE play' = updateHardDropY(fld, s)
    <3>1. play' \in Play
      BY SpawnStep
    <3> QED
      BY <1>6, <2>2, <3>1, AimedHold
  <2> QED
    BY <1>8, <2>1, <2>2
<1> QED
  BY <1>6, <1>7, <1>10, SameKeeps, KeepsOn

LEMMA AreKeeps ==
  ASSUME TypeOK, NEW i \in Inputs, NEW fld, fld \subseteq Cell, NEW g \in Play, g.piece = None,
         NEW placed, Are(i, fld, g, placed)
  PROVE  Keeps(g, play') /\ (state' = "ARE" => play' = g)
<1> DEFINE irs == IF PersistentAction THEN InitialRotation(i) ELSE irsAmount
           ihs == IF PersistentAction THEN "hold" \in i.keys ELSE ihsFlag
<1>1. irs \in {0} \cup Direction
  BY DEF InitialRotation, Direction, TypeOK
<1>2. ihs \in BOOLEAN
  <2>1. ("hold" \in i.keys) \in BOOLEAN /\ ihsFlag \in BOOLEAN
    BY DEF TypeOK
  <2>2. CASE PersistentAction
    BY <2>1, <2>2, Zenon
  <2>3. CASE ~PersistentAction
    BY <2>1, <2>3, Zenon
  <2> QED
    BY <2>2, <2>3
<1>3. Spawn(fld, g, irs, ihs, placed) \/ (state' = "ARE" /\ play' = g)
  BY DEF Are
<1> HIDE DEF irs, ihs
<1>4. \A a \in {0} \cup Direction, b \in BOOLEAN :
        Spawn(fld, g, a, b, placed) => Keeps(g, play') /\ state' # "ARE"
  <2> SUFFICES ASSUME NEW a \in {0} \cup Direction, NEW b \in BOOLEAN, Spawn(fld, g, a, b, placed)
               PROVE  Keeps(g, play') /\ state' # "ARE"
    OBVIOUS
  <2>1. state' # "ARE"
    BY DEF Spawn, Enter
  <2> QED
    BY <2>1, SpawnKeeps
<1>5. Keeps(g, g)
  BY SameKeeps DEF SameHold
<1> QED
  BY <1>1, <1>2, <1>3, <1>4, <1>5

\* Outside a piece's life no piece is in play.
NoneYet == state \in {"READY", "GO", "NEW_PIECE", "ARE"} => play.piece = None

LEMMA MoveKeeps ==
  ASSUME IInv, NEW i \in Inputs, TickMove(i)
  PROVE  Keeps(play, play')
<1>1. PICK held \in Play :
        /\ held = play \/ \E r \in Pieces : held = tryHold(field, play, r)
        /\ SameHold(held, play')
  BY MoveParts
<1>2. play \in Play /\ play' \in Play /\ InField(play) /\ Near(play)
  <2>1. play' \in Play
    BY MoveStep DEF Good, InField
  <2> QED
    BY <2>1, GoodNear DEF IInv, InPlay, TickMove, TypeOK
<1>3. Keeps(play, held)
  BY <1>1, <1>2, HoldKeeps, SameKeeps DEF SameHold
<1>4. Keeps(held, play')
  BY <1>1, <1>2, SameKeeps
<1> QED
  BY <1>2, <1>3, <1>4, KeepsOn

LEMMA StepKeeps ==
  ASSUME IInv, NoneYet, Next
  PROVE  /\ NoneYet'
         /\ (state \in Active \cup {"NEW_PIECE", "ARE"} /\ state' # "READY") => Keeps(play, play')
<1>0. TypeOK /\ play \in Play /\ field \subseteq Cell /\ irsAmount \in {0} \cup Direction
      /\ ihsFlag \in BOOLEAN
  BY DEF IInv, TypeOK
<1>1. CASE GameReset
  BY <1>1 DEF GameReset, NoneYet
<1>2. ASSUME NEW i \in Inputs, TickAbandon(i) PROVE NoneYet' /\ Keeps(play, play')
  BY <1>0, <1>2, SameKeeps DEF TickAbandon, NoneYet, SameHold
<1>3. ASSUME NEW i \in Inputs, TickReadyGo(i) PROVE NoneYet' /\ state \in {"READY", "GO"}
  <2>1. play'.piece = play.piece /\ state \in {"READY", "GO"}
    BY <1>0, <1>3 DEF TickReadyGo, Play
  <2> QED
    BY <2>1 DEF NoneYet
<1>4. ASSUME NEW i \in Inputs, TickAre(i) PROVE NoneYet' /\ Keeps(play, play')
  <2>1. play.piece = None /\ Are(i, field, play, blocksPlaced)
    BY <1>4 DEF TickAre, NoneYet
  <2>2. state' \in {"GAMEOVER", "FALLING", "ARE"}
    BY <2>1 DEF Are, Spawn, Enter
  <2> QED
    BY <1>0, <2>1, <2>2, AreKeeps DEF NoneYet
<1>5. ASSUME NEW i \in Inputs, TickNewPiece(i) PROVE NoneYet' /\ Keeps(play, play')
  <2>1. play.piece = None /\ Spawn(field, play, irsAmount, ihsFlag, blocksPlaced)
    BY <1>5 DEF TickNewPiece, NoneYet
  <2>2. state' \in {"GAMEOVER", "FALLING"}
    BY <2>1 DEF Spawn, Enter
  <2> QED
    BY <1>0, <2>1, <2>2, SpawnKeeps DEF NoneYet
<1>6. ASSUME NEW i \in Inputs, TickLock(i) PROVE NoneYet' /\ Keeps(play, play')
  <2>1. state' = "LINES" /\ play' \in Play /\ play' = Fallen(play, i.gravity)
    BY <1>6, LockStep DEF TickLock, Good, InField
  <2> QED
    BY <1>0, <2>1, FallenHold, SameKeeps DEF NoneYet
<1>7. ASSUME NEW i \in Inputs, TickMove(i) PROVE NoneYet' /\ Keeps(play, play')
  <2>1. state' \in Active
    BY <1>7, MoveStep
  <2> QED
    BY <1>7, <2>1, MoveKeeps DEF NoneYet, Active
<1>8. ASSUME NEW i \in Inputs, TickLines(i) PROVE NoneYet' /\ state = "LINES"
  <2> DEFINE g == [play EXCEPT !.piece = None]
  <2>1. g \in Play /\ g.piece = None
    BY <1>0 DEF Play
  <2>2. \/ \E fld, placed : Are(i, fld, g, placed)
        \/ state' = "GAMEOVER"
    BY <1>8 DEF TickLines
  <2> HIDE DEF g
  <2>3. state' \in {"GAMEOVER", "FALLING"} \/ (state' = "ARE" /\ play' = g)
    BY <2>2 DEF Are, Spawn, Enter
  <2>4. state = "LINES"
    BY <1>8 DEF TickLines
  <2> QED
    BY <2>1, <2>3, <2>4 DEF NoneYet
<1>9. CASE Tick
  <2>1. state \in {"READY", "GO"} \/ state = "LINES" => state \notin Active \cup {"NEW_PIECE", "ARE"}
    BY DEF Active
  <2> QED
    BY <1>2, <1>3, <1>4, <1>5, <1>6, <1>7, <1>8, <1>9, <2>1 DEF Tick
<1>10. state' = "READY" \/ Tick
  BY DEF Next, GameReset
<1> QED
  BY <1>1, <1>9, <1>10 DEF Next

\* Dealing and holding lose no piece, for every queue, field and sequence of
\* inputs (engine.c:435-500, 626-665).
THEOREM NothingIsLost == Spec => NoPieceLost
<1>1. Init => NoneYet
  BY DEF Init, NoneYet
<1>2. IInv /\ NoneYet /\ [Next]_vars
        => /\ NoneYet'
           /\ [(state \in Active \cup {"NEW_PIECE", "ARE"} /\ state' # "READY")
                => (\A p \in Pieces : Copies(play', p) >= Copies(play, p))]_vars
  <2> SUFFICES ASSUME IInv, NoneYet, [Next]_vars
               PROVE  /\ NoneYet'
                      /\ [(state \in Active \cup {"NEW_PIECE", "ARE"} /\ state' # "READY")
                           => (\A p \in Pieces : Copies(play', p) >= Copies(play, p))]_vars
    OBVIOUS
  <2>1. CASE UNCHANGED vars
    BY <2>1 DEF vars, NoneYet
  <2>2. CASE Next
    BY <2>2, StepKeeps DEF Keeps
  <2> QED
    BY <2>1, <2>2
<1> QED
  BY <1>1, <1>2, Invariance, PTL DEF Spec, NoPieceLost

-----------------------------------------------------------------------------
\* How long things last.  Liveness needs fairness and stays with TLC; that every
\* tick uses up some of a finite supply does not.

\* The supply of a piece in play: the hold it may still use, the rows below it,
\* what is left of its lock delay and of the row it is in, in this order.
Spare(g) == IF g.holdAvailable THEN Height + 4 ELSE 0
Remaining(g) ==
  ((Spare(g) + (Height - g.y)) * (LockTicks + 2) + (LockTicks + 1 - g.lockTimer)) * fix(2)
    + (fix(1) - (g.actualY - fix(g.y)))
Lifetime == (2 * Height + 8) * (LockTicks + 2) * fix(2)

\* What gives a piece more time: a turn by which it does not come down, and a
\* movement where movements reset the lock delay.
Prolongs ==
  \/ play'.theta # play.theta /\ play'.y <= play.y
  \/ LockStyle = "move" /\ play'.x # play.x

\* A number of two digits, the second below n.
LEMMA Digits ==
  ASSUME NEW n \in Nat, NEW a \in Int, NEW b \in 0..n - 1, NEW c \in Int, NEW d \in 0..n - 1,
         a < c \/ (a = c /\ b < d)
  PROVE  a * n + b < c * n + d
<1>1. CASE a < c
  <2>1. c - a - 1 \in Nat
    BY <1>1
  <2>2. (c - a - 1) * n \in Nat
    BY <2>1
  <2>3. (c - a - 1) * n = c * n - a * n - n
    BY <2>1
  <2>4. a * n \in Int /\ c * n \in Int
    OBVIOUS
  <2> QED
    BY <2>2, <2>3, <2>4
<1>2. CASE a = c /\ b < d
  BY <1>2
<1> QED
  BY <1>1, <1>2

LEMMA TwoRows == fix(2) \in Nat /\ fix(2) > 0
BY SMT DEF fix

LEMMA Fraction ==
  ASSUME NEW y \in Int, NEW a \in Int, fix(y - 1) < a, a < fix(y + 1)
  PROVE  fix(1) - (a - fix(y)) \in 1..fix(2) - 1
<1> DEFINE c == fix(1) - (a - fix(y))
<1>1. c \in Int /\ c >= 1 /\ c < fix(2)
  BY SMT DEF fix
<1> HIDE DEF c
<1>2. c \in 1..fix(2) - 1
  BY <1>1, TwoRows, SMT
<1> QED
  BY <1>2 DEF c

LEMMA LowerFraction ==
  ASSUME NEW y \in Int, NEW a \in Int, NEW b \in Int, a < b
  PROVE  fix(1) - (b - fix(y)) < fix(1) - (a - fix(y))
BY SMT DEF fix

\* The digits of Remaining.
LEMMA DigitsOf ==
  ASSUME NEW g, InField(g), Near(g), g.lockTimer <= LockTicks + 1
  PROVE  /\ Spare(g) + (Height - g.y) \in 1..(2 * Height + 7)
         /\ Height - g.y \in 1..(Height + 3)
         /\ LockTicks + 1 - g.lockTimer \in 0..(LockTicks + 2) - 1
         /\ fix(1) - (g.actualY - fix(g.y)) \in 1..fix(2) - 1
<1>1. /\ g \in Play /\ g.piece \in Pieces /\ g.y \in Int /\ g.actualY \in Int /\ g.lockTimer \in Nat
      /\ g.theta \in Theta /\ g.holdAvailable \in BOOLEAN
  BY DEF InField, Play
<1>2. Height \in Nat /\ LockTicks \in Nat
  BY FieldAssumption, TimingAssumption
<1>3. PICK b \in ShapeOf[g.piece][g.theta] : b[2] \in 0..3
  BY <1>1, ShapeBox
<1>4. g.y + b[2] \in 0..Height - 1
  BY <1>1, <1>3, RowsOfPiece DEF InField
<1>5. Height - g.y \in 1..(Height + 3)
  BY <1>1, <1>2, <1>3, <1>4
<1>6. Spare(g) \in {0, Height + 4}
  BY DEF Spare
<1>7. fix(1) - (g.actualY - fix(g.y)) \in 1..fix(2) - 1
  BY <1>1, Fraction DEF Near
<1> QED
  BY <1>1, <1>2, <1>5, <1>6, <1>7

LEMMA RemainingBound ==
  ASSUME NEW g, InField(g), Near(g), g.lockTimer <= LockTicks + 1
  PROVE  Remaining(g) \in 1..Lifetime
<1> DEFINE n == LockTicks + 2
           a == Spare(g) + (Height - g.y)
           b == LockTicks + 1 - g.lockTimer
           c == fix(1) - (g.actualY - fix(g.y))
<1>1. LockTicks \in Nat /\ Height \in Nat
  BY FieldAssumption, TimingAssumption
<1>2. a \in 1..(2 * Height + 7) /\ b \in 0..n - 1 /\ c \in 1..fix(2) - 1 /\ n \in Nat /\ n > 0
  BY <1>1, DigitsOf
<1>3. Remaining(g) = (a * n + b) * fix(2) + c
  BY DEF Remaining
<1>4. Lifetime = ((2 * Height + 8) * n) * fix(2)
  BY DEF Lifetime
<1> HIDE DEF a, b, c, n
<1>5. 0 * n + 0 < a * n + b
  BY <1>2, Digits
<1>6. a * n + b < (2 * Height + 8) * n + 0
  <2> DEFINE m == 2 * Height + 8
  <2>1. m \in Int /\ a < m
    BY <1>1, <1>2
  <2> HIDE DEF m
  <2> QED
    BY <1>2, <2>1, Digits DEF m
<1> DEFINE u == a * n + b
           v == (2 * Height + 8) * n
<1>7. u \in Int /\ v \in Int /\ 0 < u /\ u < v
  BY <1>1, <1>2, <1>5, <1>6
<1> HIDE DEF u, v
<1>8. u * fix(2) + c \in 1..(v * fix(2))
  <2>1. 0 * fix(2) + 0 < u * fix(2) + c /\ u * fix(2) + c < v * fix(2) + 0
    BY <1>2, <1>7, TwoRows, Digits
  <2>2. u * fix(2) \in Int /\ v * fix(2) \in Int
    BY <1>7, TwoRows
  <2>3. c \in Int /\ 0 * fix(2) = 0
    BY <1>2, TwoRows
  <2> DEFINE A == u * fix(2)
             B == v * fix(2)
             Z == 0 * fix(2)
  <2>4. Z + 0 < A + c /\ A + c < B + 0 /\ A \in Int /\ B \in Int /\ Z = 0
    BY <2>1, <2>2, <2>3
  <2> HIDE DEF A, B, Z
  <2>5. A + c \in 1..B
    BY <2>3, <2>4
  <2> QED
    BY <2>5 DEF A, B
<1> QED
  BY <1>3, <1>4, <1>8 DEF u, v

\* The supply falls if one of its digits falls and those before it do not rise.
LEMMA RemainingFalls ==
  ASSUME NEW g, InField(g), Near(g), g.lockTimer <= LockTicks + 1,
         NEW h, InField(h), Near(h), h.lockTimer <= LockTicks + 1,
         \/ g.holdAvailable /\ ~h.holdAvailable
         \/ /\ h.holdAvailable = g.holdAvailable
            /\ \/ h.y > g.y
               \/ h.y = g.y /\ h.lockTimer > g.lockTimer
               \/ h.y = g.y /\ h.lockTimer = g.lockTimer /\ h.actualY > g.actualY
  PROVE  Remaining(h) < Remaining(g)
<1> DEFINE n  == LockTicks + 2
           a(k) == Spare(k) + (Height - k.y)
           b(k) == LockTicks + 1 - k.lockTimer
           c(k) == fix(1) - (k.actualY - fix(k.y))
<1>1. LockTicks \in Nat /\ Height \in Nat
  BY FieldAssumption, TimingAssumption
<1>2. /\ a(g) \in 1..(2 * Height + 7) /\ b(g) \in 0..n - 1 /\ c(g) \in 1..fix(2) - 1
      /\ a(h) \in 1..(2 * Height + 7) /\ b(h) \in 0..n - 1 /\ c(h) \in 1..fix(2) - 1
      /\ n \in Nat /\ fix(2) \in Nat
  BY <1>1, DigitsOf, TwoRows
<1>3. /\ g.y \in Int /\ h.y \in Int /\ g.lockTimer \in Nat /\ h.lockTimer \in Nat
      /\ g.actualY \in Int /\ h.actualY \in Int
  BY DEF InField, Play
<1>4. \/ a(h) < a(g)
      \/ a(h) = a(g) /\ b(h) < b(g)
      \/ a(h) = a(g) /\ b(h) = b(g) /\ c(h) < c(g)
  <2>1. CASE g.holdAvailable /\ ~h.holdAvailable
    <3>1. Height - g.y \in 1..(Height + 3) /\ Height - h.y \in 1..(Height + 3)
      BY DigitsOf
    <3> QED
      BY <1>1, <1>3, <2>1, <3>1 DEF Spare
  <2>2. CASE h.holdAvailable = g.holdAvailable /\ h.y > g.y
    BY <1>1, <1>3, <2>2 DEF Spare
  <2>3. CASE h.holdAvailable = g.holdAvailable /\ h.y = g.y
    <3>1. a(h) = a(g)
      BY <1>1, <1>3, <2>3 DEF Spare
    <3>2. h.lockTimer > g.lockTimer => b(h) < b(g)
      BY <1>1, <1>3
    <3>3. h.lockTimer = g.lockTimer /\ h.actualY > g.actualY => b(h) = b(g) /\ c(h) < c(g)
      BY <1>3, <2>3, LowerFraction
    <3> HIDE DEF a, b, c
    <3> QED
      BY <1>3, <2>3, <3>1, <3>2, <3>3
  <2> QED
    BY <2>1, <2>2, <2>3
<1>5. Remaining(g) = (a(g) * n + b(g)) * fix(2) + c(g) /\ Remaining(h) = (a(h) * n + b(h)) * fix(2) + c(h)
  BY DEF Remaining
<1> HIDE DEF a, b, c, n
<1>6. \/ a(h) * n + b(h) < a(g) * n + b(g)
      \/ a(h) * n + b(h) = a(g) * n + b(g) /\ c(h) < c(g)
  BY <1>2, <1>4, Digits
<1>7. a(h) * n + b(h) \in Int /\ a(g) * n + b(g) \in Int
  BY <1>2
<1>8. (a(h) * n + b(h)) * fix(2) + c(h) < (a(g) * n + b(g)) * fix(2) + c(g)
  <2> DEFINE A == a(h) * n + b(h)
             B == a(g) * n + b(g)
  <2>1. A \in Int /\ B \in Int /\ (A < B \/ (A = B /\ c(h) < c(g)))
    BY <1>6, <1>7
  <2>2. c(h) \in 0..fix(2) - 1 /\ c(g) \in 0..fix(2) - 1
    BY <1>2
  <2> HIDE DEF A, B
  <2>3. A * fix(2) + c(h) < B * fix(2) + c(g)
    BY <1>2, <2>1, <2>2, Digits
  <2> QED
    BY <2>3 DEF A, B
<1> DEFINE p == (a(h) * n + b(h)) * fix(2) + c(h)
           q == (a(g) * n + b(g)) * fix(2) + c(g)
<1>9. Remaining(h) = p /\ Remaining(g) = q /\ p < q
  BY <1>5, <1>8
<1> HIDE DEF p, q
<1> QED
  BY <1>9, Zenon

\* A tick that plays the piece without a hold or a turn: the piece may have moved
\* sideways, then it falls.
LEMMA UnturnedParts ==
  ASSUME IInv, NEW i \in Inputs, TickMove(i),
         play'.theta = play.theta, play'.holdAvailable = play.holdAvailable
  PROVE  \E aimed \in Play, timer \in Nat :
           /\ aimed.y = play.y /\ aimed.actualY = play.actualY /\ aimed.lockTimer = play.lockTimer
           /\ InField(aimed) /\ Near(aimed) /\ Ghost(field, aimed) /\ aimed.y <= aimed.hardDropY
           /\ timer = Fallen(aimed, i.gravity).lockTimer \/ (LockStyle = "move" /\ aimed.x # play.x)
           /\ state' = FallState(state, aimed, i.gravity)
           /\ play' = [Fallen(aimed, i.gravity) EXCEPT !.lockTimer =
                         IF state' = "LANDED" THEN timer + 1 ELSE timer]
<1>1. PICK r \in Pieces :
        LET held   == IF "hold" \in i.extra THEN tryHold(field, play, r) ELSE play
            turned == Rotated(field, held, i.rotation)
        IN  Settle(held, turned, Moved(field, turned, i.movement), i.gravity)
  BY DEF TickMove
<1> DEFINE held    == IF "hold" \in i.extra THEN tryHold(field, play, r) ELSE play
           turned  == Rotated(field, held, i.rotation)
           shifted == Moved(field, turned, i.movement)
           acted   == turned.theta # held.theta \/ shifted.x # turned.x
           aimed   == IF acted THEN updateHardDropY(field, shifted) ELSE shifted
           fallen  == Fallen(aimed, i.gravity)
           timer   == IF acted /\ LockStyle = "move" THEN 0 ELSE fallen.lockTimer
<1>2. i.movement \in Int /\ i.rotation \in {0} \cup Direction /\ i.gravity \in Nat
  BY InputAssumption DEF Input
<1>3. InField(play) /\ Near(play) /\ Ghost(field, play) /\ play.y <= play.hardDropY
  BY GoodNear DEF IInv, InPlay, TickMove, Good
<1>4. /\ state' = FallState(state, aimed, i.gravity)
      /\ play'  = [fallen EXCEPT !.lockTimer = IF state' = "LANDED" THEN timer + 1 ELSE timer]
  <2>1. Settle(held, turned, shifted, i.gravity)
    BY <1>1
  <2> HIDE DEF held, turned, shifted
  <2>2. CASE acted
    BY <2>1, <2>2 DEF Settle, Fall
  <2>3. CASE ~acted
    BY <2>1, <2>3 DEF Settle, Fall
  <2> QED
    BY <2>2, <2>3
<1>5. /\ InField(held) /\ Near(held) /\ Ghost(field, held)
      /\ held = play \/ (play.holdAvailable /\ ~held.holdAvailable)
  BY <1>3, TryHold, HoldUsed
<1> HIDE DEF held
<1>6. /\ InField(turned) /\ Near(turned) /\ SameHold(held, turned)
      /\ turned = held \/ (turned.theta # held.theta /\ Free(field, turned))
  BY <1>2, <1>5, DoRotate, RotatedHold DEF Free
<1> HIDE DEF turned
<1>7. /\ InField(shifted) /\ Near(shifted) /\ SameHold(turned, shifted)
      /\ shifted.y = turned.y /\ shifted.actualY = turned.actualY /\ shifted.theta = turned.theta
      /\ shifted.lockTimer = turned.lockTimer
      /\ shifted = turned \/ (shifted.x # turned.x /\ Free(field, shifted))
  <2>1. turned \in Play
    BY <1>6 DEF InField
  <2> QED
    BY <1>2, <1>6, <2>1, MovedInField, MovedHold DEF Moved, Play, Free
<1> HIDE DEF shifted
<1>8. /\ InField(aimed) /\ Near(aimed) /\ Ghost(field, aimed) /\ SameHold(shifted, aimed)
      /\ aimed.x = shifted.x /\ aimed.y = shifted.y /\ aimed.actualY = shifted.actualY
      /\ aimed.theta = shifted.theta /\ aimed.lockTimer = shifted.lockTimer
      /\ aimed = held \/ aimed.y <= aimed.hardDropY
  <2>1. CASE acted
    <3> DEFINE h == updateHardDropY(field, shifted)
    <3>1. Free(field, shifted)
      BY <1>6, <1>7, <2>1
    <3>2. InField(h) /\ Ghost(field, h) /\ h = [shifted EXCEPT !.hardDropY = h.hardDropY]
      BY <1>7, <3>1, UpdateHardDropY DEF Free
    <3>3. h.y <= h.hardDropY
      BY <1>7, <3>1, GhostIsFirst
    <3>4. SameHold(shifted, h)
      BY <1>7, AimedHold DEF InField
    <3>5. aimed = h
      BY <2>1
    <3> HIDE DEF h
    <3>6. /\ h.x = shifted.x /\ h.actualY = shifted.actualY /\ h.y = shifted.y
          /\ h.theta = shifted.theta /\ h.lockTimer = shifted.lockTimer
      BY <1>7, <3>2 DEF InField, Play
    <3> QED
      BY <1>7, <3>2, <3>3, <3>4, <3>5, <3>6 DEF Near
  <2>2. CASE ~acted
    <3>1. shifted = held /\ aimed = shifted
      BY <1>6, <1>7, <2>2
    <3> QED
      BY <1>5, <3>1 DEF SameHold
  <2> QED
    BY <2>1, <2>2
<1> HIDE DEF aimed
<1>9. /\ InField(fallen) /\ SameHold(aimed, fallen) /\ fallen.theta = aimed.theta
  <2>1. aimed \in Play
    BY <1>8 DEF InField
  <2>2. fallen.theta = aimed.theta
    <3>1. CASE Reaches(aimed, i.gravity)
      BY <2>1, <3>1 DEF Fallen, Play
    <3>2. CASE ~Reaches(aimed, i.gravity)
      BY <2>1, <3>2 DEF Fallen, Play
    <3> QED
      BY <3>1, <3>2
  <2> QED
    BY <1>2, <1>8, <2>1, <2>2, FallsInField, FallenHold
<1>10. timer \in Nat
  BY <1>9 DEF InField, Play
<1>11. play'.theta = fallen.theta /\ play'.holdAvailable = fallen.holdAvailable
  BY <1>4, <1>9 DEF InField, Play
<1>12. held = play
  BY <1>5, <1>6, <1>7, <1>8, <1>9, <1>11 DEF SameHold
<1>13. turned = play
  BY <1>6, <1>7, <1>8, <1>9, <1>11, <1>12
<1>14. timer = fallen.lockTimer \/ (LockStyle = "move" /\ aimed.x # play.x)
  BY <1>8, <1>12, <1>13
<1>15. /\ aimed.y = play.y /\ aimed.actualY = play.actualY /\ aimed.lockTimer = play.lockTimer
       /\ aimed.y <= aimed.hardDropY
  BY <1>3, <1>7, <1>8, <1>12, <1>13
<1> HIDE DEF timer
<1> QED
  BY <1>4, <1>8, <1>10, <1>14, <1>15 DEF InField

\* It falls, or uses up its lock delay.
LEMMA MoveUses ==
  ASSUME IInv, Gravity > 0, NEW i \in Inputs, TickMove(i)
  PROVE  Prolongs \/ Remaining(play') < Remaining(play)
<1>1. /\ InField(play) /\ Near(play) /\ play.lockTimer <= LockTicks + 1
      /\ InField(play') /\ Near(play') /\ play'.lockTimer <= LockTicks + 1
      /\ play.y = unfixflr(play.actualY)
      /\ state \in Active /\ state' \in Active
  <2>1. Good(field, play) /\ Good(field, play') /\ state \in Active /\ state' \in Active
    BY MoveStep DEF IInv, InPlay, TickMove
  <2>2. /\ play.lockTimer <= LockTicks + (IF state = "FALLING" THEN 0 ELSE 1)
        /\ play'.lockTimer <= LockTicks + (IF state' = "FALLING" THEN 0 ELSE 1)
    BY MoveStep DEF IInv, TimersBounded
  <2>3. LockTicks \in Nat /\ play.lockTimer \in Nat /\ play'.lockTimer \in Nat
    BY <2>1, TimingAssumption DEF Good, InField, Play
  <2>4. play.lockTimer <= LockTicks + 1 /\ play'.lockTimer <= LockTicks + 1
    BY <2>2, <2>3
  <2> QED
    BY <2>1, <2>4, GoodNear DEF Good
<1>2. /\ play.y \in Int /\ play'.y \in Int /\ play.actualY \in Int /\ play'.actualY \in Int
      /\ play.lockTimer \in Nat /\ play'.lockTimer \in Nat
      /\ play.holdAvailable \in BOOLEAN /\ play'.holdAvailable \in BOOLEAN
  BY <1>1 DEF InField, Play
<1>3. play'.holdAvailable = play.holdAvailable \/ (play.holdAvailable /\ ~play'.holdAvailable)
  BY MoveParts DEF SameHold
<1>4. CASE play.holdAvailable /\ ~play'.holdAvailable
  BY <1>1, <1>4, RemainingFalls
<1>5. CASE play'.holdAvailable = play.holdAvailable /\ play'.y > play.y
  BY <1>1, <1>5, RemainingFalls
<1>6. CASE play'.theta # play.theta /\ play'.y <= play.y
  BY <1>6 DEF Prolongs
<1>7. CASE /\ play'.holdAvailable = play.holdAvailable /\ play'.theta = play.theta
           /\ ~(play'.y > play.y)
  <2>1. PICK aimed \in Play, timer \in Nat :
          /\ aimed.y = play.y /\ aimed.actualY = play.actualY /\ aimed.lockTimer = play.lockTimer
          /\ InField(aimed) /\ Near(aimed) /\ Ghost(field, aimed) /\ aimed.y <= aimed.hardDropY
          /\ timer = Fallen(aimed, i.gravity).lockTimer \/ (LockStyle = "move" /\ aimed.x # play.x)
          /\ state' = FallState(state, aimed, i.gravity)
          /\ play' = [Fallen(aimed, i.gravity) EXCEPT !.lockTimer =
                        IF state' = "LANDED" THEN timer + 1 ELSE timer]
    BY <1>7, UnturnedParts
  <2> DEFINE fallen == Fallen(aimed, i.gravity)
  <2>2. i.gravity \in Nat
    BY InputAssumption DEF Input
  <2>3. InField(fallen)
    BY <2>1, <2>2, FallsInField
  <2>4. /\ play'.y = fallen.y /\ play'.x = fallen.x /\ play'.actualY = fallen.actualY
        /\ play'.lockTimer = IF state' = "LANDED" THEN timer + 1 ELSE timer
    BY <2>1, <2>3 DEF InField, Play
  <2>5. fallen.x = aimed.x
    <3>1. CASE Reaches(aimed, i.gravity)
      BY <3>1 DEF Fallen, Play
    <3>2. CASE ~Reaches(aimed, i.gravity)
      BY <3>2 DEF Fallen, Play
    <3> QED
      BY <3>1, <3>2
  <2>6. CASE LockStyle = "move" /\ aimed.x # play.x
    BY <2>4, <2>5, <2>6 DEF Prolongs
  <2>7. CASE timer = fallen.lockTimer /\ Reaches(aimed, i.gravity)
    <3>1. fallen.y = aimed.hardDropY /\ fallen.lockTimer = aimed.lockTimer
      BY <2>7 DEF Fallen, Play
    <3>2. aimed.hardDropY \in Int
      BY DEF Play
    <3>3. play'.y = play.y
      BY <1>2, <1>7, <2>1, <2>4, <3>1, <3>2
    <3>4. state' = "LANDED"
      BY <1>1, <2>1, <2>7 DEF FallState, Active
    <3>5. play'.lockTimer > play.lockTimer
      BY <1>2, <2>1, <2>4, <2>7, <3>1, <3>4
    <3> QED
      BY <1>1, <1>7, <3>3, <3>5, RemainingFalls
  <2>8. CASE timer = fallen.lockTimer /\ ~Reaches(aimed, i.gravity)
    <3> DEFINE v == PulledY(aimed, i.gravity)
    <3>1. /\ fallen.y = unfixflr(v) /\ fallen.actualY = v
          /\ unfixflr(v) = play.y => fallen.lockTimer = aimed.lockTimer
      BY <1>2, <2>1, <2>8 DEF Fallen, Play
    <3>2. v \in Int /\ v > play.actualY
      <4>1. fix(i.gravity) \in Nat
        BY <2>2, SMT DEF fix
      <4>2. Gravity \in Nat
        BY TimingAssumption
      <4>3. v = play.actualY + Gravity + fix(i.gravity)
        BY <2>1 DEF PulledY
      <4> QED
        BY <1>2, <4>1, <4>2, <4>3
    <3> HIDE DEF v
    <3>3. unfixflr(play.actualY) <= unfixflr(v)
      BY <1>2, <3>2, RowMonotone
    <3>4. play'.y = play.y
      BY <1>1, <1>2, <1>7, <2>4, <3>1, <3>3
    <3>5. state' = "FALLING"
      BY <2>1, <2>8 DEF FallState
    <3>6. play'.lockTimer = play.lockTimer /\ play'.actualY > play.actualY
      BY <2>1, <2>4, <2>8, <3>1, <3>2, <3>4, <3>5
    <3> QED
      BY <1>1, <1>7, <3>4, <3>6, RemainingFalls
  <2> QED
    BY <2>1, <2>6, <2>7, <2>8
<1> QED
  BY <1>2, <1>3, <1>4, <1>5, <1>6, <1>7

\* A piece does not stay in play for long, under any lock style: with every tick
\* it has less left of a supply that Lifetime bounds, except when a wallkick holds
\* it up or, where movements reset the lock delay, it moves (engine.c:667-745).
THEOREM PiecesRunOut ==
  ASSUME Gravity > 0
  PROVE  Spec => /\ [](state \in Active => Remaining(play) \in 1..Lifetime)
                 /\ [][(state \in Active /\ state' \in Active)
                         => (Prolongs \/ Remaining(play') < Remaining(play))]_vars
<1>1. IInv => (state \in Active => Remaining(play) \in 1..Lifetime)
  <2> SUFFICES ASSUME IInv, state \in Active PROVE Remaining(play) \in 1..Lifetime
    OBVIOUS
  <2>1. InField(play) /\ Near(play) /\ play.lockTimer <= LockTicks + 1
    <3>1. Good(field, play) /\ play.lockTimer \in Nat
      BY DEF IInv, InPlay, Good, InField, Play
    <3> QED
      BY <3>1, GoodNear, TimingAssumption DEF IInv, TimersBounded
  <2> QED
    BY <2>1, RemainingBound
<1>2. IInv /\ [Next]_vars
        => [(state \in Active /\ state' \in Active)
              => (Prolongs \/ Remaining(play') < Remaining(play))]_vars
  <2> SUFFICES ASSUME IInv, Next, state \in Active, state' \in Active
               PROVE  Prolongs \/ Remaining(play') < Remaining(play)
    OBVIOUS
  <2>1. CASE GameReset
    BY <2>1 DEF GameReset, Active, Finished
  <2>2. CASE Tick
    <3> PICK i \in Inputs : \/ TickAbandon(i) \/ TickReadyGo(i) \/ TickAre(i) \/ TickNewPiece(i)
                            \/ TickLock(i) \/ TickMove(i) \/ TickLines(i)
      BY <2>2 DEF Tick
    <3>1. CASE TickLock(i)
      BY <3>1, LockStep DEF Active
    <3>2. CASE TickMove(i)
      BY <3>2, MoveUses
    <3> QED
      BY <3>1, <3>2 DEF TickAbandon, TickReadyGo, TickAre, TickNewPiece, TickLines, Active
  <2> QED
    BY <2>1, <2>2 DEF Next
<1> QED
  BY <1>1, <1>2, Invariance, PTL DEF Spec

\* What is left of the time between two pieces.
Between == {"READY", "GO", "NEW_PIECE", "ARE", "LINES"}
Countdown ==
  CASE state \in {"READY", "GO"} -> 2 + (ReadyTicks + GoTicks - genericCounter)
    [] state = "NEW_PIECE"       -> 1
    [] state = "ARE"             -> AreTicks + 2 - areTimer
    [] state = "LINES"           -> AreTicks + 3 - areTimer
    [] OTHER                     -> 0

LEMMA WaitFalls ==
  ASSUME IInv, Next, state \in Between, state' \in Between
  PROVE  Countdown' < Countdown
<1>1. /\ areTimer \in Nat /\ genericCounter \in Nat /\ AreTicks \in Nat /\ ReadyTicks \in Nat
      /\ GoTicks \in Nat /\ areTimer <= AreTicks + 1
      /\ state \in {"READY", "GO"} => genericCounter <= ReadyTicks + GoTicks
  BY TimingAssumption DEF IInv, TypeOK, TimersBounded
<1>2. CASE GameReset
  BY <1>2 DEF GameReset, Finished, Between
<1>3. ASSUME NEW i, NEW fld, NEW g, NEW placed, Are(i, fld, g, placed)
      PROVE  state' = "ARE" /\ areTimer' = areTimer + 1
  BY <1>3 DEF Are, Spawn, Enter, Between
<1>4. CASE Tick
  <2> PICK i \in Inputs : \/ TickAbandon(i) \/ TickReadyGo(i) \/ TickAre(i) \/ TickNewPiece(i)
                          \/ TickLock(i) \/ TickMove(i) \/ TickLines(i)
    BY <1>4 DEF Tick
  <2>1. CASE TickReadyGo(i)
    <3>1. /\ state \in {"READY", "GO"} /\ genericCounter' = genericCounter + 1
          /\ state' = "NEW_PIECE" \/ state' \in {"READY", "GO"}
      BY <2>1 DEF TickReadyGo
    <3> QED
      BY <1>1, <3>1 DEF Countdown
  <2>2. CASE TickAre(i)
    <3>1. state = "ARE" /\ state' = "ARE" /\ areTimer' = areTimer + 1
      BY <1>3, <2>2 DEF TickAre
    <3> QED
      BY <1>1, <3>1 DEF Countdown
  <2>3. CASE TickLines(i)
    <3>1. state = "LINES" /\ (state' = "GAMEOVER" \/ \E fld, g, placed : Are(i, fld, g, placed))
      BY <2>3 DEF TickLines
    <3>2. state' = "ARE" /\ areTimer' = areTimer + 1
      BY <1>3, <3>1 DEF Between
    <3> QED
      BY <1>1, <3>1, <3>2 DEF Countdown
  <2>4. ~TickAbandon(i) /\ ~TickNewPiece(i) /\ ~TickLock(i) /\ ~TickMove(i)
    BY DEF TickAbandon, TickNewPiece, Spawn, Enter, TickLock, TickMove, Between, Active
  <2> QED
    BY <2>1, <2>2, <2>3, <2>4
<1> QED
  BY <1>2, <1>4 DEF Next

\* Each phase between two pieces counts down with every tick and hands over to a
\* later one: the wait is never longer than the delays that the options set, and
\* no comparison of a timer is passed over (engine.c:556-665, 747-786).
THEOREM PhasesRunOut ==
  Spec => /\ [](state \in Between => Countdown \in 1..(ReadyTicks + GoTicks + AreTicks + 3))
          /\ [][(state \in Between /\ state' \in Between) => (Countdown' < Countdown)]_vars
<1>1. IInv => (state \in Between => Countdown \in 1..(ReadyTicks + GoTicks + AreTicks + 3))
  BY TimingAssumption DEF IInv, TypeOK, TimersBounded, Between, Countdown
<1>2. IInv /\ [Next]_vars
        => [(state \in Between /\ state' \in Between) => (Countdown' < Countdown)]_vars
  BY WaitFalls
<1> QED
  BY <1>1, <1>2, Invariance, PTL DEF Spec

\* A tick always does something, whatever the input and the phase: the engine
\* cannot be ticked for ever in one and the same state, so that what the two
\* theorems above say of steps they say of ticks.
THEOREM NoTickIdles ==
  ASSUME IInv, Gravity > 0, Tick
  PROVE  vars' # vars
<1> PICK i \in Inputs : \/ TickAbandon(i) \/ TickReadyGo(i) \/ TickAre(i) \/ TickNewPiece(i)
                        \/ TickLock(i) \/ TickMove(i) \/ TickLines(i)
  BY DEF Tick
<1>1. areTimer \in Nat /\ genericCounter \in Nat /\ blocksPlaced \in Nat
  BY DEF IInv, TypeOK
<1>2. CASE TickAbandon(i)
  <2>1. state' # state
    BY <1>2 DEF TickAbandon
  <2> QED
    BY <2>1 DEF vars
<1>3. CASE TickReadyGo(i)
  <2>1. genericCounter' = genericCounter + 1
    BY <1>3 DEF TickReadyGo
  <2> QED
    BY <1>1, <2>1 DEF vars
<1>4. CASE TickAre(i)
  <2>1. state = "ARE" /\ (state' \in {"GAMEOVER", "FALLING"} \/ areTimer' = areTimer + 1)
    BY <1>4 DEF TickAre, Are, Spawn, Enter
  <2> QED
    BY <1>1, <2>1 DEF vars
<1>5. CASE TickNewPiece(i)
  BY <1>5 DEF TickNewPiece, Spawn, Enter, vars
<1>6. CASE TickLock(i)
  BY <1>6, LockStep DEF TickLock, Active, vars
<1>7. CASE TickMove(i)
  <2>1. state \in Active /\ InField(play) /\ Near(play) /\ play.lockTimer <= LockTicks + 1
    <3>1. state \in Active /\ Good(field, play) /\ play.lockTimer \in Nat
      BY <1>7 DEF IInv, InPlay, Good, InField, Play, TickMove
    <3> QED
      BY <3>1, GoodNear, TimingAssumption DEF IInv, TimersBounded
  <2>2. Remaining(play) \in Int
    BY <2>1, RemainingBound
  <2>3. Prolongs \/ Remaining(play') < Remaining(play)
    BY <1>7, MoveUses
  <2>4. play' # play
    <3>1. ASSUME play' = play PROVE ~Prolongs /\ Remaining(play') = Remaining(play)
      BY <3>1 DEF Prolongs
    <3> QED
      BY <2>2, <2>3, <3>1
  <2> QED
    BY <2>4 DEF vars
<1>8. CASE TickLines(i)
  <2>1. blocksPlaced' = blocksPlaced + 1
    BY <1>8 DEF TickLines
  <2> QED
    BY <1>1, <2>1 DEF vars
<1> QED
  BY <1>2, <1>3, <1>4, <1>5, <1>6, <1>7, <1>8
=============================================================================
