---------------------------- MODULE StackProofs ----------------------------
(***************************************************************************)
(* Proofs about Stack: line clears leave no full row and create no cells.  *)
(***************************************************************************)
EXTENDS Stack, FiniteSetTheorems, TLAPS

Rows == 0..Height - 1

\* Where a row goes when the full rows S below it vanish.
Fall(S, y) == y + Below(S, y)

LEMMA FiniteRows ==
  ASSUME BoardAssumption
  PROVE  /\ IsFiniteSet(Rows) /\ Cardinality(Rows) = Height
         /\ \A S \in SUBSET Rows : IsFiniteSet(S) /\ Cardinality(S) \in Nat
<1>1. IsFiniteSet(Rows) /\ Cardinality(Rows) = Height
  BY FS_Interval DEF Rows, BoardAssumption
<1> QED
  BY <1>1, FS_Subset, FS_CardinalityType

LEMMA BelowType ==
  ASSUME BoardAssumption, NEW S \in SUBSET Rows, NEW y \in Rows
  PROVE  Below(S, y) \in Nat /\ IsFiniteSet({r \in S : r > y})
  BY FiniteRows DEF Below

LEMMA DisjointUnion ==
  ASSUME NEW S, NEW T, IsFiniteSet(S), IsFiniteSet(T), S \cap T = {}
  PROVE  Cardinality(S \cup T) = Cardinality(S) + Cardinality(T)
<1>1. Cardinality(S \cap T) = 0
  BY FS_EmptySet
<1>2. Cardinality(S) \in Nat /\ Cardinality(T) \in Nat
  BY FS_CardinalityType
<1>3. Cardinality(S \cup T) = Cardinality(S) + Cardinality(T) - Cardinality(S \cap T)
  BY FS_Union
<1> QED
  BY <1>1, <1>2, <1>3

\* Rows that do not vanish keep their order.
LEMMA FallKeepsOrder ==
  ASSUME BoardAssumption, NEW S \in SUBSET Rows, NEW y \in Rows, NEW z \in Rows \ S, y < z
  PROVE  Fall(S, y) < Fall(S, z)
<1> DEFINE between == {r \in S : y < r /\ r < z}
           above == {r \in S : r > z}
<1>0. y \in Int /\ z \in Int /\ \A r \in S : r \in Int /\ r # z
  BY DEF Rows, BoardAssumption
<1>1. {r \in S : r > y} = between \cup above /\ between \cap above = {}
  <2>1. \A r \in S : r > y <=> (y < r /\ r < z) \/ r > z
    BY <1>0
  <2>2. \A r \in S : ~(r < z /\ r > z)
    BY <1>0
  <2> QED
    BY <2>1, <2>2
<1>2. between \in SUBSET Rows /\ above \in SUBSET Rows
  OBVIOUS
<1>3. IsFiniteSet(between) /\ IsFiniteSet(above) /\ Cardinality(between) \in Nat
      /\ Cardinality(above) \in Nat
  BY <1>2, FiniteRows
<1>4. Cardinality(between \cup above) = Cardinality(between) + Cardinality(above)
  BY <1>1, <1>3, DisjointUnion
<1>5. Cardinality(between) <= z - y - 1
  <2>1. between \in SUBSET (y + 1..z - 1)
    <3>1. \A r \in S : y < r /\ r < z => r \in y + 1..z - 1
      BY <1>0
    <3> QED
      BY <3>1
  <2>2. IsFiniteSet(y + 1..z - 1) /\ Cardinality(y + 1..z - 1) = z - y - 1
    <3>1. y + 1 \in Int /\ z - 1 \in Int
      BY <1>0
    <3>2. /\ IsFiniteSet(y + 1..z - 1)
          /\ Cardinality(y + 1..z - 1) = IF y + 1 > z - 1 THEN 0 ELSE (z - 1) - (y + 1) + 1
      BY <3>1, FS_Interval
    <3> QED
      BY <3>2, <1>0
  <2>3. Cardinality(between) <= Cardinality(y + 1..z - 1)
    BY <2>1, <2>2, FS_Subset
  <2> QED
    BY <2>2, <2>3
<1>6. Below(S, y) = Cardinality(between) + Cardinality(above)
  BY <1>1, <1>4 DEF Below
<1>7. Below(S, z) = Cardinality(above)
  BY DEF Below
<1> QED
  BY <1>0, <1>3, <1>5, <1>6, <1>7 DEF Fall

\* No row falls through the floor.
LEMMA FallStaysAbove ==
  ASSUME BoardAssumption, NEW S \in SUBSET Rows, NEW y \in Rows
  PROVE  Fall(S, y) \in Rows
<1>1. y \in Int /\ 0 <= y /\ y <= Height - 1 /\ Height \in Int
  BY DEF Rows, BoardAssumption
<1>2. {r \in S : r > y} \in SUBSET (y + 1..Height - 1)
  <2>1. \A r \in S : r > y => r \in y + 1..Height - 1
    BY <1>1 DEF Rows
  <2> QED
    BY <2>1
<1>3. IsFiniteSet(y + 1..Height - 1) /\ Cardinality(y + 1..Height - 1) = Height - 1 - y
  <2>1. y + 1 \in Int /\ Height - 1 \in Int
    BY <1>1
  <2>2. /\ IsFiniteSet(y + 1..Height - 1)
        /\ Cardinality(y + 1..Height - 1) =
             IF y + 1 > Height - 1 THEN 0 ELSE (Height - 1) - (y + 1) + 1
    BY <2>1, FS_Interval
  <2> QED
    BY <2>2, <1>1
<1>4. Cardinality({r \in S : r > y}) <= Cardinality(y + 1..Height - 1)
  BY <1>2, <1>3, FS_Subset
<1>5. Below(S, y) <= Height - 1 - y
  BY <1>3, <1>4 DEF Below
<1>6. Below(S, y) \in Nat
  BY BelowType
<1> QED
  BY <1>1, <1>5, <1>6 DEF Fall, Rows

LEMMA ClearedOnBoard ==
  ASSUME BoardAssumption, NEW b \in SUBSET Cell
  PROVE  Cleared(b) \in SUBSET Cell
<1>1. Full(b) \in SUBSET Rows
  BY DEF Full, Rows
<1> SUFFICES ASSUME NEW c \in b, c[2] \notin Full(b)
             PROVE  <<c[1], c[2] + Below(Full(b), c[2])>> \in Cell
  BY DEF Cleared
<1>2. c[1] \in 0..Width - 1 /\ c[2] \in Rows
  BY DEF Cell, Rows
<1>3. c[2] + Below(Full(b), c[2]) \in Rows
  BY <1>1, <1>2, FallStaysAbove DEF Fall
<1> QED
  BY <1>2, <1>3 DEF Cell, Rows

\* A row that is full after a line clear would come from one row, full before.
LEMMA ClearedHasNoFullRow ==
  ASSUME BoardAssumption, NEW b \in SUBSET Cell
  PROVE  Full(Cleared(b)) = {}
<1> DEFINE F == Full(b)
<1>1. F \in SUBSET Rows
  BY DEF Full, Rows
<1> SUFFICES ASSUME NEW y \in Full(Cleared(b)) PROVE FALSE
  OBVIOUS
<1>2. y \in Rows /\ \A x \in 0..Width - 1 : <<x, y>> \in Cleared(b)
  BY DEF Full, Rows
<1>3. \A x \in 0..Width - 1 : \E r \in Rows \ F : <<x, r>> \in b /\ Fall(F, r) = y
  <2> SUFFICES ASSUME NEW x \in 0..Width - 1
               PROVE  \E r \in Rows \ F : <<x, r>> \in b /\ Fall(F, r) = y
    OBVIOUS
  <2>1. PICK c \in b : c[2] \notin F /\ <<x, y>> = <<c[1], c[2] + Below(F, c[2])>>
    BY <1>2 DEF Cleared
  <2>2. c[1] \in 0..Width - 1 /\ c[2] \in Rows /\ c = <<c[1], c[2]>>
    BY DEF Cell, Rows
  <2>3. x = c[1] /\ Fall(F, c[2]) = y
    BY <2>1 DEF Fall
  <2> QED
    BY <2>1, <2>2, <2>3
<1>4. 0 \in 0..Width - 1
  BY DEF BoardAssumption
<1>5. PICK r \in Rows \ F : Fall(F, r) = y
  BY <1>3, <1>4
<1>6. \A s \in Rows \ F : Fall(F, s) = y => s = r
  <2> SUFFICES ASSUME NEW s \in Rows \ F, Fall(F, s) = y, s # r PROVE FALSE
    OBVIOUS
  <2>1. s < r \/ r < s
    BY DEF Rows, BoardAssumption
  <2>2. y \in Int
    BY <1>2 DEF Rows, BoardAssumption
  <2> QED
    BY <1>1, <1>5, <2>1, <2>2, FallKeepsOrder
<1>7. \A x \in 0..Width - 1 : <<x, r>> \in b
  BY <1>3, <1>6
<1>8. r \in F
  BY <1>7 DEF Full, Rows
<1> QED
  BY <1>5, <1>8

\* A line clear takes away the cells of the full rows, a row's worth for each.
LEMMA FiniteCell == BoardAssumption => IsFiniteSet(Cell)
<1> SUFFICES ASSUME BoardAssumption PROVE IsFiniteSet(Cell)
  OBVIOUS
<1>1. 0 \in Int /\ Width - 1 \in Int /\ Height - 1 \in Int
  BY DEF BoardAssumption
<1> QED
  BY <1>1, FS_Interval, FS_Product DEF Cell

LEMMA ClearedCounts ==
  ASSUME BoardAssumption, NEW b \in SUBSET Cell
  PROVE  /\ Cardinality(b) \in Nat /\ Cardinality(Cleared(b)) \in Nat /\ Cardinality(Full(b)) \in Nat
         /\ Cardinality(Cleared(b)) + Width * Cardinality(Full(b)) <= Cardinality(b)
<1> DEFINE F == Full(b)
           gone == (0..Width - 1) \X F
           kept == {d \in b : d[2] \notin F}
           f == [c \in kept |-> <<c[1], c[2] + Below(F, c[2])>>]
<1>1. IsFiniteSet(b) /\ IsFiniteSet(kept) /\ IsFiniteSet(Cleared(b)) /\ IsFiniteSet(F)
  <2>1. F \in SUBSET Rows /\ kept \in SUBSET Cell
    BY DEF Full, Rows
  <2> QED
    BY <2>1, FiniteCell, FS_Subset, FiniteRows, ClearedOnBoard
<1>2. /\ Cardinality(b) \in Nat /\ Cardinality(Cleared(b)) \in Nat /\ Cardinality(F) \in Nat
      /\ Cardinality(kept) \in Nat
  BY <1>1, FS_CardinalityType
<1>3. Cardinality(Cleared(b)) <= Cardinality(kept)
  <2>1. f \in Surjection(kept, Cleared(b))
    BY DEF Surjection, Cleared
  <2> QED
    BY <2>1, <1>1, FS_Surjection
<1>4. IsFiniteSet(gone) /\ Cardinality(gone) = Width * Cardinality(F)
  <2>1. IsFiniteSet(0..Width - 1) /\ Cardinality(0..Width - 1) = Width
    BY FS_Interval DEF BoardAssumption
  <2> QED
    BY <2>1, <1>1, FS_Product
<1>5. b = gone \cup kept /\ gone \cap kept = {}
  <2>1. \A c \in b : c[1] \in 0..Width - 1 /\ c = <<c[1], c[2]>>
    BY DEF Cell
  <2>2. gone \subseteq b
    BY DEF Full
  <2>3. b \subseteq gone \cup kept
    BY <2>1
  <2> QED
    BY <2>2, <2>3
<1>6. Cardinality(b) = Cardinality(gone) + Cardinality(kept)
  BY <1>1, <1>4, <1>5, DisjointUnion
<1> QED
  BY <1>2, <1>3, <1>4, <1>6 DEF BoardAssumption

-----------------------------------------------------------------------------
IInv == TypeOK /\ NoFullRow /\ NothingFromNothing

LEMMA InitInv == BoardAssumption /\ Init => IInv
<1> SUFFICES ASSUME BoardAssumption, Init PROVE IInv
  OBVIOUS
<1>1. Full({}) = {}
  BY DEF Full, BoardAssumption
<1> QED
  BY <1>1, FS_EmptySet
  DEF Init, IInv, TypeOK, NoFullRow, NothingFromNothing, Phase, BoardAssumption

\* Placing the piece is the only step that changes a board in play.
LEMMA PlaceInv == ASSUME BoardAssumption, IInv, Place PROVE IInv'
<1> DEFINE b == board \cup piece
<1>1. piece \in Piece /\ board \in SUBSET Cell /\ lines \in Nat /\ placed \in Nat
  BY DEF IInv, TypeOK, Place, Phase
<1>2. b \in SUBSET Cell
  BY <1>1 DEF Piece
<1>3. board' = Cleared(b) /\ lines' = lines + Cardinality(Full(b)) /\ placed' = placed + 1
  BY DEF Place
<1>4. TypeOK'
  <2>1. board' \subseteq Cell /\ lines' \in Nat /\ placed' \in Nat
    BY <1>1, <1>2, <1>3, ClearedOnBoard, ClearedCounts
  <2>2. phase' \in Phase /\ IF phase' \in {"playing", "resting"} THEN piece' \in Piece ELSE piece' = {}
    BY DEF Place, Proceed, Phase
  <2> QED
    BY <2>1, <2>2 DEF TypeOK
<1>5. NoFullRow'
  BY <1>2, <1>3, ClearedHasNoFullRow DEF NoFullRow
<1>6. NothingFromNothing'
  <2>1. IsFiniteSet(board) /\ IsFiniteSet(piece)
    BY <1>1, FiniteCell, FS_Subset DEF Piece
  <2>2. Cardinality(b) <= Cardinality(board) + Cardinality(piece)
    <3>1. Cardinality(board \cap piece) \in Nat
      BY <2>1, FS_Intersection, FS_CardinalityType
    <3>2. Cardinality(board) \in Nat /\ Cardinality(piece) \in Nat
      BY <2>1, FS_CardinalityType
    <3>3. Cardinality(b) = Cardinality(board) + Cardinality(piece) - Cardinality(board \cap piece)
      BY <2>1, FS_Union
    <3> QED
      BY <3>1, <3>2, <3>3
  <2>3. Cardinality(piece) <= MaxCells /\ Cardinality(piece) \in Nat /\ Cardinality(board) \in Nat
    BY <1>1, <2>1, FS_CardinalityType DEF Piece
  <2>4. Cardinality(board) + Width * lines <= MaxCells * placed
    BY DEF IInv, NothingFromNothing
  <2>5. /\ Cardinality(Cleared(b)) + Width * Cardinality(Full(b)) <= Cardinality(b)
        /\ Cardinality(b) \in Nat /\ Cardinality(Cleared(b)) \in Nat /\ Cardinality(Full(b)) \in Nat
    BY <1>2, ClearedCounts
  <2>6. /\ Width * (lines + Cardinality(Full(b))) = Width * lines + Width * Cardinality(Full(b))
        /\ MaxCells * (placed + 1) = MaxCells * placed + MaxCells
        /\ Width * lines \in Int /\ Width * Cardinality(Full(b)) \in Int /\ MaxCells * placed \in Int
    BY <1>1, <2>5 DEF BoardAssumption
  <2> QED
    BY <1>3, <2>2, <2>3, <2>4, <2>5, <2>6 DEF NothingFromNothing, BoardAssumption
<1> QED
  BY <1>4, <1>5, <1>6 DEF IInv

LEMMA StepInv == BoardAssumption /\ IInv /\ [Next]_vars => IInv'
<1> SUFFICES ASSUME BoardAssumption, IInv, [Next]_vars PROVE IInv'
  OBVIOUS
<1>1. CASE Wait \/ Move \/ Settle \/ Abandon
  <2>1. board' = board /\ lines' = lines /\ placed' = placed
    BY <1>1 DEF Wait, Move, Settle, Abandon
  <2>2. phase' \in Phase /\ IF phase' \in {"playing", "resting"} THEN piece' \in Piece ELSE piece' = {}
    BY <1>1 DEF Wait, Move, Settle, Abandon, Proceed, Phase
  <2> QED
    BY <2>1, <2>2 DEF IInv, TypeOK, NoFullRow, NothingFromNothing
<1>2. CASE Place
  BY <1>2, PlaceInv
<1>3. CASE NewGame
  <2>1. Full({}) = {}
    BY DEF Full, BoardAssumption
  <2> QED
    BY <1>3, <2>1, FS_EmptySet
    DEF NewGame, IInv, TypeOK, NoFullRow, NothingFromNothing, Phase, BoardAssumption
<1>4. CASE UNCHANGED vars
  BY <1>4 DEF vars, IInv, TypeOK, NoFullRow, NothingFromNothing
<1> QED
  BY <1>1, <1>2, <1>3, <1>4 DEF Next

THEOREM StackInvariance == BoardAssumption => (Spec => []IInv)
<1> SUFFICES ASSUME BoardAssumption PROVE Spec => []IInv
  OBVIOUS
<1> QED
  BY InitInv, StepInv, PTL DEF Spec

\* However many rows vanish at once, on a board of any size, none is full after
\* them: NoFullRow (engine.c:409-451).
THEOREM NoRowStaysFull == BoardAssumption => (Spec => []NoFullRow)
<1> SUFFICES ASSUME BoardAssumption PROVE Spec => []NoFullRow
  OBVIOUS
<1>1. IInv => NoFullRow
  BY DEF IInv
<1> QED
  BY <1>1, StackInvariance, PTL

\* Line clears create nothing: NothingFromNothing (engine.c:432-447).
THEOREM CellsComeFromPieces == BoardAssumption => (Spec => []NothingFromNothing)
<1> SUFFICES ASSUME BoardAssumption PROVE Spec => []NothingFromNothing
  OBVIOUS
<1>1. IInv => NothingFromNothing
  BY DEF IInv
<1> QED
  BY <1>1, StackInvariance, PTL
=============================================================================
