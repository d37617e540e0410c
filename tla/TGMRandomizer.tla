--------------------------- MODULE TGMRandomizer ---------------------------
(***************************************************************************)
(* The history randomizers of rand.c: TGM1 and TGM2, which roll again      *)
(* while a piece is among the last four, and TGM3, which also draws from a *)
(* bag of 35 that fills with the piece not seen longest.  The generator    *)
(* may return any number.                                                  *)
(***************************************************************************)
EXTENDS Integers, Sequences, FiniteSets

CONSTANTS
  Piece,        \* the piece types, FS_NPT of them
  Openers,      \* FS_J, FS_I, FS_L, FS_T: one of them comes first
  StartHistory, \* by kind: the four pieces the history starts with
  StartDrought, \* the order in which TGM3 starts to miss pieces
  Rolls,        \* by kind: 4 or 6 rolls
  BagCopies,    \* copies of each piece in the bag of TGM3, 5 of 7 pieces
  Kinds,        \* the randomizers, of "TGM1", "TGM2" and "TGM3"
  MaxDeals      \* bound: deals of a game

VARIABLES
  kind,
  history, randBufIndex,   \* the last four pieces and the oldest of them
  first,                   \* the first roll is still to come
  bag,                     \* TGM3: how many of each piece randBuf holds; which is
                           \* where does not matter
  drought,                 \* TGM3: randBufExtra[4..10]
  allSeen,                 \* TGM3: the pieces of randBufExtra[11]
  piece,                   \* the piece dealt last
  deals, last              \* history: number of deals, the last four of them

vars == <<kind, history, randBufIndex, first, bag, drought, allSeen, piece, deals, last>>

NPT == Cardinality(Piece)
Recent == {history[i] : i \in 0..3}

Init ==
  /\ kind \in Kinds /\ history = StartHistory[kind] /\ randBufIndex = 0 /\ first = TRUE
  /\ bag = [p \in Piece |-> BagCopies] /\ drought = StartDrought /\ allSeen = {}
  /\ piece = "none" /\ deals = 0 /\ last = <<>>

\* Mutant: the index does not wrap.
MutRemember(p) ==
  /\ history' = [history EXCEPT ![randBufIndex] = p]
  /\ randBufIndex' = IF randBufIndex = 3 THEN 3 ELSE randBufIndex + 1
  /\ last' = Append(IF Len(last) = 4 THEN Tail(last) ELSE last, p)

Remember(p) ==
  /\ history' = [history EXCEPT ![randBufIndex] = p]
  /\ randBufIndex' = (randBufIndex + 1) % 4
  /\ last' = Append(IF Len(last) = 4 THEN Tail(last) ELSE last, p)

Dealt(p) == piece' = p /\ deals < MaxDeals /\ deals' = deals + 1 /\ UNCHANGED kind

-----------------------------------------------------------------------------
\* fromTGM1or2.  The first piece does not enter the history; with every roll in
\* the history the last one stands.
DealTGM12 ==
  /\ kind \in {"TGM1", "TGM2"}
  /\ \E p \in Piece :
       /\ Dealt(p)
       /\ IF first THEN p \in Openers /\ UNCHANGED <<history, randBufIndex, last>>
                   ELSE Remember(p)
  /\ first' = FALSE /\ UNCHANGED <<bag, drought, allSeen>>

-----------------------------------------------------------------------------
\* One p of the bag b becomes the piece at the head of the drought order.
Replaced(b, p) ==
  LET gone == [b EXCEPT ![p] = @ - 1] IN [gone EXCEPT ![drought[1]] = @ + 1]

\* The bags after k rolls that hit the history, each of which biases the bag.
Rerolled(k) ==
  LET after[n \in 0..k] ==
        IF n = 0 THEN {bag}
        ELSE UNION {{Replaced(b, p) : p \in {q \in Recent : b[q] > 0}} : b \in after[n - 1]}
  IN  after[k]

\* memcpy(&extra[4 + i], &extra[5 + i], 6 - i) copies bytes, of elements four
\* bytes wide that hold numbers below 256: an element is copied if its first
\* byte is.  i counts from 1 here.
Shifted(i) ==
  [j \in 1..NPT |-> IF j >= i /\ 4 * (j - i) < NPT - i THEN drought[j + 1] ELSE drought[j]]

\* "Put current drought piece to back of the drought queue."
Back(p) ==
  LET at == {i \in 1..NPT : drought[i] = p} IN
  IF at = {} THEN drought
  ELSE [Shifted(CHOOSE i \in at : \A j \in at : i <= j) EXCEPT ![NPT] = p]

\* Mutant: a bag that was biased by a reroll takes the drought piece twice.
MutDraw(b, p, rolls) ==
  IF rolls = 0 THEN Replaced(b, p) ELSE [Replaced(b, p) EXCEPT ![drought[1]] = @ + 1]

\* The bag once p was drawn after so many rerolls; it is spared when the piece
\* missed longest comes by a reroll and every piece has been seen.
Draw(b, p, rolls) ==
  IF rolls > 0 /\ p = drought[1] /\ allSeen \cup {p} = Piece THEN b ELSE Replaced(b, p)

\* fromTGM3
DealTGM3 ==
  /\ kind = "TGM3"
  /\ \/ /\ first
        /\ \E p \in Openers : Dealt(p) /\ Remember(p)
        /\ UNCHANGED <<bag, drought, allSeen>>
     \/ /\ ~first
        /\ \E rolls \in 0..Rolls[kind] :
           \E b \in Rerolled(IF rolls = Rolls[kind] THEN rolls - 1 ELSE rolls) :
           \E p \in {q \in Piece : b[q] > 0 /\ (q \in Recent <=> rolls = Rolls[kind])} :
             /\ Dealt(p) /\ Remember(p)
             /\ bag' = Draw(b, p, rolls) /\ allSeen' = allSeen \cup {p}
             /\ drought' = Back(p)
  /\ first' = FALSE

Next == DealTGM12 \/ DealTGM3
Spec == Init /\ [][Next]_vars

-----------------------------------------------------------------------------
Total(f) ==
  LET sum[i \in 0..NPT] == IF i = 0 THEN 0 ELSE sum[i - 1] + f[StartDrought[i]] IN sum[NPT]

\* The bag of TGM3 always holds as many pieces, however many rerolls biased it.
TypeOK ==
  /\ kind \in Kinds /\ history \in [0..3 -> Piece] /\ randBufIndex \in 0..3
  /\ bag \in [Piece -> Nat] /\ Total(bag) = BagCopies * NPT
  /\ drought \in [1..NPT -> Piece] /\ allSeen \subseteq Piece
  /\ piece \in Piece \cup {"none"}

\* A full history is the last four pieces it was given, oldest at the index
\* (rand.c:227-228, 347-349): the rolls are compared with no older piece.
HistoryIsLastFour ==
  Len(last) = 4 => \A i \in 0..3 : history[(randBufIndex + i) % 4] = last[i + 1]

\* "[4..10] = Current Drought Order" (rand.c:256): each piece has its place.
DroughtOrder == \A p \in Piece : \E i \in 1..NPT : drought[i] = p
=============================================================================
