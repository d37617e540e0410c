----------------------------- MODULE Randomizer -----------------------------
(***************************************************************************)
(* initRandomizer and fsNextRandomPiece (rand.c:353-428): a game deals     *)
(* with one of the randomizers, chosen by an option, and never touches the *)
(* memory of the others.                                                   *)
(***************************************************************************)
EXTENDS BagRandomizer

CONSTANTS
  TGMPiece, Openers, StartHistory, StartDrought, Rolls, BagCopies, TGMKinds, MaxDeals
                               \* as in TGMRandomizer

ASSUME TGMAssumption ==
  /\ TGMKinds \subseteq {"TGM1", "TGM2", "TGM3"} /\ Openers \subseteq TGMPiece
  /\ IsFiniteSet(TGMPiece)
  /\ \A k \in TGMKinds : StartHistory[k] \in [0..3 -> TGMPiece] /\ Rolls[k] \in Nat \ {0}
  /\ StartDrought \in [1..Cardinality(TGMPiece) -> TGMPiece]      \* each piece in its place
  /\ \A p \in TGMPiece : \E i \in 1..Cardinality(TGMPiece) : StartDrought[i] = p
  /\ BagCopies \in Nat \ {0}

VARIABLES
  randomizer,                  \* "bag" or "tgm"
  tgmKind, history, oldest, first, pool, drought, allSeen, tgmPiece, deals, last

tgmVars == <<tgmKind, history, oldest, first, pool, drought, allSeen, tgmPiece, deals, last>>

TGM == INSTANCE TGMRandomizer WITH
  Piece <- TGMPiece, Kinds <- TGMKinds, kind <- tgmKind, randBufIndex <- oldest,
  bag <- pool, piece <- tgmPiece

\* The state a randomizer that is not used stays in.
UnusedBag ==
  Init /\ kind = (CHOOSE k \in Kinds : TRUE) /\ randBuf = (CHOOSE b \in First(kind.copies) : TRUE)
UnusedTGM == TGM!Init /\ tgmKind = (CHOOSE k \in TGMKinds : TRUE)

initRandomizer ==
  \/ randomizer = "bag" /\ Init /\ UnusedTGM
  \/ randomizer = "tgm" /\ TGM!Init /\ UnusedBag

fsNextRandomPiece ==
  /\ \/ randomizer = "bag" /\ Deal /\ UNCHANGED tgmVars
     \/ randomizer = "tgm" /\ TGM!DealTGM12 /\ UNCHANGED vars
     \/ randomizer = "tgm" /\ TGM!DealTGM3 /\ UNCHANGED vars
  /\ UNCHANGED randomizer

RSpec == initRandomizer /\ [][fsNextRandomPiece]_<<randomizer, vars, tgmVars>>

-----------------------------------------------------------------------------
\* Both kinds of randomizer keep their shape: in particular the bag of TGM3 holds
\* as many pieces after every reroll that biased it (rand.c:317-320).
RTypeOK == TypeOK /\ TGM!TypeOK

\* A full history is the last four pieces dealt, oldest at the index
\* (rand.c:227-228, 347-349).
HistoryIsLastFour == TGM!HistoryIsLastFour

\* "[4..10] = Current Drought Order" (rand.c:256): each piece has its place.
DroughtOrder == TGM!DroughtOrder
=============================================================================
