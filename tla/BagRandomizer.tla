--------------------------- MODULE BagRandomizer ---------------------------
(***************************************************************************)
(* The bag randomizers of rand.c: one buffer that is shuffled, dealt from  *)
(* the front, and shuffled again.  The generator may return any number.    *)
(***************************************************************************)
EXTENDS Integers, Sequences, FiniteSets

CONSTANTS
  Piece,      \* the piece types, FS_NPT of them
  Unlucky,    \* FS_S, FS_Z, FS_O: never dealt first
  Kinds,      \* the bags: copies of each piece, pieces dealt per shuffle, seam check
  MAX         \* UINT32_MAX: the generator's numbers are 0..MAX

NPT == Cardinality(Piece)

ASSUME PieceAssumption ==
  /\ IsFiniteSet(Piece) /\ "none" \notin Piece
  /\ Unlucky \subseteq Piece /\ Unlucky # Piece
ASSUME KindAssumption ==
  /\ Kinds \subseteq [copies : Nat \ {0}, length : Nat \ {0}, seam : BOOLEAN]
  /\ \A k \in Kinds : /\ k.length <= k.copies * NPT
                      /\ k.seam => k.copies = 1      \* only fromBag has a seam check
ASSUME MAXAssumption == MAX \in Nat /\ \A k \in Kinds : k.copies * NPT <= MAX

VARIABLES
  kind,
  randBuf, randBufIndex,   \* randBufIndex counts from 0, as in C
  piece,                   \* the piece dealt last
  pass                     \* history: the deals of this shuffle

vars == <<kind, randBuf, randBufIndex, piece, pass>>

-----------------------------------------------------------------------------
(***************************************************************************)
(* fsRandInRange and fisherYatesShuffle.                                   *)
(***************************************************************************)
MutAccepted(range) == {x \in 0..MAX : x < MAX}       \* mutant: no draw is thrown away
\* The numbers that are not drawn again.
Accepted(range) == {x \in 0..MAX : ~(x >= MAX - (MAX % range))}
InRange(x, low, high) == low + (x % (high - low))

MutSwap(a, i, j) == [a EXCEPT ![i] = a[j]]     \* mutant: the other element is lost
Swap(a, i, j) == [a EXCEPT ![i] = a[j], ![j] = a[i]]

MutDraws(n) == [2..n -> 1..n]                   \* mutant: any index
\* What the loop draws: an index up to i, for i = n .. 2.
Draws(n) == {c \in [2..n -> 1..n] : \A i \in 2..n : c[i] <= i}

Shuffle(a, c) ==
  LET after[i \in 1..Len(a)] ==
        IF i = Len(a) THEN a ELSE Swap(after[i + 1], i + 1, c[i + 1])
  IN  after[1]

Shuffles(a) == {Shuffle(a, c) : c \in Draws(Len(a))}

-----------------------------------------------------------------------------
\* The buffer before it is shuffled first.
Sorted == CHOOSE s \in [1..NPT -> Piece] : \A p \in Piece : \E i \in 1..NPT : s[i] = p
Filled(copies) == [i \in 1..copies * NPT |-> Sorted[((i - 1) % NPT) + 1]]

\* initBag, initMultiBag: shuffled until the first piece is a lucky one.
First(copies) == {s \in Shuffles(Filled(copies)) : s[1] \notin Unlucky}

Init ==
  /\ kind \in Kinds /\ randBuf \in First(kind.copies) /\ randBufIndex = 0
  /\ piece = "none" /\ pass = <<>>

\* Mutant: the piece moved to the front may be the same again.
MutReshuffled(b) ==
  IF kind.seam THEN UNION {{Swap(s, 1, i) : i \in 1..NPT} : s \in Shuffles(randBuf)}
  ELSE Shuffles(randBuf)

\* The buffers after b was the last piece of a pass.  If the first is b again,
\* it changes places with any other.
Reshuffled(b) ==
  UNION {IF kind.seam /\ s[1] = b THEN {Swap(s, 1, i) : i \in 2..NPT} ELSE {s}
           : s \in Shuffles(randBuf)}

\* fromBag, fromMultiBag
Deal ==
  LET b == randBuf[randBufIndex + 1] IN
  /\ piece' = b
  /\ IF randBufIndex + 1 = kind.length
     THEN randBufIndex' = 0 /\ randBuf' \in Reshuffled(b)
     ELSE randBufIndex' = randBufIndex + 1 /\ randBuf' = randBuf
  /\ pass' = IF randBufIndex = 0 THEN <<b>> ELSE Append(pass, b)
  /\ UNCHANGED kind

Next == Deal
Spec == Init /\ [][Next]_vars

-----------------------------------------------------------------------------
Count(s, p) == Cardinality({i \in DOMAIN s : s[i] = p})

TypeOK ==
  /\ kind \in Kinds /\ randBufIndex \in 0..kind.length - 1
  /\ Len(randBuf) = kind.copies * NPT /\ \A p \in Piece : Count(randBuf, p) = kind.copies
  /\ piece \in Piece \cup {"none"}

\* A shuffle deals no piece more often than the bag holds it, so that a bag
\* dealt to its end deals each piece as often as it holds it (rand.c:121-141,
\* 157-168).
DealtOnce == \A p \in Piece : Count(pass, p) <= kind.copies

\* With the seam check, a piece never comes twice in a row, not even from one
\* bag to the next (rand.c:125-134).
NoRepeat == [][kind.seam => piece' # piece]_vars

\* "Perform an unbiased shuffle" (rand.c:82): every order of the pieces comes from
\* the same number of draws.
Order(a) == {s \in [DOMAIN a -> Piece] : \A p \in Piece : Count(s, p) = Count(a, p)}
UnbiasedShuffle ==
  piece = "none" =>
    \A s \in Order(randBuf) :
      Cardinality({c \in Draws(Len(randBuf)) : Shuffle(randBuf, c) = s})
        = Cardinality(Draws(Len(randBuf))) \div Cardinality(Order(randBuf))

\* "Generate an unbiased integer" (rand.c:56), for the ranges a shuffle uses:
\* every result comes from the same number of generator values, and some value
\* is accepted.
UnbiasedDraw ==
  \A range \in DOMAIN randBuf : \A r \in 0..range - 1 :
    /\ Accepted(range) # {}
    /\ Cardinality({x \in Accepted(range) : InRange(x, 0, range) = r})
         = Cardinality(Accepted(range)) \div range
=============================================================================
