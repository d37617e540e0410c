-------------------------- MODULE RandomizerProofs --------------------------
(***************************************************************************)
(* Proofs about the randomizers, for every set of pieces, number of copies *)
(* and range of the generator.                                             *)
(***************************************************************************)
EXTENDS Randomizer, FiniteSetTheorems, FunctionTheorems, SequenceTheorems,
        WellFoundedInduction, TLAPS

-----------------------------------------------------------------------------
\* Induction, over a set of numbers in place of a predicate.

LEMMA LeastMember ==
  ASSUME NEW S, S \subseteq Nat, S # {}
  PROVE  \E m \in S : \A k \in S : m <= k
<1> DEFINE Below == {1..k : k \in S}
<1>1. IsWellFoundedOn(StrictSubsetOrdering(Nat), FiniteSubsetsOf(Nat))
  BY FS_StrictSubsetOrderingWellFounded
<1>2. Below \subseteq FiniteSubsetsOf(Nat) /\ Below # {}
  <2>1. \A k \in S : 1..k \in SUBSET Nat /\ IsFiniteSet(1..k)
    BY FS_Interval
  <2> QED
    BY <2>1 DEF FiniteSubsetsOf
<1> HIDE DEF Below
<1>3. PICK t \in Below : \A u \in Below : ~ (<<u, t>> \in StrictSubsetOrdering(Nat))
  BY <1>1, <1>2, WFMin
<1>4. PICK m \in S : t = 1..m
  BY <1>3 DEF Below
<1>5. ASSUME NEW k \in S, k < m PROVE FALSE
  <2>1. 1..k \in Below /\ k \in Nat /\ m \in Nat
    BY DEF Below
  <2>2. m \in 1..m /\ m \notin 1..k /\ 1..k \subseteq 1..m
    BY <2>1, <1>5
  <2>3. <<1..k, 1..m>> \in StrictSubsetOrdering(Nat)
    BY <2>1, <2>2 DEF StrictSubsetOrdering
  <2> QED
    BY <1>3, <1>4, <2>1, <2>3
<1> QED
  BY <1>5

LEMMA SetInduction ==
  ASSUME NEW S, 0 \in S, \A k \in Nat : k \in S => k + 1 \in S
  PROVE  \A k \in Nat : k \in S
<1> SUFFICES ASSUME NEW k \in Nat, k \notin S PROVE FALSE
  OBVIOUS
<1>1. PICK m \in Nat \ S : \A j \in Nat \ S : m <= j
  BY LeastMember
<1>2. m - 1 \in Nat /\ m - 1 \notin Nat \ S /\ m = (m - 1) + 1
  BY <1>1
<1> QED
  BY <1>2

-----------------------------------------------------------------------------
\* fisherYatesShuffle: g holds the array before each turn of the loop and, at 1,
\* after the last.

Turns(g, n, a, c) ==
  g = [i \in 1..n |-> IF i = n THEN a ELSE Swap(g[i + 1], i + 1, c[i + 1])]

LEMMA TurnsExist ==
  ASSUME NEW n \in Nat \ {0}, NEW a, NEW c
  PROVE  \E g : Turns(g, n, a, c)
<1> DEFINE S == {k \in Nat : k < n =>
                   \E h : h = [i \in (n - k)..n |-> IF i = n THEN a ELSE Swap(h[i + 1], i + 1, c[i + 1])]}
<1>1. 0 \in S
  <2> DEFINE h == [i \in n..n |-> a]
  <2>1. h = [i \in n..n |-> IF i = n THEN a ELSE Swap(h[i + 1], i + 1, c[i + 1])]
    OBVIOUS
  <2>2. n - 0 = n
    OBVIOUS
  <2> HIDE DEF h
  <2> QED
    BY <2>1, <2>2, Zenon
<1>2. ASSUME NEW k \in Nat, k \in S PROVE k + 1 \in S
  <2> SUFFICES ASSUME k + 1 < n
               PROVE \E h : h = [i \in (n - (k + 1))..n |->
                                   IF i = n THEN a ELSE Swap(h[i + 1], i + 1, c[i + 1])]
    OBVIOUS
  <2>1. PICK h : h = [i \in (n - k)..n |-> IF i = n THEN a ELSE Swap(h[i + 1], i + 1, c[i + 1])]
    BY <1>2
  <2> DEFINE m == n - (k + 1)
             e == [i \in m..n |-> IF i = m THEN Swap(h[m + 1], m + 1, c[m + 1]) ELSE h[i]]
  <2>2. m \in Int /\ m < n /\ m + 1 = n - k
    OBVIOUS
  <2>3. ASSUME NEW i \in m..n
        PROVE  e[i] = IF i = n THEN a ELSE Swap(e[i + 1], i + 1, c[i + 1])
    <3>1. CASE i = m
      <4>1. e[m + 1] = h[m + 1]
        BY <2>2
      <4> QED
        BY <2>2, <3>1, <4>1
    <3>2. CASE i # m
      <4>1. i \in (n - k)..n /\ e[i] = h[i]
        BY <2>2, <3>2
      <4>2. i # n => i + 1 \in m..n /\ i + 1 # m
        BY <2>2
      <4>3. i # n => e[i + 1] = h[i + 1]
        BY <4>2
      <4>4. h[i] = IF i = n THEN a ELSE Swap(h[i + 1], i + 1, c[i + 1])
        BY <2>1, <4>1
      <4> HIDE DEF e, m
      <4> QED
        BY <4>1, <4>3, <4>4
    <3> QED
      BY <3>1, <3>2
  <2>4. e = [i \in m..n |-> IF i = n THEN a ELSE Swap(e[i + 1], i + 1, c[i + 1])]
    <3> HIDE DEF m
    <3>1. e = [i \in m..n |-> e[i]]
      OBVIOUS
    <3> HIDE DEF e
    <3> QED
      BY <3>1, <2>3, Zenon
  <2> QED
    BY <2>4
<1> HIDE DEF S
<1>3. n - 1 \in S /\ n - 1 \in Nat
  BY <1>1, <1>2, SetInduction
<1>4. n - (n - 1) = 1 /\ n - 1 < n
  OBVIOUS
<1> QED
  BY <1>3, <1>4 DEF S, Turns

\* Two runs of the loop are alike as long as they draw the same numbers.
LEMMA TurnsAgree ==
  ASSUME NEW n \in Nat \ {0}, NEW m \in 1..n, NEW a, NEW c, NEW d, NEW g, NEW h,
         Turns(g, n, a, c), Turns(h, n, a, d), \A i \in (m + 1)..n : c[i] = d[i]
  PROVE  \A i \in m..n : g[i] = h[i]
<1> DEFINE S == {k \in Nat : k <= n - m => g[n - k] = h[n - k]}
<1>1. \A i \in 1..n : /\ g[i] = IF i = n THEN a ELSE Swap(g[i + 1], i + 1, c[i + 1])
                      /\ h[i] = IF i = n THEN a ELSE Swap(h[i + 1], i + 1, d[i + 1])
  BY Zenon DEF Turns
<1>2. 0 \in S
  BY <1>1
<1>3. ASSUME NEW k \in Nat, k \in S PROVE k + 1 \in S
  <2> SUFFICES ASSUME k + 1 <= n - m PROVE g[n - (k + 1)] = h[n - (k + 1)]
    OBVIOUS
  <2> DEFINE i == n - (k + 1)
  <2>1. i \in 1..n /\ i # n /\ i + 1 = n - k /\ g[i + 1] = h[i + 1] /\ i + 1 \in (m + 1)..n
    BY <1>3
  <2> HIDE DEF i
  <2> QED
    BY <1>1, <2>1
<1>4. \A k \in Nat : k \in S
  <2> HIDE DEF S
  <2> QED
    BY <1>2, <1>3, SetInduction
<1>5. ASSUME NEW i \in m..n PROVE g[i] = h[i]
  <2>1. n - i \in Nat /\ n - i <= n - m /\ n - (n - i) = i
    OBVIOUS
  <2> QED
    BY <1>4, <2>1
<1> QED
  BY <1>5

LEMMA ShuffleTurns ==
  ASSUME NEW n \in Nat \ {0}, NEW a, Len(a) = n, NEW c, NEW g, Turns(g, n, a, c)
  PROVE  Shuffle(a, c) = g[1]
<1> DEFINE h == CHOOSE f : f = [i \in 1..Len(a) |-> IF i = Len(a) THEN a
                                                    ELSE Swap(f[i + 1], i + 1, c[i + 1])]
<1>1. Shuffle(a, c) = h[1]
  BY Zenon DEF Shuffle
<1>2. h = CHOOSE f : Turns(f, n, a, c)
  BY DEF Turns
<1>3. Turns(h, n, a, c)
  BY <1>2, Zenon
<1> QED
  <2>1. 1 \in 1..n
    OBVIOUS
  <2> HIDE DEF h
  <2> QED
    BY <1>1, <1>3, <2>1, TurnsAgree

-----------------------------------------------------------------------------
\* Every order of n numbers comes from one sequence of draws.

Perm(n) == Bijection(1..n, 1..n)
Id(n) == [i \in 1..n |-> i]

LEMMA PermFacts ==
  ASSUME NEW n \in Nat, NEW q \in Perm(n)
  PROVE  /\ q \in [1..n -> 1..n]
         /\ \A i, j \in 1..n : q[i] = q[j] => i = j
         /\ \A i \in 1..n : \E j \in 1..n : q[j] = i
BY Fun_BijectionProperties DEF Perm

\* As many numbers as there are places.
LEMMA OneToOneIsPerm ==
  ASSUME NEW n \in Nat, NEW q \in [1..n -> 1..n], \A i, j \in 1..n : q[i] = q[j] => i = j
  PROVE  q \in Perm(n)
<1>1. q \in Injection(1..n, 1..n)
  BY Fun_IsInj
<1>2. IsFiniteSet(1..n)
  BY FS_Interval
<1>3. q \in Surjection(1..n, 1..n)
  BY <1>1, <1>2, FS_Injection
<1> QED
  BY <1>1, <1>3, Fun_IsBij DEF Perm

LEMMA IdIsPerm == \A n \in Nat : Id(n) \in Perm(n)
BY OneToOneIsPerm DEF Id

LEMMA SwapIsPerm ==
  ASSUME NEW n \in Nat, NEW q \in Perm(n), NEW i \in 1..n, NEW j \in 1..n
  PROVE  Swap(q, i, j) \in Perm(n)
<1> DEFINE r == Swap(q, i, j)
<1>1. q \in [1..n -> 1..n] /\ \A k, l \in 1..n : q[k] = q[l] => k = l
  BY PermFacts
<1>2. r \in [1..n -> 1..n] /\ \A k \in 1..n : r[k] = IF k = j THEN q[i] ELSE IF k = i THEN q[j] ELSE q[k]
  BY <1>1 DEF Swap
<1> HIDE DEF r
<1>3. \A k, l \in 1..n : r[k] = r[l] => k = l
  BY <1>1, <1>2
<1> QED
  BY <1>2, <1>3, OneToOneIsPerm DEF r

\* The array of numbers through the loop.
LEMMA TurnsPerm ==
  ASSUME NEW n \in Nat \ {0}, NEW c \in Draws(n), NEW g, Turns(g, n, Id(n), c)
  PROVE  \A i \in 1..n : g[i] \in Perm(n)
<1> DEFINE S == {k \in Nat : k < n => g[n - k] \in Perm(n)}
<1>1. \A i \in 1..n : g[i] = IF i = n THEN Id(n) ELSE Swap(g[i + 1], i + 1, c[i + 1])
  BY Zenon DEF Turns
<1>2. 0 \in S
  <2>1. n - 0 \in 1..n /\ n - 0 = n
    OBVIOUS
  <2> QED
    BY <1>1, <2>1, IdIsPerm
<1>3. ASSUME NEW k \in Nat, k \in S PROVE k + 1 \in S
  <2> SUFFICES ASSUME k + 1 < n PROVE g[n - (k + 1)] \in Perm(n)
    OBVIOUS
  <2> DEFINE i == n - (k + 1)
  <2>1. i \in 1..n /\ i # n /\ i + 1 = n - k /\ g[i + 1] \in Perm(n) /\ i + 1 \in 2..n
    BY <1>3
  <2>2. c[i + 1] \in 1..n /\ i + 1 \in 1..n
    BY <2>1 DEF Draws
  <2> HIDE DEF i
  <2>3. g[i] = Swap(g[i + 1], i + 1, c[i + 1])
    BY <1>1, <2>1
  <2> QED
    BY <2>1, <2>2, <2>3, SwapIsPerm DEF i
<1>4. \A k \in Nat : k \in S
  <2> HIDE DEF S
  <2> QED
    BY <1>2, <1>3, SetInduction
<1>5. ASSUME NEW i \in 1..n PROVE g[i] \in Perm(n)
  <2>1. n - i \in Nat /\ n - i < n /\ n - (n - i) = i
    OBVIOUS
  <2> QED
    BY <1>4, <2>1
<1> QED
  BY <1>5

\* What a turn puts in its place stays there.
LEMMA TurnsSettle ==
  ASSUME NEW n \in Nat \ {0}, NEW c \in Draws(n), NEW g, Turns(g, n, Id(n), c)
  PROVE  /\ \A i \in 1..n : \A j \in (i + 1)..n : g[1][j] = g[i][j]
         /\ \A j \in 2..n : c[j] \in 1..j /\ g[1][j] = g[j][c[j]]
<1> DEFINE S == {k \in Nat : k < n => \A j \in (k + 2)..n : g[1][j] = g[k + 1][j]}
<1>1. \A i \in 1..n - 1 : g[i] = Swap(g[i + 1], i + 1, c[i + 1])
  <2>1. \A i \in 1..n : g[i] = IF i = n THEN Id(n) ELSE Swap(g[i + 1], i + 1, c[i + 1])
    BY Zenon DEF Turns
  <2> QED
    BY <2>1
<1>2. \A i \in 1..n : g[i] \in Perm(n) /\ g[i] \in [1..n -> 1..n]
  BY TurnsPerm, PermFacts
<1>3. \A j \in 2..n : c[j] \in 1..n /\ c[j] <= j
  BY DEF Draws
<1>4. 0 \in S
  OBVIOUS
<1>5. ASSUME NEW k \in Nat, k \in S PROVE k + 1 \in S
  <2> SUFFICES ASSUME k + 1 < n, NEW j \in (k + 3)..n PROVE g[1][j] = g[k + 2][j]
    OBVIOUS
  <2>1. g[k + 1] = Swap(g[k + 2], k + 2, c[k + 2])
    <3>1. k + 1 \in 1..n - 1 /\ (k + 1) + 1 = k + 2
      OBVIOUS
    <3> QED
      BY <1>1, <3>1
  <2>2. k + 2 \in 2..n /\ k + 2 \in 1..n /\ j # k + 2 /\ j \in 1..n
    OBVIOUS
  <2>3. c[k + 2] # j /\ c[k + 2] \in 1..n
    BY <1>3, <2>2
  <2>4. g[k + 1][j] = g[k + 2][j]
    BY <1>2, <2>1, <2>2, <2>3 DEF Swap
  <2>5. g[1][j] = g[k + 1][j]
    BY <1>5
  <2> QED
    BY <2>4, <2>5
<1>6. \A k \in Nat : k \in S
  <2> HIDE DEF S
  <2> QED
    BY <1>4, <1>5, SetInduction
<1>7. ASSUME NEW i \in 1..n, NEW j \in (i + 1)..n PROVE g[1][j] = g[i][j]
  <2>1. i - 1 \in Nat /\ i - 1 < n /\ (i - 1) + 2 = i + 1 /\ (i - 1) + 1 = i
    OBVIOUS
  <2> QED
    BY <1>6, <2>1
<1>8. ASSUME NEW j \in 2..n PROVE c[j] \in 1..j /\ g[1][j] = g[j][c[j]]
  <2>1. j - 1 \in 1..n - 1 /\ (j - 1) + 1 = j /\ j - 1 \in 1..n /\ j \in 1..n
    OBVIOUS
  <2>2. g[1][j] = g[j - 1][j]
    BY <1>7, <2>1
  <2>3. g[j - 1] = Swap(g[j], j, c[j])
    BY <1>1, <2>1
  <2>4. g[j - 1][j] = g[j][c[j]]
    BY <1>2, <1>3, <2>1, <2>3 DEF Swap
  <2> QED
    BY <1>3, <2>2, <2>4
<1> QED
  BY <1>7, <1>8

\* The array whose element i is the one of place q[i] in a.
Moved(a, q, n) == [i \in 1..n |-> a[q[i]]]

LEMMA LenOf ==
  ASSUME NEW n \in Nat, NEW a \in [1..n -> Piece]
  PROVE  Len(a) = n
OBVIOUS

\* Any array is shuffled as the numbers of its places are.
LEMMA ShuffleMoves ==
  ASSUME NEW n \in Nat \ {0}, NEW a \in [1..n -> Piece], NEW c \in Draws(n),
         NEW g, Turns(g, n, Id(n), c)
  PROVE  Shuffle(a, c) = Moved(a, g[1], n)
<1> DEFINE h == [k \in 1..n |-> [i \in 1..n |-> a[g[k][i]]]]
<1>1. \A i \in 1..n : g[i] = IF i = n THEN Id(n) ELSE Swap(g[i + 1], i + 1, c[i + 1])
  BY Zenon DEF Turns
<1>2. \A i \in 1..n : g[i] \in [1..n -> 1..n]
  BY TurnsPerm, PermFacts
<1>3. ASSUME NEW k \in 1..n
      PROVE  h[k] = IF k = n THEN a ELSE Swap(h[k + 1], k + 1, c[k + 1])
  <2>1. CASE k = n
    <3>1. g[k] = Id(n)
      BY <1>1, <2>1
    <3>2. h[k] = [i \in 1..n |-> a[g[k][i]]]
      OBVIOUS
    <3> QED
      BY <2>1, <3>1, <3>2 DEF Id
  <2>2. CASE k # n
    <3>1. k + 1 \in 1..n /\ k + 1 \in 2..n
      BY <2>2
    <3>2. c[k + 1] \in 1..n /\ g[k + 1] \in [1..n -> 1..n] /\ g[k] = Swap(g[k + 1], k + 1, c[k + 1])
      BY <1>1, <1>2, <2>2, <3>1 DEF Draws
    <3>3. h[k + 1] = [i \in 1..n |-> a[g[k + 1][i]]] /\ h[k] = [i \in 1..n |-> a[g[k][i]]]
      BY <3>1
    <3> DEFINE j == k + 1
               q == g[k + 1]
               b == [i \in 1..n |-> a[q[i]]]
    <3>4. j \in 1..n /\ c[j] \in 1..n /\ q \in [1..n -> 1..n]
      BY <3>1, <3>2
    <3> HIDE DEF j, q
    <3>5. [i \in 1..n |-> a[Swap(q, j, c[j])[i]]] = Swap(b, j, c[j])
      BY <3>4 DEF Swap
    <3> QED
      BY <2>2, <3>2, <3>3, <3>5 DEF j, q
  <2> QED
    BY <2>1, <2>2
<1>4. Turns(h, n, a, c)
  <2>1. h = [k \in 1..n |-> h[k]]
    OBVIOUS
  <2> HIDE DEF h
  <2> QED
    BY <1>3, <2>1, Zenon DEF Turns
<1>5. Shuffle(a, c) = h[1]
  <2>1. Len(a) = n
    BY LenOf
  <2> HIDE DEF h
  <2> QED
    BY <1>4, <2>1, ShuffleTurns
<1>6. h[1] = [i \in 1..n |-> a[g[1][i]]]
  OBVIOUS
<1> QED
  BY <1>5, <1>6, Zenon DEF Moved

\* The orders that sequences of draws give.
Moves(n) == [c \in Draws(n) |-> (CHOOSE g : Turns(g, n, Id(n), c))[1]]

LEMMA MovesTurns ==
  ASSUME NEW n \in Nat \ {0}, NEW c \in Draws(n)
  PROVE  \E g : Turns(g, n, Id(n), c) /\ Moves(n)[c] = g[1]
<1> DEFINE g == CHOOSE f : Turns(f, n, Id(n), c)
<1>1. Turns(g, n, Id(n), c)
  BY TurnsExist, Zenon
<1>2. Moves(n)[c] = g[1]
  BY DEF Moves
<1> QED
  BY <1>1, <1>2

\* Different draws give different orders.
LEMMA MovesOneToOne ==
  ASSUME NEW n \in Nat \ {0}, NEW c \in Draws(n), NEW d \in Draws(n), Moves(n)[c] = Moves(n)[d]
  PROVE  c = d
<1>1. PICK g : Turns(g, n, Id(n), c) /\ Moves(n)[c] = g[1]
  BY MovesTurns
<1>2. PICK h : Turns(h, n, Id(n), d) /\ Moves(n)[d] = h[1]
  BY MovesTurns
<1> DEFINE S == {k \in Nat : k < n => \A j \in (n - k + 1)..n : c[j] = d[j]}
<1>3. 0 \in S
  OBVIOUS
<1>4. ASSUME NEW k \in Nat, k \in S PROVE k + 1 \in S
  <2> SUFFICES ASSUME k + 1 < n, NEW j \in (n - (k + 1) + 1)..n PROVE c[j] = d[j]
    OBVIOUS
  <2>1. CASE j # n - k
    BY <1>4, <2>1
  <2>2. CASE j = n - k
    <3>1. j \in 2..n /\ j \in 1..n /\ \A i \in (j + 1)..n : c[i] = d[i]
      BY <1>4, <2>2
    <3>2. g[j] = h[j]
      BY <1>1, <1>2, <3>1, TurnsAgree
    <3>3. c[j] \in 1..j /\ d[j] \in 1..j /\ g[1][j] = g[j][c[j]] /\ h[1][j] = h[j][d[j]]
      BY <1>1, <1>2, <3>1, TurnsSettle
    <3>4. g[j] \in Perm(n)
      BY <1>1, <3>1, TurnsPerm
    <3>5. \A i, l \in 1..n : g[j][i] = g[j][l] => i = l
      BY <3>4, PermFacts
    <3>6. c[j] \in 1..n /\ d[j] \in 1..n
      BY <3>1, <3>3
    <3> QED
      BY <1>1, <1>2, <3>2, <3>3, <3>5, <3>6
  <2> QED
    BY <2>1, <2>2
<1> HIDE DEF S
<1>5. n - 1 \in S
  BY <1>3, <1>4, SetInduction
<1>6. \A j \in 2..n : c[j] = d[j]
  BY <1>5 DEF S
<1> QED
  BY <1>6 DEF Draws

\* And give every order.
LEMMA MovesOnto ==
  ASSUME NEW n \in Nat \ {0}, NEW s \in Perm(n)
  PROVE  \E c \in Draws(n) : Moves(n)[c] = s
<1> DEFINE Last(c, m) == \A j \in (m + 1)..n : Moves(n)[c][j] = s[j]
           S == {k \in Nat : k < n => \E c \in Draws(n) : Last(c, n - k)}
<1>1. s \in [1..n -> 1..n] /\ (\A i, j \in 1..n : s[i] = s[j] => i = j)
      /\ (\A i \in 1..n : \E j \in 1..n : s[j] = i)
  BY PermFacts
<1>2. 0 \in S
  <2> DEFINE c == [i \in 2..n |-> 1]
  <2>1. c \in Draws(n)
    BY DEF Draws
  <2> HIDE DEF c
  <2>2. Last(c, n - 0)
    OBVIOUS
  <2> QED
    BY <2>1, <2>2
<1>3. ASSUME NEW k \in Nat, k \in S PROVE k + 1 \in S
  <2> SUFFICES ASSUME k + 1 < n PROVE \E c \in Draws(n) : Last(c, n - (k + 1))
    OBVIOUS
  <2> DEFINE m == n - k
  <2>1. m \in 2..n /\ m \in 1..n /\ n - (k + 1) = m - 1
    OBVIOUS
  <2>2. PICK c \in Draws(n) : Last(c, m)
    BY <1>3
  <2> HIDE DEF m
  <2>3. PICK g : Turns(g, n, Id(n), c) /\ Moves(n)[c] = g[1]
    BY MovesTurns
  <2>4. g[m] \in Perm(n)
    BY <2>1, <2>3, TurnsPerm
  <2>5. PICK p \in 1..n : g[m][p] = s[m]
    <3>1. s[m] \in 1..n
      BY <1>1, <2>1
    <3>2. \A i \in 1..n : \E j \in 1..n : g[m][j] = i
      BY <2>4, PermFacts
    <3> QED
      BY <3>1, <3>2
  <2>6. \A j \in (m + 1)..n : g[m][j] = s[j]
    BY <2>1, <2>2, <2>3, TurnsSettle
  <2>7. p \in 1..m
    <3> SUFFICES ASSUME p \in (m + 1)..n PROVE FALSE
      BY <2>1
    <3>1. s[p] = s[m] /\ p # m
      BY <2>1, <2>5, <2>6
    <3> QED
      BY <1>1, <2>1, <3>1
  <2> DEFINE d == [c EXCEPT ![m] = p]
  <2>8. d \in Draws(n) /\ d[m] = p /\ \A i \in (m + 1)..n : c[i] = d[i]
    BY <2>1, <2>7 DEF Draws
  <2> HIDE DEF d
  <2>9. PICK h : Turns(h, n, Id(n), d) /\ Moves(n)[d] = h[1]
    BY <2>8, MovesTurns
  <2>10. h[m] = g[m]
    <3>1. \A i \in m..n : g[i] = h[i]
      BY <2>1, <2>3, <2>8, <2>9, TurnsAgree
    <3> QED
      BY <2>1, <3>1
  <2>11. h[1][m] = s[m] /\ \A j \in (m + 1)..n : h[1][j] = h[m][j]
    BY <2>1, <2>5, <2>8, <2>9, <2>10, TurnsSettle
  <2>12. ASSUME NEW j \in m..n PROVE Moves(n)[d][j] = s[j]
    BY <2>1, <2>6, <2>9, <2>10, <2>11
  <2>13. Last(d, m - 1)
    BY <2>1, <2>12
  <2> QED
    BY <2>1, <2>8, <2>13
<1>4. n - 1 \in S
  <2> HIDE DEF S
  <2> QED
    BY <1>2, <1>3, SetInduction
<1>5. PICK c \in Draws(n) : Last(c, n - (n - 1))
  BY <1>4
<1>6. \A j \in 2..n : Moves(n)[c][j] = s[j]
  <2>1. n - (n - 1) + 1 = 2
    OBVIOUS
  <2> QED
    BY <1>5, <2>1
<1>7. Moves(n)[c] \in Perm(n)
  <2>1. 1 \in 1..n
    OBVIOUS
  <2> QED
    BY <2>1, MovesTurns, TurnsPerm
<1> DEFINE r == Moves(n)[c]
<1>8. r \in [1..n -> 1..n] /\ \A i, j \in 1..n : r[i] = r[j] => i = j
  BY <1>7, PermFacts
<1> HIDE DEF r
<1>9. r[1] = s[1]
  <2>1. PICK i \in 1..n : s[i] = r[1]
    BY <1>1, <1>8
  <2>2. CASE i = 1
    BY <2>1, <2>2
  <2>3. CASE i # 1
    <3>1. r[i] = r[1]
      BY <1>6, <2>1, <2>3 DEF r
    <3> QED
      BY <1>8, <2>3, <3>1
  <2> QED
    BY <2>2, <2>3
<1>10. r = s
  <2>1. \A j \in 1..n : r[j] = s[j]
    BY <1>6, <1>9 DEF r
  <2> QED
    BY <1>1, <1>8, <2>1
<1> QED
  BY <1>10 DEF r

-----------------------------------------------------------------------------
\* "Perform an unbiased shuffle" (rand.c:82).

LEMMA OneForOne ==
  ASSUME NEW S, NEW T, NEW f \in [S -> T], \A x, y \in S : f[x] = f[y] => x = y,
         \A t \in T : \E x \in S : f[x] = t, IsFiniteSet(S)
  PROVE  IsFiniteSet(T) /\ Cardinality(T) = Cardinality(S)
<1>1. f \in Bijection(S, T)
  BY Fun_IsBij
<1> QED
  BY <1>1, Fun_ExistsBij, FS_Bijection

LEMMA SameFunction ==
  ASSUME NEW S, NEW T, NEW f \in [S -> T], NEW g \in [S -> T], \A x \in S : f[x] = g[x]
  PROVE  f = g
OBVIOUS

LEMMA FiniteFunctions ==
  ASSUME NEW S, NEW T, IsFiniteSet(S), IsFiniteSet(T)
  PROVE  IsFiniteSet([S -> T])
<1> DEFINE graph == [f \in [S -> T] |-> {<<x, f[x]>> : x \in S}]
<1>1. IsFiniteSet(SUBSET (S \X T))
  BY FS_Product, FS_SUBSET
<1>2. graph \in [[S -> T] -> SUBSET (S \X T)]
  OBVIOUS
<1>3. ASSUME NEW f \in [S -> T], NEW h \in [S -> T], graph[f] = graph[h] PROVE f = h
  <2>1. ASSUME NEW x \in S PROVE f[x] = h[x]
    <3>1. <<x, f[x]>> \in graph[f]
      OBVIOUS
    <3>2. graph[h] = {<<y, h[y]>> : y \in S}
      OBVIOUS
    <3>3. <<x, f[x]>> \in {<<y, h[y]>> : y \in S}
      BY <1>3, <3>1, <3>2, Zenon
    <3> QED
      BY <3>3
  <2> QED
    BY <2>1
<1> HIDE DEF graph
<1>4. graph \in Injection([S -> T], SUBSET (S \X T))
  BY <1>2, <1>3, Fun_IsInj
<1> QED
  BY <1>1, <1>4, FS_Injection

LEMMA FiniteDraws ==
  ASSUME NEW n \in Nat
  PROVE  IsFiniteSet(Draws(n))
<1>1. IsFiniteSet([2..n -> 1..n])
  <2>1. IsFiniteSet(2..n) /\ IsFiniteSet(1..n)
    BY FS_Interval
  <2> QED
    BY <2>1, FiniteFunctions
<1>2. Draws(n) \in SUBSET [2..n -> 1..n]
  BY DEF Draws
<1> QED
  BY <1>1, <1>2, FS_Subset

\* Moved elements are counted as before.
LEMMA CountMoved ==
  ASSUME NEW n \in Nat, NEW a \in [1..n -> Piece], NEW q \in Perm(n), NEW p
  PROVE  Count(Moved(a, q, n), p) = Count(a, p)
<1> DEFINE U == {i \in 1..n : a[q[i]] = p}
           V == {i \in 1..n : a[i] = p}
           f == [i \in U |-> q[i]]
<1>1. q \in [1..n -> 1..n] /\ (\A i, j \in 1..n : q[i] = q[j] => i = j)
      /\ (\A i \in 1..n : \E j \in 1..n : q[j] = i)
  BY PermFacts
<1>2. f \in [U -> V] /\ (\A i, j \in U : f[i] = f[j] => i = j)
  <2>1. \A i \in U : i \in 1..n /\ q[i] \in V
    BY <1>1
  <2>2. f \in [U -> V]
    BY <2>1
  <2> QED
    BY <1>1, <2>1, <2>2
<1>3. \A v \in V : \E u \in U : f[u] = v
  <2> SUFFICES ASSUME NEW v \in V PROVE \E u \in U : f[u] = v
    OBVIOUS
  <2>1. PICK u \in 1..n : q[u] = v
    BY <1>1
  <2>2. u \in U /\ f[u] = v
    BY <2>1
  <2> QED
    BY <2>2
<1>5. IsFiniteSet(U)
  BY FS_Interval, FS_Subset
<1>6. Cardinality(V) = Cardinality(U)
  <2> HIDE DEF f, U, V
  <2> QED
    BY <1>2, <1>3, <1>5, OneForOne
<1>7. {i \in DOMAIN Moved(a, q, n) : Moved(a, q, n)[i] = p} = U
  BY DEF Moved
<1>8. {i \in DOMAIN a : a[i] = p} = V
  OBVIOUS
<1> QED
  BY <1>6, <1>7, <1>8 DEF Count

\* Arrays with the same elements are one another's orders.
LEMMA SameCountsMove ==
  ASSUME NEW n \in Nat, NEW a \in [1..n -> Piece], NEW b \in [1..n -> Piece],
         \A p \in Piece : Count(a, p) = Count(b, p)
  PROVE  \E q \in Perm(n) : b = Moved(a, q, n)
<1> DEFINE At(s, p) == {i \in 1..n : s[i] = p}
           match == [p \in Piece |-> CHOOSE f : f \in Bijection(At(b, p), At(a, p))]
           q == [i \in 1..n |-> match[b[i]][i]]
<1>1. ASSUME NEW p \in Piece PROVE match[p] \in Bijection(At(b, p), At(a, p))
  <2>1. IsFiniteSet(At(b, p)) /\ IsFiniteSet(At(a, p))
    BY FS_Interval, FS_Subset
  <2>2. Cardinality(At(b, p)) = Cardinality(At(a, p))
    <3>1. {i \in DOMAIN a : a[i] = p} = At(a, p) /\ {i \in DOMAIN b : b[i] = p} = At(b, p)
      OBVIOUS
    <3> HIDE DEF At
    <3> QED
      BY <3>1 DEF Count
  <2> HIDE DEF At
  <2>3. \E f : f \in Bijection(At(b, p), At(a, p))
    BY <2>1, <2>2, FS_SameCardinalityBij, Fun_ExistsBij
  <2> QED
    BY <2>3, Zenon
<1>2. ASSUME NEW p \in Piece
      PROVE  /\ match[p] \in [At(b, p) -> At(a, p)]
             /\ \A i, j \in At(b, p) : match[p][i] = match[p][j] => i = j
  <2> HIDE DEF At, match
  <2> QED
    BY <1>1, Fun_BijectionProperties
<1> HIDE DEF match
<1>3. ASSUME NEW i \in 1..n PROVE q[i] \in 1..n /\ a[q[i]] = b[i]
  <2>1. b[i] \in Piece /\ i \in At(b, b[i])
    OBVIOUS
  <2>2. match[b[i]][i] \in At(a, b[i])
    BY <1>2, <2>1
  <2> QED
    BY <2>2
<1>4. ASSUME NEW i \in 1..n, NEW j \in 1..n, q[i] = q[j] PROVE i = j
  <2>1. b[i] = b[j]
    BY <1>3, <1>4
  <2>2. b[i] \in Piece /\ i \in At(b, b[i]) /\ j \in At(b, b[i])
    BY <2>1
  <2>3. match[b[i]][i] = match[b[i]][j]
    BY <1>4, <2>1
  <2> QED
    BY <1>2, <2>2, <2>3
<1>5. q \in [1..n -> 1..n]
  BY <1>3
<1>6. b = [i \in 1..n |-> a[q[i]]]
  BY <1>3
<1> HIDE DEF q
<1>7. q \in Perm(n)
  BY <1>4, <1>5, OneToOneIsPerm
<1> QED
  BY <1>6, <1>7 DEF Moved

LEMMA ShuffleByMoves ==
  ASSUME NEW n \in Nat \ {0}, NEW a \in [1..n -> Piece], NEW c \in Draws(n)
  PROVE  Moves(n)[c] \in Perm(n) /\ Shuffle(a, c) = Moved(a, Moves(n)[c], n)
<1>1. PICK g : Turns(g, n, Id(n), c) /\ Moves(n)[c] = g[1]
  BY MovesTurns
<1>2. 1 \in 1..n
  OBVIOUS
<1>3. g[1] \in Perm(n)
  BY <1>1, <1>2, TurnsPerm
<1>4. Turns(g, n, Id(n), c)
  BY <1>1
<1>5. Shuffle(a, c) = Moved(a, g[1], n)
  BY <1>4, ShuffleMoves, Zenon
<1> QED
  BY <1>1, <1>3, <1>5, Zenon

LEMMA ComposedPerm ==
  ASSUME NEW n \in Nat, NEW q \in Perm(n), NEW r \in Perm(n)
  PROVE  Moved(r, q, n) \in Perm(n)
BY Fun_BijTransitive DEF Perm, Moved

\* A shuffle keeps the elements.
LEMMA ShuffleKeeps ==
  ASSUME NEW n \in Nat \ {0}, NEW a \in [1..n -> Piece], NEW c \in Draws(n)
  PROVE  /\ Shuffle(a, c) \in [1..n -> Piece]
         /\ \A p : Count(Shuffle(a, c), p) = Count(a, p)
<1>1. Moves(n)[c] \in Perm(n) /\ Shuffle(a, c) = Moved(a, Moves(n)[c], n)
  BY ShuffleByMoves, Zenon
<1> DEFINE q == Moves(n)[c]
<1>2. q \in Perm(n) /\ Shuffle(a, c) = Moved(a, q, n)
  BY <1>1, Zenon
<1> HIDE DEF q
<1>3. q \in [1..n -> 1..n]
  BY <1>2, PermFacts
<1>4. Moved(a, q, n) \in [1..n -> Piece]
  BY <1>3 DEF Moved
<1>5. \A p : Count(Moved(a, q, n), p) = Count(a, p)
  BY <1>2, CountMoved
<1> QED
  BY <1>2, <1>4, <1>5, Zenon

\* The draws that give an order.
Giving(a, s) == {c \in Draws(Len(a)) : Shuffle(a, c) = s}

\* What gives one order gives, by way of one and the same move, any other.
LEMMA NoOrderPreferred ==
  ASSUME NEW n \in Nat \ {0}, NEW a \in [1..n -> Piece],
         NEW s \in Order(a), NEW t \in Order(a)
  PROVE  Cardinality(Giving(a, s)) <= Cardinality(Giving(a, t))
<1>0. Len(a) = n
  BY LenOf
<1>1. s \in [1..n -> Piece] /\ t \in [1..n -> Piece] /\ \A p \in Piece : Count(s, p) = Count(t, p)
  BY DEF Order
<1>2. PICK q \in Perm(n) : t = Moved(s, q, n)
  <2>1. \A p \in Piece : Count(s, p) = Count(t, p)
    BY DEF Order
  <2>2. n \in Nat /\ s \in [1..n -> Piece] /\ t \in [1..n -> Piece]
    BY <1>1
  <2> QED
    BY <2>1, <2>2, SameCountsMove
<1>3. q \in [1..n -> 1..n] /\ \A i \in 1..n : \E j \in 1..n : q[j] = i
  BY PermFacts
<1> DEFINE moved(c) == Moved(Moves(n)[c], q, n)
           f == [c \in Giving(a, s) |-> CHOOSE d \in Draws(n) : Moves(n)[d] = moved(c)]
<1>4. ASSUME NEW c \in Draws(n)
      PROVE  Moves(n)[c] \in Perm(n) /\ Moves(n)[c] \in [1..n -> 1..n]
             /\ Shuffle(a, c) = Moved(a, Moves(n)[c], n)
  <2>1. Moves(n)[c] \in Perm(n) /\ Shuffle(a, c) = Moved(a, Moves(n)[c], n)
    BY ShuffleByMoves, Zenon
  <2> QED
    BY <2>1, PermFacts
<1>5. ASSUME NEW c \in Giving(a, s)
      PROVE  c \in Draws(n) /\ f[c] \in Draws(n) /\ Moves(n)[f[c]] = moved(c)
  <2>1. c \in Draws(n)
    BY <1>0 DEF Giving
  <2>2. moved(c) \in Perm(n)
    <3>1. Moves(n)[c] \in Perm(n)
      BY <1>4, <2>1
    <3> QED
      BY <3>1, ComposedPerm, Zenon
  <2> HIDE DEF moved
  <2>3. \E d \in Draws(n) : Moves(n)[d] = moved(c)
    BY <2>2, MovesOnto
  <2> QED
    BY <2>1, <2>3
<1> HIDE DEF f
<1>6. ASSUME NEW c \in Giving(a, s) PROVE f[c] \in Giving(a, t)
  <2>1. Shuffle(a, f[c]) = Moved(a, moved(c), n)
    BY <1>4, <1>5
  <2>2. s = Moved(a, Moves(n)[c], n)
    BY <1>4, <1>5, <1>0 DEF Giving
  <2>3. Moved(a, moved(c), n) = Moved(s, q, n)
    BY <1>3, <2>2 DEF Moved
  <2>4. f[c] \in Draws(n) /\ Shuffle(a, f[c]) = t
    BY <1>2, <1>5, <2>1, <2>3
  <2> QED
    BY <1>0, <2>4 DEF Giving
<1>7. ASSUME NEW c \in Giving(a, s), NEW d \in Giving(a, s), f[c] = f[d] PROVE c = d
  <2>1. moved(c) = moved(d) /\ c \in Draws(n) /\ d \in Draws(n)
    BY <1>5, <1>7
  <2>2. ASSUME NEW i \in 1..n PROVE Moves(n)[c][i] = Moves(n)[d][i]
    <3>1. PICK j \in 1..n : q[j] = i
      BY <1>3
    <3>2. moved(c)[j] = Moves(n)[c][i] /\ moved(d)[j] = Moves(n)[d][i]
      BY <3>1 DEF Moved
    <3> QED
      BY <2>1, <3>2
  <2>3. Moves(n)[c] \in [1..n -> 1..n] /\ Moves(n)[d] \in [1..n -> 1..n]
    BY <1>4, <2>1
  <2>4. Moves(n)[c] = Moves(n)[d]
    <3> DEFINE u == Moves(n)[c]
               v == Moves(n)[d]
    <3>1. u \in [1..n -> 1..n] /\ v \in [1..n -> 1..n] /\ \A i \in 1..n : u[i] = v[i]
      BY <2>2, <2>3
    <3> HIDE DEF u, v
    <3>2. u = v
      BY <3>1
    <3> QED
      BY <3>2 DEF u, v
  <2> QED
    BY <2>1, <2>4, MovesOneToOne
<1>8. f \in [Giving(a, s) -> Giving(a, t)]
  <2>1. f = [c \in Giving(a, s) |-> f[c]]
    BY DEF f
  <2> QED
    BY <1>6, <2>1
<1>9. f \in Injection(Giving(a, s), Giving(a, t))
  BY <1>7, <1>8, Fun_IsInj
<1>10. IsFiniteSet(Giving(a, t))
  <2>1. Giving(a, t) \in SUBSET Draws(n)
    BY <1>0 DEF Giving
  <2> QED
    BY <2>1, FiniteDraws, FS_Subset
<1> QED
  BY <1>9, <1>10, FS_Injection

\* A set in parts of one size.
Fibre(f, S, t) == {x \in S : f[x] = t}

LEMMA EqualParts ==
  ASSUME NEW S, NEW T, NEW f \in [S -> T], NEW k \in Nat, IsFiniteSet(S), IsFiniteSet(T),
         \A t \in T : Cardinality(Fibre(f, S, t)) = k
  PROVE  Cardinality(S) = Cardinality(T) * k
<1> DEFINE Part(t) == {x \in S : f[x] = t}
           number == [t \in T |-> CHOOSE h : h \in Bijection(Part(t), 1..k)]
           pair == [x \in S |-> <<f[x], number[f[x]][x]>>]
<1>1. ASSUME NEW t \in T PROVE number[t] \in Bijection(Part(t), 1..k)
  <2>1. IsFiniteSet(Part(t)) /\ Cardinality(Part(t)) = k
    BY FS_Subset DEF Fibre
  <2>2. IsFiniteSet(1..k) /\ Cardinality(1..k) = k
    BY FS_Interval
  <2> HIDE DEF Part
  <2>3. \E h : h \in Bijection(Part(t), 1..k)
    BY <2>1, <2>2, FS_SameCardinalityBij, Fun_ExistsBij
  <2> QED
    BY <2>3, Zenon
<1>2. ASSUME NEW t \in T
      PROVE  /\ number[t] \in [Part(t) -> 1..k]
             /\ \A x, y \in Part(t) : number[t][x] = number[t][y] => x = y
             /\ \A i \in 1..k : \E x \in Part(t) : number[t][x] = i
  <2> HIDE DEF Part, number
  <2> QED
    <3> DEFINE U == Part(t)
               K == 1..k
               h == number[t]
    <3>1. h \in Bijection(U, K)
      BY <1>1
    <3> HIDE DEF U, K, h
    <3>2. h \in [U -> K] /\ (\A x, y \in U : h[x] = h[y] => x = y) /\ \A i \in K : \E x \in U : h[x] = i
      BY <3>1, Fun_BijectionProperties
    <3> QED
      BY <3>2 DEF U, K, h
<1> HIDE DEF number
<1>3. pair \in [S -> T \X (1..k)]
  <2>1. \A x \in S : f[x] \in T /\ x \in Part(f[x])
    OBVIOUS
  <2>2. ASSUME NEW x \in S PROVE number[f[x]][x] \in 1..k
    <3>1. number[f[x]] \in [Part(f[x]) -> 1..k] /\ x \in Part(f[x])
      BY <1>2, <2>1
    <3> HIDE DEF Part
    <3> QED
      BY <3>1
  <2> QED
    BY <2>1, <2>2
<1>4. ASSUME NEW x \in S, NEW y \in S, pair[x] = pair[y] PROVE x = y
  <2>1. f[x] = f[y] /\ number[f[x]][x] = number[f[x]][y]
    BY <1>4
  <2>2. f[x] \in T /\ x \in Part(f[x]) /\ y \in Part(f[x])
    BY <2>1
  <2> QED
    BY <1>2, <2>1, <2>2
<1>5. ASSUME NEW u \in T \X (1..k) PROVE \E x \in S : pair[x] = u
  <2>1. PICK t \in T, i \in 1..k : u = <<t, i>>
    OBVIOUS
  <2>2. PICK x \in Part(t) : number[t][x] = i
    BY <1>2
  <2>3. x \in S /\ f[x] = t /\ pair[x] = <<t, i>>
    BY <2>2
  <2> QED
    BY <2>1, <2>3
<1> HIDE DEF pair
<1>6. Cardinality(T \X (1..k)) = Cardinality(S)
  <2> DEFINE X == T \X (1..k)
  <2>1. pair \in [S -> X] /\ (\A x, y \in S : pair[x] = pair[y] => x = y) /\ \A u \in X : \E x \in S : pair[x] = u
    BY <1>3, <1>4, <1>5
  <2> HIDE DEF X
  <2>2. Cardinality(X) = Cardinality(S)
    BY <2>1, OneForOne
  <2> QED
    BY <2>2 DEF X
<1>7. IsFiniteSet(1..k) /\ Cardinality(1..k) = k
  BY FS_Interval
<1>8. Cardinality(T \X (1..k)) = Cardinality(T) * Cardinality(1..k)
  BY <1>7, FS_Product, Zenon
<1> QED
  BY <1>6, <1>7, <1>8, Zenon

LEMMA DivideProduct ==
  ASSUME NEW m \in Nat \ {0}, NEW k \in Nat
  PROVE  (m * k) \div m = k
BY SMT

\* Every order of the elements comes from the same number of draws, for every
\* array, with or without elements that are the same.
LEMMA ShuffleUnbiased ==
  ASSUME NEW n \in Nat \ {0}, NEW a \in [1..n -> Piece], NEW s \in Order(a)
  PROVE  Cardinality({c \in Draws(Len(a)) : Shuffle(a, c) = s})
           = Cardinality(Draws(Len(a))) \div Cardinality(Order(a))
<1> DEFINE f == [c \in Draws(n) |-> Shuffle(a, c)]
           k == Cardinality(Giving(a, s))
<1>0. Len(a) = n
  BY LenOf
<1>1. f \in [Draws(n) -> Order(a)]
  <2>1. ASSUME NEW c \in Draws(n) PROVE Shuffle(a, c) \in Order(a)
    <3>1. Shuffle(a, c) \in [1..n -> Piece] /\ \A p : Count(Shuffle(a, c), p) = Count(a, p)
      BY ShuffleKeeps
    <3>2. DOMAIN a = 1..n
      OBVIOUS
    <3> QED
      BY <3>1, <3>2 DEF Order
  <2> QED
    BY <2>1
<1>2. IsFiniteSet(Draws(n))
  BY FiniteDraws
<1>3. IsFiniteSet(Order(a)) /\ Order(a) # {}
  <2>1. IsFiniteSet([1..n -> Piece])
    <3>1. IsFiniteSet(1..n) /\ IsFiniteSet(Piece)
      BY FS_Interval, PieceAssumption
    <3> QED
      BY <3>1, FiniteFunctions
  <2>2. Order(a) \in SUBSET [1..n -> Piece] /\ a \in Order(a)
    BY DEF Order
  <2> QED
    BY <2>1, <2>2, FS_Subset
<1>4. \A t \in Order(a) : Giving(a, t) \in SUBSET Draws(n) /\ Giving(a, t) = {c \in Draws(n) : f[c] = t}
  BY <1>0 DEF Giving
<1>5. \A t \in Order(a) : Cardinality(Giving(a, t)) \in Nat
  BY <1>2, <1>4, FS_Subset, FS_CardinalityType
<1>6. \A t \in Order(a) : Cardinality(Giving(a, t)) = k
  BY <1>5, NoOrderPreferred
<1>7. k \in Nat
  BY <1>5
<1>8. Cardinality(Draws(n)) = Cardinality(Order(a)) * k
  <2>1. ASSUME NEW t \in Order(a) PROVE Cardinality(Fibre(f, Draws(n), t)) = k
    <3>1. Fibre(f, Draws(n), t) = Giving(a, t)
      BY <1>4 DEF Fibre
    <3>2. Cardinality(Giving(a, t)) = k
      BY <1>6
    <3> HIDE DEF k
    <3> QED
      BY <3>1, <3>2
  <2> DEFINE S == Draws(n)
             T == Order(a)
  <2>2. f \in [S -> T] /\ k \in Nat /\ IsFiniteSet(S) /\ IsFiniteSet(T)
        /\ \A t \in T : Cardinality(Fibre(f, S, t)) = k
    BY <1>1, <1>2, <1>3, <1>7, <2>1
  <2> HIDE DEF f, k, S, T
  <2>3. Cardinality(S) = Cardinality(T) * k
    BY <2>2, EqualParts
  <2> QED
    BY <2>3 DEF S, T
<1>9. Cardinality(Order(a)) \in Nat \ {0}
  BY <1>3, FS_CardinalityType, FS_EmptySet
<1>10. Cardinality(Draws(n)) \div Cardinality(Order(a)) = k
  <2> HIDE DEF k
  <2> QED
    BY <1>7, <1>8, <1>9, DivideProduct
<1> QED
  BY <1>0, <1>10 DEF Giving

-----------------------------------------------------------------------------
\* "Generate an unbiased integer" (rand.c:56).

LEMMA DivMod ==
  ASSUME NEW x \in Nat, NEW d \in Nat \ {0}
  PROVE  x \div d \in Nat /\ x % d \in 0..d - 1 /\ x = d * (x \div d) + (x % d)
<1>1. x \div d \in Int /\ x % d \in 0..d - 1 /\ x = d * (x \div d) + (x % d)
  OBVIOUS
<1> DEFINE q == x \div d
           r == x % d
<1>2. q \in Int /\ r \in 0..d - 1 /\ x = d * q + r
  BY <1>1
<1> HIDE DEF q, r
<1>3. q >= 0
  <2> SUFFICES ASSUME q <= -1 PROVE FALSE
    BY <1>2
  <2>1. d * q <= -d
    BY <1>2
  <2> QED
    BY <1>2, <2>1
<1> QED
  BY <1>2, <1>3 DEF q, r

\* A quotient and a remainder are the only ones.
LEMMA OneQuotient ==
  ASSUME NEW d \in Nat \ {0}, NEW k \in Nat, NEW l \in Nat, NEW r \in 0..d - 1, NEW s \in 0..d - 1,
         k * d + r = l * d + s
  PROVE  k = l /\ r = s
<1> DEFINE j == k - l
<1>1. k * d \in Int /\ l * d \in Int /\ j \in Int /\ j * d = k * d - l * d
  OBVIOUS
<1>2. j * d = s - r
  BY <1>1
<1> HIDE DEF j
<1>3. j = 0
  <2>1. CASE j >= 1
    <3>1. j * d >= d
      BY <1>1, <2>1
    <3> QED
      BY <1>1, <1>2, <3>1
  <2>2. CASE j <= -1
    <3>1. j * d <= -d
      BY <1>1, <2>2
    <3> QED
      BY <1>1, <1>2, <3>1
  <2> QED
    BY <1>1, <2>1, <2>2
<1>4. k = l
  BY <1>3 DEF j
<1> QED
  BY <1>1, <1>2, <1>3, <1>4

LEMMA RemainderOf ==
  ASSUME NEW d \in Nat \ {0}, NEW k \in Nat, NEW r \in 0..d - 1
  PROVE  k * d + r \in Nat /\ (k * d + r) % d = r
<1> DEFINE x == k * d + r
<1>1. x \in Nat
  <2>1. k * d \in Nat
    OBVIOUS
  <2> QED
    BY <2>1
<1> HIDE DEF x
<1>2. x \div d \in Nat /\ x % d \in 0..d - 1 /\ x = d * (x \div d) + (x % d)
  BY <1>1, DivMod
<1> DEFINE q == x \div d
           s == x % d
<1>3. q \in Nat /\ s \in 0..d - 1 /\ x = d * q + s
  BY <1>2
<1> HIDE DEF q, s
<1>4. d * q = q * d
  BY <1>3
<1>5. k * d + r = q * d + s
  BY <1>3, <1>4 DEF x
<1>6. r = s
  BY <1>3, <1>5, OneQuotient
<1> QED
  BY <1>1, <1>6 DEF x, s

\* The numbers kept are the first multiple of the range of them.
LEMMA AcceptedNumbers ==
  ASSUME NEW range \in 1..MAX
  PROVE  /\ MAX \div range \in Nat \ {0}
         /\ Accepted(range) = 0..(MAX \div range) * range - 1
<1>1. MAX \in Nat /\ range \in Nat \ {0} /\ range <= MAX
  BY MAXAssumption
<1> DEFINE q == MAX \div range
           m == MAX % range
<1>2. q \in Nat /\ m \in 0..range - 1 /\ MAX = range * q + m
  BY <1>1, DivMod
<1>3. Accepted(range) = {x \in 0..MAX : ~ (x >= MAX - m)}
  BY DEF Accepted
<1> HIDE DEF q, m
<1>4. q # 0
  BY <1>1, <1>2
<1>5. q * range \in Nat /\ q * range = range * q
  BY <1>1, <1>2
<1>6. MAX - m = q * range
  BY <1>1, <1>2, <1>5
<1>7. Accepted(range) = 0..q * range - 1
  BY <1>1, <1>2, <1>3, <1>5, <1>6
<1> QED
  BY <1>2, <1>4, <1>7 DEF q

\* As many numbers in each class of remainders.
LEMMA RemainderClass ==
  ASSUME NEW range \in Nat \ {0}, NEW q \in Nat, NEW r \in 0..range - 1
  PROVE  Cardinality({x \in 0..q * range - 1 : x % range = r}) = q
<1> DEFINE R == {x \in 0..q * range - 1 : x % range = r}
           Q == 0..q - 1
           f == [k \in Q |-> k * range + r]
<1>1. q * range \in Nat
  OBVIOUS
<1>2. ASSUME NEW k \in Q PROVE f[k] \in R
  <2>1. k \in Nat /\ f[k] \in Nat /\ f[k] % range = r
    BY RemainderOf
  <2>2. (k + 1) * range = k * range + range /\ k * range \in Nat /\ (k + 1) * range <= q * range
    OBVIOUS
  <2>3. f[k] <= q * range - 1
    BY <1>1, <2>2
  <2> QED
    BY <1>1, <2>1, <2>3
<1>3. ASSUME NEW k \in Q, NEW l \in Q, f[k] = f[l] PROVE k = l
  <2>1. k \in Nat /\ l \in Nat /\ k * range + r = l * range + r
    BY <1>3
  <2> QED
    BY <2>1, OneQuotient
<1>4. ASSUME NEW x \in R PROVE \E k \in Q : f[k] = x
  <2> DEFINE k == x \div range
  <2>1. x \in Nat /\ x <= q * range - 1 /\ x % range = r
    BY <1>1
  <2>2. k \in Nat /\ x = range * k + r
    BY <2>1, DivMod
  <2> HIDE DEF k
  <2>3. range * k = k * range /\ k * range \in Nat
    BY <2>2
  <2>4. k < q
    <3> SUFFICES ASSUME k >= q PROVE FALSE
      BY <2>2
    <3>1. k * range >= q * range
      BY <2>2
    <3> QED
      BY <1>1, <2>1, <2>2, <2>3, <3>1
  <2>5. k \in Q /\ f[k] = x
    BY <2>2, <2>3, <2>4
  <2> QED
    BY <2>5
<1>5. f \in [Q -> R]
  BY <1>2
<1>6. IsFiniteSet(Q) /\ Cardinality(Q) = q
  BY FS_Interval
<1>7. f \in [Q -> R] /\ (\A k, l \in Q : f[k] = f[l] => k = l) /\ \A x \in R : \E k \in Q : f[k] = x
  BY <1>3, <1>4, <1>5
<1> HIDE DEF f, Q
<1>8. Cardinality(R) = q
  <2> HIDE DEF R
  <2> QED
    BY <1>6, <1>7, OneForOne
<1> QED
  BY <1>8

LEMMA DrawUnbiased ==
  ASSUME NEW range \in 1..MAX, NEW r \in 0..range - 1
  PROVE  /\ Accepted(range) # {}
         /\ Cardinality({x \in Accepted(range) : InRange(x, 0, range) = r})
              = Cardinality(Accepted(range)) \div range
<1> DEFINE q == MAX \div range
           R == {x \in 0..q * range - 1 : x % range = r}
<1>1. q \in Nat \ {0} /\ Accepted(range) = 0..q * range - 1 /\ range \in Nat \ {0}
  BY AcceptedNumbers, MAXAssumption
<1> HIDE DEF q
<1>2. q * range \in Nat /\ q * range >= 1 /\ q * range = range * q
  BY <1>1
<1>3. Cardinality(R) = q
  BY <1>1, RemainderClass
<1>4. {x \in Accepted(range) : InRange(x, 0, range) = r} = R
  <2>1. \A x \in 0..q * range - 1 : InRange(x, 0, range) = x % range
    BY <1>1, <1>2 DEF InRange
  <2> QED
    BY <1>1, <2>1
<1>5. Cardinality(Accepted(range)) = range * q
  <2>1. Cardinality(0..q * range - 1) = q * range
    BY <1>2, FS_Interval
  <2> QED
    BY <1>1, <1>2, <2>1
<1>6. (range * q) \div range = q
  <2>1. q \in Nat /\ range \in Nat \ {0}
    BY <1>1
  <2> QED
    BY <2>1, DivideProduct
<1>7. Accepted(range) # {}
  <2>1. 0 \in 0..q * range - 1
    BY <1>2
  <2> QED
    BY <1>1, <2>1
<1> HIDE DEF R
<1> QED
  BY <1>3, <1>4, <1>5, <1>6, <1>7

-----------------------------------------------------------------------------
\* initBag, initMultiBag, fromBag, fromMultiBag.

Size(k) == k.copies * NPT

\* The buffers that hold as many copies of each piece.
Full(copies) == {b \in [1..copies * NPT -> Piece] : \A p \in Piece : Count(b, p) = copies}

LEMMA SizeType ==
  /\ NPT \in Nat \ {0}
  /\ \A k \in Kinds : /\ k.copies \in Nat \ {0} /\ k.length \in 1..Size(k) /\ k.seam \in BOOLEAN
                      /\ k.seam => k.copies = 1
                      /\ Size(k) \in 1..MAX
<1>1. NPT \in Nat \ {0}
  <2>1. IsFiniteSet(Piece) /\ Piece # {}
    BY PieceAssumption
  <2> QED
    BY <2>1, FS_CardinalityType, FS_EmptySet DEF NPT
<1> HIDE DEF NPT
<1>2. ASSUME NEW k \in Kinds
      PROVE  /\ k.copies \in Nat \ {0} /\ k.length \in 1..Size(k) /\ k.seam \in BOOLEAN
             /\ k.seam => k.copies = 1
             /\ Size(k) \in 1..MAX
  <2> DEFINE c == k.copies
             l == k.length
  <2>1. c \in Nat \ {0} /\ l \in Nat \ {0} /\ k.seam \in BOOLEAN /\ l <= c * NPT /\ (k.seam => c = 1)
    BY KindAssumption
  <2>2. MAX \in Nat /\ c * NPT <= MAX
    BY MAXAssumption
  <2>5. Size(k) = c * NPT /\ k.copies = c /\ k.length = l
    BY DEF Size
  <2> HIDE DEF c, l
  <2>3. c * NPT \in Nat /\ c * NPT >= 1
    BY <1>1, <2>1
  <2>4. l \in 1..c * NPT /\ c * NPT \in 1..MAX
    BY <2>1, <2>2, <2>3
  <2> QED
    BY <2>1, <2>4, <2>5
<1> QED
  BY <1>1, <1>2

\* The first buffer holds every piece once.
LEMMA SortedFacts ==
  /\ Sorted \in [1..NPT -> Piece]
  /\ \A p \in Piece : \E i \in 1..NPT : Sorted[i] = p
  /\ \A i, j \in 1..NPT : Sorted[i] = Sorted[j] => i = j
<1>1. NPT \in Nat /\ IsFiniteSet(Piece) /\ \E f : f \in Bijection(1..NPT, Piece)
  <2>1. IsFiniteSet(Piece)
    BY PieceAssumption
  <2>2. NPT \in Nat /\ ExistsBijection(1..NPT, Piece)
    BY <2>1, FS_CardinalityType DEF NPT
  <2> HIDE DEF NPT
  <2>3. Bijection(1..NPT, Piece) # {}
    BY <2>2, Fun_ExistsBij
  <2> QED
    BY <2>1, <2>2, <2>3
<1>2. PICK f : f \in Bijection(1..NPT, Piece)
  BY <1>1
<1>3. f \in [1..NPT -> Piece] /\ \A p \in Piece : \E i \in 1..NPT : f[i] = p
  <2> DEFINE N == 1..NPT
  <2>1. f \in Bijection(N, Piece)
    BY <1>2
  <2> HIDE DEF N
  <2>2. f \in [N -> Piece] /\ \A p \in Piece : \E i \in N : f[i] = p
    BY <2>1, Fun_BijectionProperties
  <2> QED
    BY <2>2 DEF N
<1>4. Sorted \in [1..NPT -> Piece] /\ \A p \in Piece : \E i \in 1..NPT : Sorted[i] = p
  BY <1>3 DEF Sorted
<1>5. Sorted \in Surjection(1..NPT, Piece)
  BY <1>4, Fun_IsSurj
<1>6. IsFiniteSet(1..NPT) /\ Cardinality(1..NPT) = Cardinality(Piece)
  <2>1. NPT \in Nat /\ NPT = Cardinality(Piece)
    BY <1>1 DEF NPT
  <2> HIDE DEF NPT
  <2> QED
    BY <2>1, FS_Interval
<1>7. Sorted \in Injection(1..NPT, Piece)
  BY <1>5, <1>6, FS_Surjection
<1>8. \A i, j \in 1..NPT : Sorted[i] = Sorted[j] => i = j
  BY <1>4, <1>7 DEF Injection, IsInjective
<1> QED
  BY <1>4, <1>8

LEMMA FilledIsFull ==
  ASSUME NEW copies \in Nat \ {0}
  PROVE  Filled(copies) \in Full(copies)
<1> DEFINE n == copies * NPT
           a == Filled(copies)
<1>1. NPT \in Nat \ {0} /\ n \in Nat
  BY SizeType
<1>2. Sorted \in [1..NPT -> Piece] /\ \A i, j \in 1..NPT : Sorted[i] = Sorted[j] => i = j
  BY SortedFacts
<1>3. ASSUME NEW i \in 1..n PROVE ((i - 1) % NPT) + 1 \in 1..NPT /\ a[i] = Sorted[((i - 1) % NPT) + 1]
  <2>1. i - 1 \in Nat
    BY <1>1
  <2>2. (i - 1) % NPT \in 0..NPT - 1
    BY <1>1, <2>1, DivMod
  <2>3. a[i] = Sorted[((i - 1) % NPT) + 1]
    BY DEF Filled
  <2> QED
    BY <1>1, <2>2, <2>3
<1>4. a \in [1..n -> Piece]
  <2>1. a = [i \in 1..n |-> a[i]]
    BY DEF Filled
  <2> HIDE DEF a, n
  <2> QED
    BY <1>2, <1>3, <2>1
<1>5. ASSUME NEW p \in Piece PROVE Count(a, p) = copies
  <2>1. PICK j \in 1..NPT : Sorted[j] = p
    BY SortedFacts
  <2> DEFINE r == j - 1
             S == {x \in 0..n - 1 : x % NPT = r}
             T == {i \in 1..n : a[i] = p}
             f == [x \in S |-> x + 1]
  <2>2. r \in 0..NPT - 1
    BY <1>1
  <2>3. Cardinality(S) = copies
    BY <1>1, <2>2, RemainderClass
  <2>4. \A i \in 1..n : a[i] = p <=> (i - 1) % NPT = r
    BY <1>1, <1>2, <1>3, <2>1
  <2> HIDE DEF a, n, r
  <2>5. f \in [S -> T] /\ \A x, y \in S : f[x] = f[y] => x = y
    <3>1. \A x \in S : x + 1 \in 1..n /\ (x + 1) - 1 = x
      BY <1>1
    <3>2. \A x \in S : x + 1 \in T
      BY <2>4, <3>1
    <3>3. f \in [S -> T]
      BY <3>2
    <3> QED
      BY <3>1, <3>3
  <2>6. \A t \in T : \E x \in S : f[x] = t
    <3> SUFFICES ASSUME NEW t \in T PROVE \E x \in S : f[x] = t
      OBVIOUS
    <3>1. t \in 1..n /\ t - 1 \in 0..n - 1 /\ (t - 1) + 1 = t
      BY <1>1
    <3>2. t - 1 \in S
      BY <2>4, <3>1
    <3> QED
      BY <3>1, <3>2
  <2>7. IsFiniteSet(S)
    <3>1. IsFiniteSet(0..n - 1)
      BY <1>1, FS_Interval
    <3> QED
      BY <3>1, FS_Subset
  <2>8. T = {i \in DOMAIN a : a[i] = p}
    BY <1>4
  <2> HIDE DEF f, S, T
  <2>9. Cardinality(T) = copies
    BY <2>3, <2>5, <2>6, <2>7, OneForOne
  <2> QED
    BY <2>8, <2>9 DEF Count
<1> QED
  BY <1>4, <1>5 DEF Full

LEMMA ShufflesFull ==
  ASSUME NEW copies \in Nat \ {0}, NEW a \in Full(copies), NEW s \in Shuffles(a)
  PROVE  s \in Full(copies)
<1> DEFINE n == copies * NPT
<1>1. n \in Nat \ {0} /\ a \in [1..n -> Piece] /\ \A p \in Piece : Count(a, p) = copies
  <2>1. NPT \in Nat \ {0}
    BY SizeType
  <2> HIDE DEF NPT
  <2> QED
    BY <2>1 DEF Full
<1> HIDE DEF n
<1>2. Len(a) = n
  BY <1>1, LenOf
<1>3. PICK c \in Draws(n) : s = Shuffle(a, c)
  BY <1>2 DEF Shuffles
<1>4. s \in [1..n -> Piece] /\ \A p : Count(s, p) = Count(a, p)
  BY <1>1, <1>3, ShuffleKeeps
<1> QED
  BY <1>1, <1>4 DEF Full, n

LEMMA FirstIsFull ==
  ASSUME NEW copies \in Nat \ {0}, NEW s \in First(copies)
  PROVE  s \in Full(copies)
<1>1. s \in Shuffles(Filled(copies))
  BY DEF First
<1> QED
  BY <1>1, FilledIsFull, ShufflesFull

LEMMA SwapIsFull ==
  ASSUME NEW copies \in Nat \ {0}, NEW a \in Full(copies),
         NEW i \in 1..copies * NPT, NEW j \in 1..copies * NPT
  PROVE  Swap(a, i, j) \in Full(copies)
<1> DEFINE n == copies * NPT
           q == Swap(Id(n), i, j)
<1>1. n \in Nat
  <2>1. NPT \in Nat
    BY SizeType
  <2> HIDE DEF NPT
  <2> QED
    BY <2>1
<1>2. a \in [1..n -> Piece] /\ \A p \in Piece : Count(a, p) = copies
  BY DEF Full
<1> HIDE DEF n
<1>3. i \in 1..n /\ j \in 1..n
  BY DEF n
<1>4. q \in Perm(n)
  BY <1>1, <1>3, IdIsPerm, SwapIsPerm
<1>5. Swap(a, i, j) = Moved(a, q, n) /\ Swap(a, i, j) \in [1..n -> Piece]
  BY <1>1, <1>2, <1>3 DEF Swap, Moved, Id
<1> HIDE DEF q
<1>6. \A p : Count(Moved(a, q, n), p) = Count(a, p)
  BY <1>1, <1>2, <1>4, CountMoved
<1> QED
  BY <1>2, <1>5, <1>6 DEF Full, n

\* With one copy of each piece, no two elements are the same.
LEMMA OneCopy ==
  ASSUME NEW a \in Full(1), NEW i \in 1..NPT, NEW j \in 1..NPT, a[i] = a[j]
  PROVE  i = j
<1> DEFINE S == {k \in 1..NPT : a[k] = a[i]}
<1>1. NPT \in Nat \ {0}
  BY SizeType
<1> HIDE DEF NPT
<1>2. a \in [1..NPT -> Piece] /\ a[i] \in Piece /\ Count(a, a[i]) = 1
  <2>1. 1 * NPT = NPT
    BY <1>1
  <2> QED
    BY <2>1 DEF Full
<1>3. {k \in DOMAIN a : a[k] = a[i]} = S
  BY <1>2
<1>4. i \in S /\ j \in S
  OBVIOUS
<1>5. IsFiniteSet(S)
  <2>1. IsFiniteSet(1..NPT)
    BY <1>1, FS_Interval
  <2> QED
    BY <2>1, FS_Subset
<1> HIDE DEF S
<1>6. Cardinality(S) = 1
  BY <1>2, <1>3 DEF Count
<1>7. PICK x : S = {x}
  BY <1>5, <1>6, FS_Singleton
<1> QED
  BY <1>4, <1>7

-----------------------------------------------------------------------------
\* What the deals of the bags keep.

BagType ==
  /\ kind \in Kinds /\ randBufIndex \in 0..kind.length - 1
  /\ randBuf \in Full(kind.copies) /\ piece \in Piece \cup {"none"}

\* s is dealt from the front of b.
Front(s, m, b) == s \in [1..m -> Piece] /\ \A i \in 1..m : s[i] = b[i]

\* What this pass dealt is the front of a buffer, and of the present one as long
\* as the pass goes on.
PassIsFront ==
  /\ \E b \in Full(kind.copies), m \in 0..Size(kind) : Front(pass, m, b)
  /\ randBufIndex # 0 => Front(pass, randBufIndex, randBuf)

\* The piece dealt last is before the index; at the start of a pass it is not the
\* next one.
Seam ==
  kind.seam /\ piece # "none" =>
    IF randBufIndex = 0 THEN randBuf[1] # piece ELSE piece = randBuf[randBufIndex]

BagInv == BagType /\ PassIsFront /\ Seam

LEMMA BagInit == Init => BagInv
<1> SUFFICES ASSUME Init PROVE BagInv
  OBVIOUS
<1>1. kind \in Kinds /\ randBuf \in First(kind.copies) /\ randBufIndex = 0 /\ piece = "none" /\ pass = <<>>
  BY DEF Init
<1>2. kind.copies \in Nat \ {0} /\ kind.length \in 1..Size(kind) /\ Size(kind) \in 1..MAX
  BY <1>1, SizeType
<1>3. randBuf \in Full(kind.copies)
  BY <1>1, <1>2, FirstIsFull
<1>4. 0 \in 0..kind.length - 1 /\ 0 \in 0..Size(kind)
  BY <1>2, MAXAssumption
<1>5. Front(pass, 0, randBuf)
  <2>1. <<>> \in [1..0 -> Piece] /\ 1..0 = {}
    OBVIOUS
  <2> QED
    BY <1>1, <2>1 DEF Front
<1> QED
  BY <1>1, <1>3, <1>4, <1>5 DEF BagInv, BagType, PassIsFront, Seam

\* Without a piece, a buffer may still be shuffled into one that starts with it.
LEMMA ReshuffledFacts ==
  ASSUME NEW k \in Kinds, kind = k, randBuf \in Full(k.copies), NEW b, NEW t \in Reshuffled(b)
  PROVE  t \in Full(k.copies) /\ (k.seam => t[1] # b)
<1>1. k.copies \in Nat \ {0} /\ NPT \in Nat \ {0} /\ (k.seam => k.copies = 1)
  BY SizeType
<1> HIDE DEF NPT
<1>2. PICK s \in Shuffles(randBuf) :
         t \in IF k.seam /\ s[1] = b THEN {Swap(s, 1, i) : i \in 2..NPT} ELSE {s}
  BY DEF Reshuffled
<1>3. s \in Full(k.copies)
  BY <1>1, <1>2, ShufflesFull
<1>4. CASE k.seam /\ s[1] = b
  <2>1. PICK i \in 2..NPT : t = Swap(s, 1, i)
    BY <1>2, <1>4
  <2>2. s \in Full(1) /\ i \in 1..NPT /\ 1 \in 1..NPT /\ 1 * NPT = NPT /\ i # 1
    BY <1>1, <1>3, <1>4
  <2>3. t \in Full(1)
    BY <2>1, <2>2, SwapIsFull
  <2>4. s[i] # s[1]
    BY <2>2, OneCopy
  <2>5. t[1] = s[i]
    <3>1. s \in [1..NPT -> Piece]
      BY <2>2 DEF Full
    <3> QED
      BY <2>1, <2>2, <3>1 DEF Swap
  <2> QED
    BY <1>1, <1>4, <2>3, <2>4, <2>5
<1>5. CASE ~ (k.seam /\ s[1] = b)
  BY <1>2, <1>3, <1>5
<1> QED
  BY <1>4, <1>5

LEMMA AppendFront ==
  ASSUME NEW m \in Nat, NEW s \in [1..m -> Piece], NEW b \in Piece
  PROVE  /\ Append(s, b) \in [1..m + 1 -> Piece] /\ Append(s, b)[m + 1] = b
         /\ \A i \in 1..m : Append(s, b)[i] = s[i]
<1>1. s \in Seq(Piece) /\ Len(s) = m
  BY LenOf
<1> DEFINE t == Append(s, b)
<1>2. t \in Seq(Piece) /\ Len(t) = m + 1
  BY <1>1
<1> HIDE DEF t
<1>3. t \in [1..m + 1 -> Piece]
  BY <1>2
<1> USE DEF t
<1> QED
  BY <1>1, <1>3

LEMMA BagStep == BagInv /\ Deal => BagInv' /\ (kind.seam => piece' # piece)
<1> SUFFICES ASSUME BagInv, Deal PROVE BagInv' /\ (kind.seam => piece' # piece)
  OBVIOUS
<1> DEFINE j == randBufIndex + 1
           b == randBuf[j]
           n == Size(kind)
<1>1. /\ kind \in Kinds /\ randBufIndex \in 0..kind.length - 1
      /\ randBuf \in Full(kind.copies) /\ piece \in Piece \cup {"none"}
  BY DEF BagInv, BagType
<1>2. /\ kind.copies \in Nat \ {0} /\ kind.length \in 1..n /\ n \in 1..MAX
      /\ kind.seam => kind.copies = 1
  BY <1>1, SizeType
<1>3. n \in Nat /\ kind.length \in Nat /\ j \in 1..n /\ j <= kind.length /\ randBufIndex \in Nat
  BY <1>1, <1>2, MAXAssumption
<1>4. randBuf \in [1..n -> Piece] /\ b \in Piece
  <2>1. randBuf \in [1..n -> Piece]
    BY <1>1 DEF Full, Size
  <2> HIDE DEF n, j
  <2> QED
    BY <1>3, <2>1
<1>5. /\ piece' = b /\ kind' = kind
      /\ IF j = kind.length THEN randBufIndex' = 0 /\ randBuf' \in Reshuffled(b)
         ELSE randBufIndex' = j /\ randBuf' = randBuf
      /\ pass' = IF randBufIndex = 0 THEN <<b>> ELSE Append(pass, b)
  BY DEF Deal
<1>6. randBuf' \in Full(kind.copies) /\ (kind.seam /\ j = kind.length => randBuf'[1] # b)
  <2>1. CASE j = kind.length
    BY <1>1, <1>5, <2>1, ReshuffledFacts
  <2>2. CASE j # kind.length
    BY <1>1, <1>5, <2>2
  <2> QED
    BY <2>1, <2>2
<1>7. BagType'
  <2>1. randBufIndex' \in 0..kind.length - 1
    BY <1>1, <1>3, <1>5
  <2> HIDE DEF b, j
  <2> QED
    BY <1>1, <1>4, <1>5, <1>6, <2>1 DEF BagType
<1>8. Front(pass', j, randBuf)
  <2>1. CASE randBufIndex = 0
    <3>1. pass' = <<b>> /\ j = 1
      BY <1>5, <2>1
    <3> QED
      BY <1>4, <3>1 DEF Front
  <2>2. CASE randBufIndex # 0
    <3> DEFINE m == randBufIndex
    <3>1. Front(pass, m, randBuf) /\ m \in Nat /\ j = m + 1
      BY <1>3, <2>2 DEF BagInv, PassIsFront
    <3>2. pass' = Append(pass, b)
      BY <1>5, <2>2
    <3> HIDE DEF m
    <3>3. pass \in [1..m -> Piece] /\ \A i \in 1..m : pass[i] = randBuf[i]
      BY <3>1 DEF Front
    <3>4. b \in Piece /\ b = randBuf[m + 1]
      BY <1>4, <3>1
    <3> HIDE DEF b, j
    <3>5. pass' \in [1..m + 1 -> Piece] /\ pass'[m + 1] = b /\ \A i \in 1..m : pass'[i] = pass[i]
      BY <3>1, <3>2, <3>3, <3>4, AppendFront
    <3> QED
      BY <3>1, <3>3, <3>4, <3>5 DEF Front
  <2> QED
    BY <2>1, <2>2
<1>9. PassIsFront'
  <2>1. j \in 0..n
    BY <1>3
  <2>2. \E c \in Full(kind.copies), m \in 0..n : Front(pass', m, c)
    BY <1>1, <1>8, <2>1
  <2>3. randBufIndex' # 0 => Front(pass', randBufIndex', randBuf')
    BY <1>5, <1>8
  <2>4. Size(kind)' = n /\ kind' = kind
    BY <1>5 DEF Size
  <2> HIDE DEF n
  <2> QED
    BY <2>2, <2>3, <2>4 DEF PassIsFront
<1>10. Seam'
  BY <1>3, <1>5, <1>6 DEF Seam
<1>11. kind.seam => piece' # piece
  <2> SUFFICES ASSUME kind.seam PROVE b # piece
    BY <1>5
  <2>1. CASE piece = "none"
    BY <1>4, <2>1, PieceAssumption
  <2>2. CASE piece # "none" /\ randBufIndex = 0
    BY <2>2 DEF BagInv, Seam
  <2>3. CASE piece # "none" /\ randBufIndex # 0
    <3>1. piece = randBuf[randBufIndex]
      BY <2>3 DEF BagInv, Seam
    <3>2. randBuf \in Full(1) /\ randBufIndex # j
      BY <1>1, <1>2, <1>3
    <3>3. NPT \in Nat /\ n = NPT
      <4>1. NPT \in Nat
        BY SizeType
      <4>2. kind.copies = 1
        BY <1>2
      <4>4. n = kind.copies * NPT
        BY DEF Size
      <4> HIDE DEF NPT, n
      <4>3. 1 * NPT = NPT
        BY <4>1
      <4> QED
        BY <4>1, <4>2, <4>3, <4>4
    <3>4. randBufIndex \in 1..NPT /\ j \in 1..NPT
      BY <1>3, <2>3, <3>3
    <3> QED
      BY <3>1, <3>2, <3>4, OneCopy
  <2> QED
    BY <2>1, <2>2, <2>3
<1> QED
  BY <1>7, <1>9, <1>10, <1>11 DEF BagInv

LEMMA BagDealtOnce == BagInv => DealtOnce
<1> SUFFICES ASSUME BagInv, NEW p \in Piece PROVE Count(pass, p) <= kind.copies
  BY DEF DealtOnce
<1> DEFINE n == Size(kind)
<1>1. PICK b \in Full(kind.copies), m \in 0..n : Front(pass, m, b)
  BY DEF BagInv, PassIsFront
<1>2. n \in Nat
  BY SizeType, MAXAssumption DEF BagInv, BagType
<1>3. b \in [1..n -> Piece] /\ Count(b, p) = kind.copies
  BY DEF Full, Size
<1> HIDE DEF n
<1> DEFINE S == {i \in 1..n : b[i] = p}
           T == {i \in 1..m : pass[i] = p}
<1>4. IsFiniteSet(S)
  <2>1. IsFiniteSet(1..n)
    BY <1>2, FS_Interval
  <2> QED
    BY <2>1, FS_Subset
<1>5. T \in SUBSET S
  BY <1>1, <1>2 DEF Front
<1>6. {i \in DOMAIN b : b[i] = p} = S /\ {i \in DOMAIN pass : pass[i] = p} = T
  BY <1>1, <1>3 DEF Front
<1> HIDE DEF S, T
<1>7. Cardinality(T) <= Cardinality(S)
  BY <1>4, <1>5, FS_Subset
<1> QED
  BY <1>3, <1>6, <1>7 DEF Count

LEMMA BagUnbiased == BagInv => UnbiasedShuffle /\ UnbiasedDraw
<1> SUFFICES ASSUME BagInv PROVE UnbiasedShuffle /\ UnbiasedDraw
  OBVIOUS
<1> DEFINE n == Size(kind)
<1>1. n \in 1..MAX /\ MAX \in Nat
  BY SizeType, MAXAssumption DEF BagInv, BagType
<1>2. randBuf \in [1..n -> Piece]
  BY DEF BagInv, BagType, Full, Size
<1> HIDE DEF n
<1>3. UnbiasedShuffle
  <2>1. n \in Nat \ {0}
    BY <1>1
  <2>2. \A s \in Order(randBuf) :
           Cardinality({c \in Draws(Len(randBuf)) : Shuffle(randBuf, c) = s})
             = Cardinality(Draws(Len(randBuf))) \div Cardinality(Order(randBuf))
    BY <1>2, <2>1, ShuffleUnbiased
  <2> QED
    BY <2>2 DEF UnbiasedShuffle
<1>4. UnbiasedDraw
  <2>1. \A range \in DOMAIN randBuf : range \in 1..MAX
    BY <1>1, <1>2
  <2> QED
    BY <2>1, DrawUnbiased DEF UnbiasedDraw
<1> QED
  BY <1>3, <1>4

LEMMA BagTypeOK == BagInv => TypeOK
<1> SUFFICES ASSUME BagInv PROVE TypeOK
  OBVIOUS
<1>1. Size(kind) \in Nat
  BY SizeType, MAXAssumption DEF BagInv, BagType
<1>2. randBuf \in [1..Size(kind) -> Piece]
  BY DEF BagInv, BagType, Full, Size
<1>3. Len(randBuf) = Size(kind)
  BY <1>1, <1>2, LenOf
<1> QED
  BY <1>3 DEF BagInv, BagType, TypeOK, Full, Size

\* A bag that is not used stays as it is.
LEMMA RBag ==
  /\ initRandomizer => BagInv
  /\ BagInv /\ [fsNextRandomPiece]_<<randomizer, vars, tgmVars>>
       => BagInv' /\ [kind.seam => piece' # piece]_vars
<1>1. initRandomizer => BagInv
  BY BagInit DEF initRandomizer, UnusedBag
<1>2. ASSUME BagInv, [fsNextRandomPiece]_<<randomizer, vars, tgmVars>>
      PROVE  BagInv' /\ [kind.seam => piece' # piece]_vars
  <2>1. CASE Deal
    BY <1>2, <2>1, BagStep
  <2>2. CASE UNCHANGED vars
    BY <1>2, <2>2 DEF vars, BagInv, BagType, PassIsFront, Seam, Full, Front, Size, Count
  <2> QED
    BY <1>2, <2>1, <2>2 DEF fsNextRandomPiece
<1> QED
  BY <1>1, <1>2

\* A bag deals no piece more often than it holds it, whichever bag a game is
\* started with.
THEOREM BagDealsOnce == RSpec => []DealtOnce
<1>1. BagInv => DealtOnce
  BY BagDealtOnce
<1> QED
  BY <1>1, RBag, PTL DEF RSpec

\* "Perform an unbiased shuffle" (rand.c:82), "Generate an unbiased integer"
\* (rand.c:56): every order from as many draws, every draw from as many numbers.
THEOREM ShuffleIsUnbiased == RSpec => []UnbiasedShuffle
<1>1. BagInv => UnbiasedShuffle
  BY BagUnbiased
<1> QED
  BY <1>1, RBag, PTL DEF RSpec

THEOREM DrawIsUnbiased == RSpec => []UnbiasedDraw
<1>1. BagInv => UnbiasedDraw
  BY BagUnbiased
<1> QED
  BY <1>1, RBag, PTL DEF RSpec

\* With the seam check no piece comes twice in a row.
THEOREM SeamKept == RSpec => NoRepeat
BY RBag, PTL DEF RSpec, NoRepeat

-----------------------------------------------------------------------------
\* A function that each value of gives the next.

Follows(h, n, a, F) == h[0] = a /\ \A i \in 1..n : h[i] = F[<<i, h[i - 1]>>]

LEMMA RecursionExists ==
  ASSUME NEW n \in Nat, NEW D, NEW a \in D, NEW F \in [(1..n) \X D -> D]
  PROVE  \E h \in [0..n -> D] : Follows(h, n, a, F)
<1> DEFINE Upto(m) == \E h \in [0..m -> D] : h[0] = a /\ \A i \in 1..m : h[i] = F[<<i, h[i - 1]>>]
           S == {m \in Nat : m <= n => Upto(m)}
<1>1. 0 \in S
  <2> DEFINE h == [i \in 0..0 |-> a]
  <2>1. h \in [0..0 -> D] /\ h[0] = a /\ 1..0 = {}
    OBVIOUS
  <2> HIDE DEF h
  <2> QED
    BY <2>1
<1>2. ASSUME NEW m \in Nat, m \in S PROVE m + 1 \in S
  <2> SUFFICES ASSUME m + 1 <= n PROVE Upto(m + 1)
    OBVIOUS
  <2>1. PICK h \in [0..m -> D] : h[0] = a /\ \A i \in 1..m : h[i] = F[<<i, h[i - 1]>>]
    BY <1>2
  <2> DEFINE e == [i \in 0..m + 1 |-> IF i = m + 1 THEN F[<<m + 1, h[m]>>] ELSE h[i]]
  <2>2. F[<<m + 1, h[m]>>] \in D
    <3>1. h[m] \in D /\ m + 1 \in 1..n
      BY <2>1
    <3>2. <<m + 1, h[m]>> \in (1..n) \X D
      BY <3>1
    <3> QED
      BY <3>2
  <2>3. e \in [0..m + 1 -> D] /\ e[0] = a /\ e[m + 1] = F[<<m + 1, h[m]>>] /\ \A i \in 0..m : e[i] = h[i]
    BY <2>1, <2>2
  <2> HIDE DEF e
  <2>4. ASSUME NEW i \in 1..m + 1 PROVE e[i] = F[<<i, e[i - 1]>>]
    <3>1. CASE i = m + 1
      <4>1. e[i - 1] = h[m] /\ e[i] = F[<<m + 1, h[m]>>]
        BY <2>3, <3>1
      <4> QED
        BY <3>1, <4>1
    <3>2. CASE i # m + 1
      <4>1. i \in 1..m /\ e[i - 1] = h[i - 1] /\ e[i] = h[i]
        BY <2>3, <3>2
      <4> QED
        BY <2>1, <4>1
    <3> QED
      BY <3>1, <3>2
  <2> QED
    BY <2>3, <2>4
<1> HIDE DEF S
<1>3. n \in S
  BY <1>1, <1>2, SetInduction
<1> QED
  BY <1>3 DEF S, Follows

-----------------------------------------------------------------------------
\* How many pieces the bag of TGM3 holds.

N == Cardinality(TGMPiece)

SumOf(g, f) == g = [i \in 0..N |-> IF i = 0 THEN 0 ELSE g[i - 1] + f[StartDrought[i]]]

LEMMA PlaceFacts ==
  /\ N \in Nat
  /\ StartDrought \in [1..N -> TGMPiece]
  /\ \A p \in TGMPiece : \E i \in 1..N : StartDrought[i] = p
  /\ \A i, j \in 1..N : StartDrought[i] = StartDrought[j] => i = j
<1>1. IsFiniteSet(TGMPiece) /\ StartDrought \in [1..N -> TGMPiece]
      /\ \A p \in TGMPiece : \E i \in 1..N : StartDrought[i] = p
  BY TGMAssumption DEF N
<1>2. N \in Nat
  BY <1>1, FS_CardinalityType DEF N
<1>3. IsFiniteSet(1..N) /\ Cardinality(1..N) = N
  <2> HIDE DEF N
  <2> QED
    BY <1>2, FS_Interval
<1>4. StartDrought \in Surjection(1..N, TGMPiece)
  BY <1>1, Fun_IsSurj
<1>5. StartDrought \in Injection(1..N, TGMPiece)
  BY <1>1, <1>3, <1>4, FS_Surjection DEF N
<1>6. \A i, j \in 1..N : StartDrought[i] = StartDrought[j] => i = j
  BY <1>1, <1>5 DEF Injection, IsInjective
<1> QED
  BY <1>1, <1>2, <1>6

LEMMA SameCardinality == TGM!NPT = N
BY Zenon DEF TGM!NPT, TGM!Cardinality, N, Cardinality

LEMMA TotalSums ==
  ASSUME NEW f \in [TGMPiece -> Nat]
  PROVE  \E g : /\ TGM!Total(f) = g[N] /\ g[0] = 0
                /\ \A i \in 1..N : g[i] = g[i - 1] + f[StartDrought[i]]
                /\ \A i \in 0..N : g[i] \in Nat
<1>1. N \in Nat /\ StartDrought \in [1..N -> TGMPiece]
  BY PlaceFacts
<1> DEFINE F == [u \in (1..N) \X Nat |-> u[2] + f[StartDrought[u[1]]]]
           g == CHOOSE h : SumOf(h, f)
<1>2. F \in [(1..N) \X Nat -> Nat] /\ \A i \in 1..N, x \in Nat : F[<<i, x>>] = x + f[StartDrought[i]]
  <2> HIDE DEF N
  <2> QED
    BY <1>1
<1>3. \E h : SumOf(h, f)
  <2> HIDE DEF F, N
  <2>1. PICK h \in [0..N -> Nat] : h[0] = 0 /\ \A i \in 1..N : h[i] = F[<<i, h[i - 1]>>]
    <3>1. 0 \in Nat
      OBVIOUS
    <3>2. \E h \in [0..N -> Nat] : Follows(h, N, 0, F)
      BY <1>1, <1>2, <3>1, RecursionExists
    <3> QED
      BY <3>2 DEF Follows
  <2>2. ASSUME NEW i \in 0..N PROVE h[i] = IF i = 0 THEN 0 ELSE h[i - 1] + f[StartDrought[i]]
    <3>1. CASE i = 0
      BY <2>1, <3>1
    <3>2. CASE i # 0
      <4>1. i \in 1..N /\ i - 1 \in 0..N /\ h[i - 1] \in Nat
        BY <1>1, <3>2
      <4>2. h[i] = F[<<i, h[i - 1]>>]
        BY <2>1, <4>1
      <4> QED
        BY <1>2, <3>2, <4>1, <4>2
    <3> QED
      BY <3>1, <3>2
  <2>3. SumOf(h, f)
    <3>1. h = [i \in 0..N |-> h[i]]
      OBVIOUS
    <3> QED
      BY <2>2, <3>1, Zenon DEF SumOf
  <2> QED
    BY <2>3
<1>4. SumOf(g, f)
  BY <1>3, Zenon
<1>5. TGM!Total(f) = g[N]
  <2> HIDE DEF N
  <2> QED
    BY SameCardinality, Zenon DEF TGM!Total, SumOf
<1> HIDE DEF g
<1>6. \A i \in 0..N : g[i] = IF i = 0 THEN 0 ELSE g[i - 1] + f[StartDrought[i]]
  BY <1>4, Zenon DEF SumOf
<1> HIDE DEF N
<1>7. g[0] = 0 /\ \A i \in 1..N : g[i] = g[i - 1] + f[StartDrought[i]]
  BY <1>1, <1>6
<1> DEFINE S == {k \in Nat : k <= N => g[k] \in Nat}
<1>8. 0 \in S
  BY <1>7
<1>9. ASSUME NEW k \in Nat, k \in S PROVE k + 1 \in S
  <2> SUFFICES ASSUME k + 1 <= N PROVE g[k + 1] \in Nat
    OBVIOUS
  <2>1. k + 1 \in 1..N /\ (k + 1) - 1 = k /\ g[k] \in Nat
    BY <1>1, <1>9
  <2>2. f[StartDrought[k + 1]] \in Nat
    BY <1>1, <2>1
  <2> QED
    BY <1>7, <2>1, <2>2
<1>10. \A k \in Nat : k \in S
  <2> HIDE DEF S
  <2> QED
    BY <1>8, <1>9, SetInduction
<1>11. \A i \in 0..N : g[i] \in Nat
  BY <1>1, <1>10
<1> QED
  BY <1>5, <1>7, <1>11

LEMMA TotalConstant ==
  ASSUME NEW c \in Nat
  PROVE  TGM!Total([p \in TGMPiece |-> c]) = c * N
<1> DEFINE f == [p \in TGMPiece |-> c]
<1>1. N \in Nat /\ StartDrought \in [1..N -> TGMPiece] /\ f \in [TGMPiece -> Nat]
  BY PlaceFacts
<1>2. \A i \in 1..N : f[StartDrought[i]] = c
  <2> HIDE DEF N
  <2> QED
    BY <1>1
<1> HIDE DEF f, N
<1>3. PICK g : /\ TGM!Total(f) = g[N] /\ g[0] = 0
               /\ \A i \in 1..N : g[i] = g[i - 1] + f[StartDrought[i]]
               /\ \A i \in 0..N : g[i] \in Nat
  BY <1>1, TotalSums
<1> DEFINE S == {k \in Nat : k <= N => g[k] = c * k}
<1>4. 0 \in S
  BY <1>3
<1>5. ASSUME NEW k \in Nat, k \in S PROVE k + 1 \in S
  <2> SUFFICES ASSUME k + 1 <= N PROVE g[k + 1] = c * (k + 1)
    OBVIOUS
  <2>1. k + 1 \in 1..N /\ (k + 1) - 1 = k /\ g[k] = c * k
    BY <1>1, <1>5
  <2>2. g[k + 1] = g[k] + c
    BY <1>2, <1>3, <2>1
  <2>3. c * (k + 1) = c * k + c
    OBVIOUS
  <2> QED
    BY <2>1, <2>2, <2>3
<1>6. \A k \in Nat : k \in S
  <2> HIDE DEF S
  <2> QED
    BY <1>4, <1>5, SetInduction
<1>7. g[N] = c * N
  BY <1>1, <1>6
<1> QED
  BY <1>3, <1>7 DEF f

LEMMA TotalChanges ==
  ASSUME NEW f \in [TGMPiece -> Nat], NEW h \in [TGMPiece -> Nat], NEW p \in TGMPiece, NEW d \in Int,
         h[p] = f[p] + d, \A q \in TGMPiece : q # p => h[q] = f[q]
  PROVE  TGM!Total(f) \in Nat /\ TGM!Total(h) = TGM!Total(f) + d
<1>1. N \in Nat /\ StartDrought \in [1..N -> TGMPiece]
      /\ \A i, j \in 1..N : StartDrought[i] = StartDrought[j] => i = j
  BY PlaceFacts
<1>2. PICK j \in 1..N : StartDrought[j] = p
  BY PlaceFacts
<1> HIDE DEF N
<1>3. PICK s : /\ TGM!Total(f) = s[N] /\ s[0] = 0
               /\ \A i \in 1..N : s[i] = s[i - 1] + f[StartDrought[i]]
               /\ \A i \in 0..N : s[i] \in Nat
  BY TotalSums
<1>4. PICK t : /\ TGM!Total(h) = t[N] /\ t[0] = 0
               /\ \A i \in 1..N : t[i] = t[i - 1] + h[StartDrought[i]]
               /\ \A i \in 0..N : t[i] \in Nat
  BY TotalSums
<1>5. ASSUME NEW i \in 1..N
      PROVE  f[StartDrought[i]] \in Nat /\ h[StartDrought[i]] = f[StartDrought[i]] + IF i = j THEN d ELSE 0
  BY <1>1, <1>2
<1> DEFINE S == {k \in Nat : k <= N => t[k] = s[k] + IF k >= j THEN d ELSE 0}
<1>6. 0 \in S
  BY <1>1, <1>2, <1>3, <1>4
<1>7. ASSUME NEW k \in Nat, k \in S PROVE k + 1 \in S
  <2> SUFFICES ASSUME k + 1 <= N PROVE t[k + 1] = s[k + 1] + IF k + 1 >= j THEN d ELSE 0
    OBVIOUS
  <2>1. k + 1 \in 1..N /\ (k + 1) - 1 = k /\ k \in 0..N /\ t[k] = s[k] + IF k >= j THEN d ELSE 0
    BY <1>1, <1>7
  <2> DEFINE x == f[StartDrought[k + 1]]
             y == h[StartDrought[k + 1]]
  <2>2. t[k + 1] = t[k] + y /\ s[k + 1] = s[k] + x
    BY <1>3, <1>4, <2>1
  <2>3. x \in Nat /\ y = x + IF k + 1 = j THEN d ELSE 0
    BY <1>5, <2>1
  <2>4. s[k] \in Nat /\ j \in Nat
    BY <1>2, <1>3, <2>1
  <2> HIDE DEF x, y
  <2> QED
    BY <2>1, <2>2, <2>3, <2>4
<1>8. \A k \in Nat : k \in S
  <2> HIDE DEF S
  <2> QED
    BY <1>6, <1>7, SetInduction
<1>9. t[N] = s[N] + d /\ s[N] \in Nat
  BY <1>1, <1>2, <1>3, <1>8
<1> QED
  BY <1>3, <1>4, <1>9

\* The bags of TGM3, that hold as many pieces.
Pools == {b \in [TGMPiece -> Nat] : TGM!Total(b) = BagCopies * N}

LEMMA ReplacedIsPool ==
  ASSUME NEW b \in Pools, NEW p \in TGMPiece, b[p] > 0, drought \in [1..N -> TGMPiece], N # 0
  PROVE  TGM!Replaced(b, p) \in Pools
<1> DEFINE q == drought[1]
           gone == [b EXCEPT ![p] = b[p] - 1]
           r == [gone EXCEPT ![q] = gone[q] + 1]
<1>1. b \in [TGMPiece -> Nat] /\ TGM!Total(b) = BagCopies * N
  BY DEF Pools
<1>2. q \in TGMPiece
  <2>1. 1 \in 1..N
    BY PlaceFacts
  <2> HIDE DEF N
  <2> QED
    BY <2>1
<1>3. TGM!Replaced(b, p) = r
  BY DEF TGM!Replaced
<1> HIDE DEF q
<1>4. gone \in [TGMPiece -> Nat] /\ gone[p] = b[p] + (-1) /\ \A x \in TGMPiece : x # p => gone[x] = b[x]
  BY <1>1
<1> HIDE DEF gone
<1>5. r \in [TGMPiece -> Nat] /\ r[q] = gone[q] + 1 /\ \A x \in TGMPiece : x # q => r[x] = gone[x]
  BY <1>2, <1>4
<1> HIDE DEF r
<1>6. TGM!Total(gone) = TGM!Total(b) + (-1) /\ TGM!Total(b) \in Nat
  <2>1. -1 \in Int
    OBVIOUS
  <2> QED
    BY <1>1, <1>4, <2>1, TotalChanges
<1>7. TGM!Total(r) = TGM!Total(gone) + 1
  <2>1. 1 \in Int
    OBVIOUS
  <2> QED
    BY <1>2, <1>4, <1>5, <2>1, TotalChanges
<1>8. TGM!Total(r) = TGM!Total(b)
  BY <1>6, <1>7
<1> QED
  BY <1>1, <1>3, <1>5, <1>8 DEF Pools

\* The bags one more reroll leaves.
Biased(B) == UNION {{TGM!Replaced(b, p) : p \in {q \in TGM!Recent : b[q] > 0}} : b \in B}

Rerolls(h, k) == h = [n \in 0..k |-> IF n = 0 THEN {pool} ELSE Biased(h[n - 1])]

LEMMA BiasedArePools ==
  ASSUME history \in [0..3 -> TGMPiece], drought \in [1..N -> TGMPiece], N # 0,
         NEW B \in SUBSET Pools
  PROVE  Biased(B) \in SUBSET Pools
<1>1. TGM!Recent \subseteq TGMPiece
  BY DEF TGM!Recent
<1>2. \A b \in B : \A p \in {q \in TGM!Recent : b[q] > 0} : TGM!Replaced(b, p) \in Pools
  BY <1>1, ReplacedIsPool
<1> QED
  BY <1>2 DEF Biased

LEMMA RerolledArePools ==
  ASSUME history \in [0..3 -> TGMPiece], drought \in [1..N -> TGMPiece], N # 0, pool \in Pools,
         NEW k \in Nat
  PROVE  TGM!Rerolled(k) \in SUBSET Pools
<1> DEFINE D == SUBSET Pools
           F == [u \in (1..k) \X D |-> Biased(u[2])]
           g == CHOOSE h : Rerolls(h, k)
<1>1. F \in [(1..k) \X D -> D] /\ \A i \in 1..k, B \in D : F[<<i, B>>] = Biased(B)
  <2>1. \A B \in D : Biased(B) \in D
    BY BiasedArePools
  <2> HIDE DEF D
  <2> QED
    BY <2>1
<1>2. {pool} \in D
  OBVIOUS
<1>3. \E h : Rerolls(h, k)
  <2> HIDE DEF F, D
  <2>1. \E h \in [0..k -> D] : Follows(h, k, {pool}, F)
    BY <1>1, <1>2, RecursionExists
  <2>2. PICK h \in [0..k -> D] : Follows(h, k, {pool}, F)
    BY <2>1
  <2>3. ASSUME NEW n \in 0..k PROVE h[n] = IF n = 0 THEN {pool} ELSE Biased(h[n - 1])
    <3>1. CASE n = 0
      BY <2>2, <3>1 DEF Follows
    <3>2. CASE n # 0
      <4>1. n \in 1..k /\ n - 1 \in 0..k /\ h[n - 1] \in D
        BY <3>2
      <4>2. h[n] = F[<<n, h[n - 1]>>]
        BY <2>2, <4>1 DEF Follows
      <4> QED
        BY <1>1, <3>2, <4>1, <4>2
    <3> QED
      BY <3>1, <3>2
  <2>4. Rerolls(h, k)
    <3>1. h = [n \in 0..k |-> h[n]]
      OBVIOUS
    <3> QED
      BY <2>3, <3>1, Zenon DEF Rerolls
  <2> QED
    BY <2>4
<1>4. Rerolls(g, k)
  BY <1>3, Zenon
<1>5. TGM!Rerolled(k) = g[k]
  BY Zenon DEF TGM!Rerolled, Rerolls, Biased
<1> HIDE DEF g
<1>6. \A n \in 0..k : g[n] = IF n = 0 THEN {pool} ELSE Biased(g[n - 1])
  BY <1>4, Zenon DEF Rerolls
<1> DEFINE S == {n \in Nat : n <= k => g[n] \in D}
<1>7. 0 \in S
  BY <1>2, <1>6
<1>8. ASSUME NEW n \in Nat, n \in S PROVE n + 1 \in S
  <2> SUFFICES ASSUME n + 1 <= k PROVE g[n + 1] \in D
    OBVIOUS
  <2>1. n + 1 \in 0..k /\ n + 1 # 0 /\ (n + 1) - 1 = n /\ g[n] \in D
    BY <1>8
  <2>2. g[n + 1] = Biased(g[n])
    BY <1>6, <2>1
  <2> QED
    BY <2>1, <2>2, BiasedArePools
<1> HIDE DEF S
<1>9. k \in S
  BY <1>7, <1>8, SetInduction
<1> QED
  BY <1>5, <1>9 DEF S

\* The order in which pieces are missed keeps its length.
LEMMA BackIsOrder ==
  ASSUME drought \in [1..N -> TGMPiece], N # 0, NEW p \in TGMPiece
  PROVE  TGM!Back(p) \in [1..N -> TGMPiece]
<1>1. N \in Nat \ {0} /\ TGM!NPT = N
  BY PlaceFacts, SameCardinality
<1> HIDE DEF N
<1>2. ASSUME NEW i \in 1..N PROVE TGM!Shifted(i) \in [1..N -> TGMPiece]
  <2>1. TGM!Shifted(i) =
          [j \in 1..N |-> IF j >= i /\ 4 * (j - i) < N - i THEN drought[j + 1] ELSE drought[j]]
    BY <1>1 DEF TGM!Shifted
  <2>2. ASSUME NEW j \in 1..N, j >= i, 4 * (j - i) < N - i PROVE j + 1 \in 1..N
    <3>1. j - i \in Nat /\ 4 * (j - i) >= j - i
      BY <2>2
    <3> QED
      BY <1>1, <2>2, <3>1
  <2> QED
    BY <2>1, <2>2
<1> DEFINE at == {i \in 1..N : drought[i] = p}
           i == CHOOSE x \in at : \A y \in at : x <= y
<1>3. TGM!Back(p) = IF at = {} THEN drought ELSE [TGM!Shifted(i) EXCEPT ![N] = p]
  BY <1>1 DEF TGM!Back
<1>4. CASE at = {}
  BY <1>3, <1>4
<1>5. CASE at # {}
  <2>1. at \subseteq Nat
    OBVIOUS
  <2>2. \E x \in at : \A y \in at : x <= y
    <3> HIDE DEF at
    <3> QED
      BY <1>5, <2>1, LeastMember
  <2>3. i \in at
    <3> HIDE DEF at
    <3> QED
      BY <2>2, Zenon
  <2> HIDE DEF i
  <2>4. TGM!Shifted(i) \in [1..N -> TGMPiece]
    BY <1>2, <2>3
  <2> QED
    BY <1>3, <1>5, <2>4
<1> QED
  BY <1>4, <1>5

-----------------------------------------------------------------------------
\* initTGM, fromTGM1or2, fromTGM3.

TGMType ==
  /\ tgmKind \in TGMKinds /\ history \in [0..3 -> TGMPiece] /\ oldest \in 0..3
  /\ pool \in Pools /\ drought \in [1..N -> TGMPiece] /\ allSeen \subseteq TGMPiece
  /\ tgmPiece \in TGMPiece \cup {"none"}

\* The places before the index hold what was dealt last.
Remembered ==
  /\ last \in Seq(TGMPiece) /\ Len(last) <= 4
  /\ \A k \in 1..Len(last) : history[(oldest + (3 - Len(last) + k)) % 4] = last[k]

TGMInv == TGMType /\ Remembered

LEMMA TGMInit == TGM!Init => TGMInv
<1> SUFFICES ASSUME TGM!Init PROVE TGMInv
  OBVIOUS
<1>1. /\ tgmKind \in TGMKinds /\ history = StartHistory[tgmKind] /\ oldest = 0
      /\ pool = [p \in TGMPiece |-> BagCopies] /\ drought = StartDrought /\ allSeen = {}
      /\ tgmPiece = "none" /\ last = <<>>
  BY DEF TGM!Init
<1>2. StartHistory[tgmKind] \in [0..3 -> TGMPiece] /\ BagCopies \in Nat
  BY <1>1, TGMAssumption
<1>3. pool \in Pools
  <2>1. pool \in [TGMPiece -> Nat]
    BY <1>1, <1>2
  <2>2. TGM!Total(pool) = BagCopies * N
    BY <1>1, <1>2, TotalConstant
  <2> QED
    BY <2>1, <2>2 DEF Pools
<1>4. drought \in [1..N -> TGMPiece]
  BY <1>1, PlaceFacts
<1>5. last \in Seq(TGMPiece) /\ Len(last) = 0
  BY <1>1
<1> QED
  BY <1>1, <1>2, <1>3, <1>4, <1>5 DEF TGMInv, TGMType, Remembered

\* The index goes round four places.
LEMMA Round ==
  ASSUME NEW o \in 0..3
  PROVE  /\ (o + 1) % 4 \in 0..3 /\ (((o + 1) % 4) + 3) % 4 = o
         /\ \A i \in 0..2 : /\ (((o + 1) % 4) + i) % 4 = (o + (i + 1)) % 4
                            /\ (o + (i + 1)) % 4 \in 0..3 \ {o}
<1>1. CASE o = 0
  BY <1>1
<1>2. CASE o = 1
  BY <1>2
<1>3. CASE o = 2
  BY <1>3
<1>4. CASE o = 3
  BY <1>4
<1> QED
  BY <1>1, <1>2, <1>3, <1>4

LEMMA AppendFacts ==
  ASSUME NEW s \in Seq(TGMPiece), NEW p \in TGMPiece
  PROVE  /\ Append(s, p) \in Seq(TGMPiece) /\ Len(Append(s, p)) = Len(s) + 1
         /\ Append(s, p)[Len(s) + 1] = p
         /\ \A k \in 1..Len(s) : Append(s, p)[k] = s[k]
OBVIOUS

LEMMA TailFacts ==
  ASSUME NEW s \in Seq(TGMPiece), Len(s) = 4
  PROVE  Tail(s) \in Seq(TGMPiece) /\ Len(Tail(s)) = 3 /\ \A k \in 1..3 : Tail(s)[k] = s[k + 1]
<1>1. s # <<>>
  OBVIOUS
<1> DEFINE t == Tail(s)
<1>2. t \in Seq(TGMPiece) /\ Len(t) = Len(s) - 1 /\ \A k \in 1..Len(t) : t[k] = s[k + 1]
  BY <1>1, HeadTailProperties
<1> HIDE DEF t
<1>3. Len(t) = 3
  BY <1>2
<1> QED
  BY <1>2, <1>3 DEF t

LEMMA RememberStep ==
  ASSUME TGMInv, NEW p \in TGMPiece, TGM!Remember(p)
  PROVE  history' \in [0..3 -> TGMPiece] /\ oldest' \in 0..3 /\ Remembered'
<1> DEFINE m == Len(last)
           s == IF m = 4 THEN Tail(last) ELSE last
           n == Len(s)
<1>1. history \in [0..3 -> TGMPiece] /\ oldest \in 0..3 /\ last \in Seq(TGMPiece) /\ m <= 4
  BY DEF TGMInv, TGMType, Remembered
<1>2. \A k \in 1..m : history[(oldest + (3 - m + k)) % 4] = last[k]
  BY DEF TGMInv, Remembered
<1>3. history' = [history EXCEPT ![oldest] = p] /\ oldest' = (oldest + 1) % 4 /\ last' = Append(s, p)
  BY DEF TGM!Remember
<1>4. s \in Seq(TGMPiece) /\ n \in 0..3
  <2>1. CASE m = 4
    <3>1. s = Tail(last)
      BY <2>1
    <3>2. s \in Seq(TGMPiece) /\ Len(s) = 3
      BY <1>1, <2>1, <3>1, TailFacts
    <3> HIDE DEF s
    <3> QED
      BY <3>2
  <2>2. CASE m # 4
    <3>1. s = last
      BY <2>2
    <3>2. m \in Nat /\ m <= 4
      BY <1>1
    <3> HIDE DEF m
    <3>3. m \in 0..3
      BY <2>2, <3>2
    <3> USE DEF m
    <3> QED
      BY <1>1, <3>1, <3>3
  <2> QED
    BY <2>1, <2>2
\* What stays in the window is one place further from the index.
<1>5. ASSUME NEW k \in 1..n
      PROVE  history[(oldest + (3 - n + k)) % 4] = s[k]
  <2>1. CASE m = 4
    <3>1. s = Tail(last)
      BY <2>1
    <3> HIDE DEF s
    <3>2. n = 3 /\ \A i \in 1..3 : s[i] = last[i + 1]
      BY <1>1, <2>1, <3>1, TailFacts
    <3> HIDE DEF m, n
    <3>3. s[k] = last[k + 1] /\ k + 1 \in 1..m /\ 3 - m + (k + 1) = 3 - n + k
      BY <2>1, <3>2
    <3>4. history[(oldest + (3 - m + (k + 1))) % 4] = last[k + 1]
      BY <1>2, <3>3
    <3> QED
      BY <3>3, <3>4
  <2>2. CASE m # 4
    <3>1. s = last
      BY <2>2
    <3> HIDE DEF s
    <3>2. n = m
      BY <3>1
    <3> HIDE DEF m, n
    <3> QED
      BY <1>2, <3>1, <3>2
  <2> QED
    BY <2>1, <2>2
<1> HIDE DEF s, m, n
<1>6. history' \in [0..3 -> TGMPiece] /\ oldest' \in 0..3 /\ history'[oldest] = p
      /\ \A i \in 0..3 : i # oldest => history'[i] = history[i]
  BY <1>1, <1>3, Round
<1>7. last' \in Seq(TGMPiece) /\ Len(last') = n + 1 /\ last'[n + 1] = p
      /\ \A k \in 1..n : last'[k] = s[k]
  BY <1>3, <1>4, AppendFacts DEF n
<1>8. ASSUME NEW k \in 1..n + 1 PROVE history'[(oldest' + (3 - (n + 1) + k)) % 4] = last'[k]
  <2>1. CASE k = n + 1
    <3>1. 3 - (n + 1) + k = 3
      BY <1>4, <2>1
    <3>2. (oldest' + 3) % 4 = oldest
      BY <1>1, <1>3, Round
    <3> QED
      BY <1>6, <1>7, <2>1, <3>1, <3>2
  <2>2. CASE k # n + 1
    <3> DEFINE i == 3 - (n + 1) + k
    <3>1. k \in 1..n /\ i \in 0..2 /\ i + 1 = 3 - n + k
      BY <1>4, <2>2
    <3> HIDE DEF i
    <3>2. (oldest' + i) % 4 = (oldest + (i + 1)) % 4 /\ (oldest + (i + 1)) % 4 \in 0..3
          /\ (oldest + (i + 1)) % 4 # oldest
      BY <1>1, <1>3, <3>1, Round
    <3>3. history[(oldest + (i + 1)) % 4] = s[k]
      BY <1>5, <3>1
    <3>4. history'[(oldest' + i) % 4] = s[k]
      BY <1>6, <3>2, <3>3
    <3> QED
      BY <1>7, <3>1, <3>4 DEF i
  <2> QED
    BY <2>1, <2>2
<1>9. Remembered'
  <2>1. n + 1 <= 4
    BY <1>4
  <2> QED
    BY <1>7, <1>8, <2>1 DEF Remembered
<1> QED
  BY <1>6, <1>9

LEMMA PiecesExist ==
  ASSUME NEW p \in TGMPiece
  PROVE  N # 0
<1>1. \E i \in 1..N : StartDrought[i] = p
  BY PlaceFacts
<1>2. 1..0 = {}
  OBVIOUS
<1> HIDE DEF N
<1> QED
  BY <1>1, <1>2

LEMMA TGM12Step == TGMInv /\ TGM!DealTGM12 => TGMInv'
<1> SUFFICES ASSUME TGMInv, TGM!DealTGM12 PROVE TGMInv'
  OBVIOUS
<1>1. PICK p \in TGMPiece :
         /\ TGM!Dealt(p)
         /\ IF first THEN p \in Openers /\ UNCHANGED <<history, oldest, last>> ELSE TGM!Remember(p)
  BY DEF TGM!DealTGM12
<1>2. UNCHANGED <<pool, drought, allSeen>>
  BY DEF TGM!DealTGM12
<1>3. tgmPiece' = p /\ tgmKind' = tgmKind
  BY <1>1 DEF TGM!Dealt
<1>4. history' \in [0..3 -> TGMPiece] /\ oldest' \in 0..3 /\ Remembered'
  <2>1. CASE first
    <3>1. history' = history /\ oldest' = oldest /\ last' = last
      BY <1>1, <2>1
    <3> QED
      BY <3>1 DEF TGMInv, TGMType, Remembered
  <2>2. CASE ~ first
    BY <1>1, <2>2, RememberStep
  <2> QED
    BY <2>1, <2>2
<1> QED
  BY <1>2, <1>3, <1>4 DEF TGMInv, TGMType, Pools

LEMMA TGM3Step == TGMInv /\ TGM!DealTGM3 => TGMInv'
<1> SUFFICES ASSUME TGMInv, TGM!DealTGM3 PROVE TGMInv'
  OBVIOUS
<1>1. /\ tgmKind \in TGMKinds /\ history \in [0..3 -> TGMPiece] /\ oldest \in 0..3
      /\ pool \in Pools /\ drought \in [1..N -> TGMPiece] /\ allSeen \subseteq TGMPiece
  BY DEF TGMInv, TGMType
<1>2. CASE /\ first
           /\ \E p \in Openers : TGM!Dealt(p) /\ TGM!Remember(p)
           /\ UNCHANGED <<pool, drought, allSeen>>
  <2>1. PICK p \in Openers : TGM!Dealt(p) /\ TGM!Remember(p)
    BY <1>2
  <2>2. p \in TGMPiece
    BY TGMAssumption
  <2>3. history' \in [0..3 -> TGMPiece] /\ oldest' \in 0..3 /\ Remembered'
    BY <2>1, <2>2, RememberStep
  <2>4. tgmPiece' = p /\ tgmKind' = tgmKind
    BY <2>1 DEF TGM!Dealt
  <2> QED
    BY <1>1, <1>2, <2>2, <2>3, <2>4 DEF TGMInv, TGMType, Pools
<1>3. CASE \E rolls \in 0..Rolls[tgmKind] :
           \E b \in TGM!Rerolled(IF rolls = Rolls[tgmKind] THEN rolls - 1 ELSE rolls) :
           \E p \in {q \in TGMPiece : b[q] > 0 /\ (q \in TGM!Recent <=> rolls = Rolls[tgmKind])} :
             /\ TGM!Dealt(p) /\ TGM!Remember(p)
             /\ pool' = TGM!Draw(b, p, rolls) /\ allSeen' = allSeen \cup {p}
             /\ drought' = TGM!Back(p)
  <2>1. PICK rolls \in 0..Rolls[tgmKind] :
           \E b \in TGM!Rerolled(IF rolls = Rolls[tgmKind] THEN rolls - 1 ELSE rolls) :
           \E p \in {q \in TGMPiece : b[q] > 0 /\ (q \in TGM!Recent <=> rolls = Rolls[tgmKind])} :
             /\ TGM!Dealt(p) /\ TGM!Remember(p)
             /\ pool' = TGM!Draw(b, p, rolls) /\ allSeen' = allSeen \cup {p}
             /\ drought' = TGM!Back(p)
    BY <1>3
  <2> DEFINE k == IF rolls = Rolls[tgmKind] THEN rolls - 1 ELSE rolls
  <2>2. k \in Nat
    BY <1>1, TGMAssumption
  <2> HIDE DEF k
  <2>3. PICK b \in TGM!Rerolled(k) :
           \E p \in {q \in TGMPiece : b[q] > 0 /\ (q \in TGM!Recent <=> rolls = Rolls[tgmKind])} :
             /\ TGM!Dealt(p) /\ TGM!Remember(p)
             /\ pool' = TGM!Draw(b, p, rolls) /\ allSeen' = allSeen \cup {p}
             /\ drought' = TGM!Back(p)
    BY <2>1 DEF k
  <2>4. PICK p \in TGMPiece :
             /\ b[p] > 0 /\ TGM!Dealt(p) /\ TGM!Remember(p)
             /\ pool' = TGM!Draw(b, p, rolls) /\ allSeen' = allSeen \cup {p}
             /\ drought' = TGM!Back(p)
    BY <2>3
  <2>5. N # 0
    BY PiecesExist
  <2>6. b \in Pools
    BY <1>1, <2>2, <2>3, <2>5, RerolledArePools
  <2>7. pool' \in Pools
    <3>1. TGM!Replaced(b, p) \in Pools
      BY <1>1, <2>4, <2>5, <2>6, ReplacedIsPool
    <3> QED
      BY <2>4, <2>6, <3>1 DEF TGM!Draw
  <2>8. drought' \in [1..N -> TGMPiece]
    BY <1>1, <2>4, <2>5, BackIsOrder
  <2>9. history' \in [0..3 -> TGMPiece] /\ oldest' \in 0..3 /\ Remembered'
    BY <2>4, RememberStep
  <2>10. tgmPiece' = p /\ tgmKind' = tgmKind /\ allSeen' \subseteq TGMPiece
    BY <1>1, <2>4 DEF TGM!Dealt
  <2> HIDE DEF N
  <2> QED
    BY <1>1, <2>7, <2>8, <2>9, <2>10 DEF TGMInv, TGMType
<1> QED
  BY <1>2, <1>3 DEF TGM!DealTGM3

LEMMA RTGM ==
  /\ initRandomizer => TGMInv
  /\ TGMInv /\ [fsNextRandomPiece]_<<randomizer, vars, tgmVars>> => TGMInv'
<1>1. initRandomizer => TGMInv
  BY TGMInit DEF initRandomizer, UnusedTGM
<1>2. ASSUME TGMInv, [fsNextRandomPiece]_<<randomizer, vars, tgmVars>> PROVE TGMInv'
  <2>1. CASE TGM!DealTGM12
    BY <1>2, <2>1, TGM12Step
  <2>2. CASE TGM!DealTGM3
    BY <1>2, <2>2, TGM3Step
  <2>3. CASE UNCHANGED tgmVars
    BY <1>2, <2>3 DEF tgmVars, TGMInv, TGMType, Remembered, Pools
  <2> QED
    BY <1>2, <2>1, <2>2, <2>3 DEF fsNextRandomPiece
<1> QED
  BY <1>1, <1>2

LEMMA RInvTypeOK == BagInv /\ TGMInv => RTypeOK
<1> SUFFICES ASSUME BagInv, TGMInv PROVE RTypeOK
  OBVIOUS
<1>1. TypeOK
  BY BagTypeOK
<1>2. TGM!TypeOK
  <2>1. pool \in [TGMPiece -> Nat] /\ TGM!Total(pool) = BagCopies * TGM!NPT
        /\ drought \in [1..TGM!NPT -> TGMPiece]
    BY SameCardinality DEF TGMInv, TGMType, Pools
  <2> QED
    BY <2>1 DEF TGMInv, TGMType, TGM!TypeOK
<1> QED
  BY <1>1, <1>2 DEF RTypeOK

LEMMA RInvHistory == TGMInv => HistoryIsLastFour
<1> SUFFICES ASSUME TGMInv, Len(last) = 4, NEW i \in 0..3
             PROVE  history[(oldest + i) % 4] = last[i + 1]
  BY DEF HistoryIsLastFour, TGM!HistoryIsLastFour
<1>1. i + 1 \in 1..Len(last) /\ 3 - Len(last) + (i + 1) = i
  OBVIOUS
<1>2. history[(oldest + (3 - Len(last) + (i + 1))) % 4] = last[i + 1]
  BY <1>1 DEF TGMInv, Remembered
<1> QED
  BY <1>1, <1>2

\* Both kinds of randomizer keep their shape: a bag holds its copies of each piece
\* after every shuffle, and that of TGM3 as many pieces after every reroll.
THEOREM RandomizersTyped == RSpec => []RTypeOK
BY RBag, RTGM, RInvTypeOK, PTL DEF RSpec

\* The history of four is the last four pieces dealt (rand.c:227-228, 347-349).
THEOREM HistoryKept == RSpec => []HistoryIsLastFour
BY RTGM, RInvHistory, PTL DEF RSpec
=============================================================================
