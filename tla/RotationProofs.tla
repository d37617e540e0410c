--------------------------- MODULE RotationProofs ---------------------------
(***************************************************************************)
(* Proofs about the tables of rotation.c, for walks of any length under    *)
(* any of the rotation systems, that every system's tables are fit for the *)
(* engine, and that those of finesse.c are exact: no presses, however they *)
(* are ordered, come to a place sooner than Quarters and Away allow, and   *)
(* some come as soon.                                                      *)
(***************************************************************************)
EXTENDS MCRotation, FiniteSetTheorems, TLAPS

-----------------------------------------------------------------------------
\* Turning.

Sides == {Clockwise, Anticlockwise}

LEMMA Turns ==
  /\ Theta = {0, 1, 2, 3}
  /\ Turned(0, Clockwise) = 1 /\ Turned(1, Clockwise) = 2
  /\ Turned(2, Clockwise) = 3 /\ Turned(3, Clockwise) = 0
  /\ Turned(0, Anticlockwise) = 3 /\ Turned(1, Anticlockwise) = 0
  /\ Turned(2, Anticlockwise) = 1 /\ Turned(3, Anticlockwise) = 2
BY DEF Theta, Turned, Clockwise, Anticlockwise

LEMMA DifferentWays == Clockwise # Anticlockwise /\ Clockwise # Halfturn /\ Anticlockwise # Halfturn
BY DEF Clockwise, Anticlockwise, Halfturn

-----------------------------------------------------------------------------
\* The first test of every row: where a piece lands when nothing is in the way.

\* The place of a piece in each orientation, from its place in orientation 0.
Still == <<<<0, 0>>, <<0, 0>>, <<0, 0>>, <<0, 0>>>>
HomeI   == <<<<0, 0>>, <<0, 0>>, <<0, -1>>, <<1, 0>>>>
HomeJLT == <<<<0, 0>>, <<0, 0>>, <<0, 1>>, <<0, 0>>>>
HomeS   == <<<<0, 0>>, <<-1, -1>>, <<0, -1>>, <<0, -1>>>>
HomeZ   == <<<<0, 0>>, <<0, -1>>, <<0, -1>>, <<1, -1>>>>
SegaHome(p) ==
  CASE p = "I" -> HomeI [] p = "S" -> HomeS [] p = "Z" -> HomeZ [] p = "O" -> Still
    [] OTHER   -> HomeJLT
Home(s, p) == IF s \in {"sega", "tgm12", "tgm3"} THEN SegaHome(p) ELSE Still

\* The test k takes a piece from a to b.
Leads(k, a, b) == k = K(b[1] - a[1], b[2] - a[2])

\* The tables R and L agree with the places h.
Lands(R, L, h) ==
  /\ Leads(R[1][1], h[1], h[2]) /\ Leads(R[2][1], h[2], h[3])
  /\ Leads(R[3][1], h[3], h[4]) /\ Leads(R[4][1], h[4], h[1])
  /\ Leads(L[1][1], h[1], h[4]) /\ Leads(L[2][1], h[2], h[1])
  /\ Leads(L[3][1], h[3], h[2]) /\ Leads(L[4][1], h[4], h[3])

LEMMA LeadsK ==
  \A a, b, c, d, e, f \in Int : e = c - a /\ f = d - b => Leads(K(e, f), <<a, b>>, <<c, d>>)
BY DEF Leads

LEMMA SideFirst ==
  \A a, b : /\ Only(a, b)[1] = K(a, b) /\ Side(a, b)[1] = K(a, b) /\ SideLJT(a, b)[1] = K(a, b)
BY DEF Only, Side, SideLJT

LEMMA AppendFirst ==
  ASSUME NEW a, NEW b, NEW k
  PROVE  Append(Side(a, b), k)[1] = K(a, b)
BY DEF Side

LEMMA StillLands ==
  /\ Lands(kicksSRS_R, kicksSRS_L, Still) /\ Lands(kicksSRS_I_R, kicksSRS_I_L, Still)
  /\ Lands(kicksArika_I_R, kicksArika_I_L, Still) /\ Lands(kicksDTET_R, kicksDTET_L, Still)
<1>1. Lands(kicksSRS_R, kicksSRS_L, Still)
  BY LeadsK DEF Lands, Still, kicksSRS_R, kicksSRS_L
<1>2. Lands(kicksSRS_I_R, kicksSRS_I_L, Still)
  BY LeadsK DEF Lands, Still, kicksSRS_I_R, kicksSRS_I_L
<1>3. Lands(kicksArika_I_R, kicksArika_I_L, Still)
  BY LeadsK DEF Lands, Still, kicksArika_I_R, kicksArika_I_L
<1>4. Lands(kicksDTET_R, kicksDTET_L, Still)
  BY LeadsK DEF Lands, Still, kicksDTET_R, kicksDTET_L
<1> QED
  BY <1>1, <1>2, <1>3, <1>4

LEMMA SegaLands ==
  /\ Lands(kicksSega_I_R, kicksSega_I_L, HomeI)
  /\ Lands(kicksSega_JLT_R, kicksSega_JLT_L, HomeJLT)
  /\ Lands(kicksSega_S_R, kicksSega_S_L, HomeS)
  /\ Lands(kicksSega_Z_R, kicksSega_Z_L, HomeZ)
<1>1. Lands(kicksSega_I_R, kicksSega_I_L, HomeI)
  BY LeadsK, SideFirst DEF Lands, HomeI, kicksSega_I_R, kicksSega_I_L
<1>2. Lands(kicksSega_JLT_R, kicksSega_JLT_L, HomeJLT)
  BY LeadsK, SideFirst DEF Lands, HomeJLT, kicksSega_JLT_R, kicksSega_JLT_L
<1>3. Lands(kicksSega_S_R, kicksSega_S_L, HomeS)
  BY LeadsK, SideFirst DEF Lands, HomeS, kicksSega_S_R, kicksSega_S_L
<1>4. Lands(kicksSega_Z_R, kicksSega_Z_L, HomeZ)
  BY LeadsK, SideFirst DEF Lands, HomeZ, kicksSega_Z_R, kicksSega_Z_L
<1> QED
  BY <1>1, <1>2, <1>3, <1>4

LEMMA TGMLands ==
  /\ Lands(kicksTGM_JLT_R, kicksTGM_JLT_L, HomeJLT)
  /\ Lands(kicksTGM_S_R, kicksTGM_S_L, HomeS)
  /\ Lands(kicksTGM_Z_R, kicksTGM_Z_L, HomeZ)
  /\ Lands(kicksTGM3_I_R, kicksTGM3_I_L, HomeI)
  /\ Lands(kicksTGM3_T_R, kicksTGM3_T_L, HomeJLT)
<1>1. Lands(kicksTGM_JLT_R, kicksTGM_JLT_L, HomeJLT)
  BY LeadsK, SideFirst DEF Lands, HomeJLT, kicksTGM_JLT_R, kicksTGM_JLT_L
<1>2. Lands(kicksTGM_S_R, kicksTGM_S_L, HomeS)
  BY LeadsK, SideFirst DEF Lands, HomeS, kicksTGM_S_R, kicksTGM_S_L
<1>3. Lands(kicksTGM_Z_R, kicksTGM_Z_L, HomeZ)
  BY LeadsK, SideFirst DEF Lands, HomeZ, kicksTGM_Z_R, kicksTGM_Z_L
<1>4. Lands(kicksTGM3_I_R, kicksTGM3_I_L, HomeI)
  BY LeadsK, SideFirst DEF Lands, HomeI, kicksTGM3_I_R, kicksTGM3_I_L
<1>5. Lands(kicksTGM3_T_R, kicksTGM3_T_L, HomeJLT)
  <2>1. /\ kicksTGM3_T_R[1][1] = K(0, 0) /\ kicksTGM3_T_R[2][1] = K(0, 1)
        /\ kicksTGM3_T_R[3][1] = K(0, -1) /\ kicksTGM3_T_R[4][1] = K(0, 0)
    <3>1. /\ kicksTGM3_T_R[1] = SideLJT(0, 0) /\ kicksTGM3_T_R[3] = SideLJT(0, -1)
          /\ kicksTGM3_T_R[2] = Append(Side(0, 1), K(0, 0))
          /\ kicksTGM3_T_R[4] = Append(Side(0, 0), K(0, -1))
      BY DEF kicksTGM3_T_R
    <3>2. Append(Side(0, 1), K(0, 0))[1] = K(0, 1) /\ Append(Side(0, 0), K(0, -1))[1] = K(0, 0)
      BY AppendFirst, Zenon
    <3>3. SideLJT(0, 0)[1] = K(0, 0) /\ SideLJT(0, -1)[1] = K(0, -1)
      BY SideFirst
    <3> QED
      BY <3>1, <3>2, <3>3, Zenon
  <2>2. /\ kicksTGM3_T_L[1][1] = K(0, 0) /\ kicksTGM3_T_L[2][1] = K(0, 0)
        /\ kicksTGM3_T_L[3][1] = K(0, -1) /\ kicksTGM3_T_L[4][1] = K(0, 1)
    <3>1. /\ kicksTGM3_T_L[1] = SideLJT(0, 0) /\ kicksTGM3_T_L[3] = SideLJT(0, -1)
          /\ kicksTGM3_T_L[2] = Append(Side(0, 0), K(0, -1))
          /\ kicksTGM3_T_L[4] = Append(Side(0, 1), K(0, 0))
      BY DEF kicksTGM3_T_L
    <3>2. Append(Side(0, 0), K(0, -1))[1] = K(0, 0) /\ Append(Side(0, 1), K(0, 0))[1] = K(0, 1)
      BY AppendFirst, Zenon
    <3>3. SideLJT(0, 0)[1] = K(0, 0) /\ SideLJT(0, -1)[1] = K(0, -1)
      BY SideFirst
    <3> QED
      BY <3>1, <3>2, <3>3, Zenon
  <2> QED
    BY <2>1, <2>2, LeadsK DEF Lands, HomeJLT
<1> QED
  BY <1>1, <1>2, <1>3, <1>4, <1>5

LEMMA HomeLands ==
  ASSUME NEW s \in System \ {"simple"}, NEW p \in PieceType \ {"O"}
  PROVE  Lands(SystemTables(s, p)[1], SystemTables(s, p)[2], Home(s, p))
<1>1. CASE s \in {"srs", "arikasrs", "dtet"}
  <2>1. Home(s, p) = Still
    BY <1>1 DEF Home
  <2>2. SystemTables(s, p) \in {<<kicksSRS_R, kicksSRS_L>>, <<kicksSRS_I_R, kicksSRS_I_L>>,
                                <<kicksArika_I_R, kicksArika_I_L>>, <<kicksDTET_R, kicksDTET_L>>}
    BY <1>1 DEF SystemTables
  <2> QED
    BY <2>1, <2>2, StillLands
<1>2. CASE s = "sega"
  <2>1. SystemTables(s, p) = SegaTables(p) /\ Home(s, p) = SegaHome(p)
    BY <1>2 DEF SystemTables, Home
  <2> QED
    BY <2>1, SegaLands DEF SegaTables, SegaHome, PieceType
<1>3. Lands(TGM12Tables(p)[1], TGM12Tables(p)[2], SegaHome(p))
  BY SegaLands, TGMLands DEF TGM12Tables, SegaHome, PieceType
<1>4. CASE s = "tgm12"
  <2>1. SystemTables(s, p) = TGM12Tables(p) /\ Home(s, p) = SegaHome(p)
    BY <1>4 DEF SystemTables, Home
  <2> QED
    BY <1>3, <2>1
<1>5. CASE s = "tgm3"
  <2>1. SystemTables(s, p) = TGM3Tables(p) /\ Home(s, p) = SegaHome(p)
    BY <1>5 DEF SystemTables, Home
  <2>2. CASE p \in {"I", "T"}
    BY <2>1, <2>2, TGMLands DEF TGM3Tables, SegaHome
  <2>3. CASE p \notin {"I", "T"}
    BY <1>3, <2>1, <2>3 DEF TGM3Tables
  <2> QED
    BY <2>2, <2>3
<1> QED
  BY <1>1, <1>2, <1>4, <1>5 DEF System

\* The first test takes a piece from its place in one orientation to that in the
\* next, which is all that is to be known of it.
LEMMA FirstTest ==
  ASSUME NEW s \in System, NEW p \in PieceType, NEW dir \in Sides, NEW t \in Theta
  PROVE  Leads(KickRow(s, p, dir, t)[1], Home(s, p)[t + 1], Home(s, p)[Turned(t, dir) + 1])
<1>1. CASE p = "O" \/ s = "simple"
  <2>1. Home(s, p) = Still
    BY <1>1 DEF Home, SegaHome
  <2>2. KickRow(s, p, dir, t)[1] = K(0, 0)
    <3>1. KickRow(s, p, dir, t) = emptyWallkickTable[t + 1]
      BY <1>1 DEF KickRow
    <3>2. emptyWallkickTable[t + 1] = Only(0, 0)
      BY DEF emptyWallkickTable, Theta
    <3> QED
      BY <3>1, <3>2, SideFirst
  <2>3. Still[t + 1] = <<0, 0>> /\ Still[Turned(t, dir) + 1] = <<0, 0>>
    BY Turns DEF Still, Sides
  <2> QED
    BY <2>1, <2>2, <2>3, LeadsK
<1>2. CASE p # "O" /\ s # "simple"
  <2> DEFINE R == SystemTables(s, p)[1]
             L == SystemTables(s, p)[2]
             h == Home(s, p)
  <2>1. Lands(R, L, h)
    BY <1>2, HomeLands
  <2>2. KickRow(s, p, Clockwise, t) = R[t + 1] /\ KickRow(s, p, Anticlockwise, t) = L[t + 1]
    BY <1>2, DifferentWays DEF KickRow
  <2> HIDE DEF R, L, h
  <2>3. /\ Leads(R[t + 1][1], h[t + 1], h[Turned(t, Clockwise) + 1])
        /\ Leads(L[t + 1][1], h[t + 1], h[Turned(t, Anticlockwise) + 1])
    BY <2>1, Turns DEF Lands
  <2> QED
    BY <2>2, <2>3 DEF Sides, h
<1> QED
  BY <1>1, <1>2

LEMMA HomeType ==
  ASSUME NEW s \in System, NEW p \in PieceType
  PROVE  /\ \A t \in Theta : Home(s, p)[t + 1] \in Int \X Int
         /\ Home(s, p)[1] = <<0, 0>>
<1>1. Home(s, p) \in {Still, HomeI, HomeJLT, HomeS, HomeZ}
  BY DEF Home, SegaHome
<1>2. \A h \in {Still, HomeI, HomeJLT, HomeS, HomeZ} :
        h[1] = <<0, 0>> /\ h[2] \in Int \X Int /\ h[3] \in Int \X Int /\ h[4] \in Int \X Int
  BY DEF Still, HomeI, HomeJLT, HomeS, HomeZ
<1> QED
  BY <1>1, <1>2, Turns

-----------------------------------------------------------------------------
\* A walk: the piece is where its orientation puts it.

AtHome ==
  /\ sys \in System /\ piece \in PieceType /\ theta \in Theta
  /\ x = Home(sys, piece)[theta + 1][1] /\ y = Home(sys, piece)[theta + 1][2]

LEMMA TurnedType == \A dir \in Sides, t \in Theta : Turned(t, dir) \in Theta
BY Turns DEF Sides

LEMMA WalkStays == AtHome /\ [Next]_vars => AtHome'
<1> SUFFICES ASSUME AtHome, Next PROVE AtHome'
  BY DEF AtHome, vars
<1>1. PICK dir \in Sides : Turn(dir)
  BY DEF Next, Sides
<1> DEFINE k == KickRow(sys, piece, dir, theta)[1]
           a == Home(sys, piece)[theta + 1]
           b == Home(sys, piece)[Turned(theta, dir) + 1]
<1>2. /\ sys' = sys /\ piece' = piece /\ theta' = Turned(theta, dir)
      /\ x' = x + k.x /\ y' = y + k.y
  BY <1>1 DEF Turn
<1>3. Leads(k, a, b) /\ theta' \in Theta
  BY <1>2, FirstTest, TurnedType DEF AtHome
<1>4. a \in Int \X Int /\ b \in Int \X Int
  BY <1>2, <1>3, HomeType DEF AtHome
<1>5. x = a[1] /\ y = a[2]
  BY DEF AtHome
<1> HIDE DEF k, a, b
<1>6. k.x = b[1] - a[1] /\ k.y = b[2] - a[2]
  BY <1>3 DEF Leads, K
<1>7. x' = b[1] /\ y' = b[2]
  BY <1>2, <1>4, <1>5, <1>6
<1> QED
  BY <1>2, <1>3, <1>7 DEF AtHome, b

LEMMA Walks == Spec => []AtHome
<1>1. Init => AtHome
  BY WalkAssumption, HomeType, Turns DEF Init, AtHome
<1> QED
  BY <1>1, WalkStays, PTL DEF Spec

\* However often and in whatever order a piece is turned in the open, under any
\* system, it is back in its place when it is back in its entry orientation.
THEOREM AlwaysHome == Spec => []HomeAgain
<1>1. AtHome => HomeAgain
  BY HomeType DEF AtHome, HomeAgain
<1> QED
  BY <1>1, Walks, PTL

\* The TGM systems place and turn every piece as Sega's does where nothing is in
\* the way (rotation.c:264-267, 340-347).
THEOREM TGMIsSega == Spec => []TGMTurnsLikeSega
<1>1. AtHome => TGMTurnsLikeSega
  <2> SUFFICES ASSUME AtHome, sys \in {"tgm12", "tgm3"} PROVE TurnsLikeSega
    BY DEF TGMTurnsLikeSega
  <2>1. Shape(sys, piece, theta) = Shape("sega", piece, theta)
    BY DEF Shape, entryTheta
  <2>2. ASSUME NEW dir \in Sides
        PROVE  KickRow(sys, piece, dir, theta)[1] = KickRow("sega", piece, dir, theta)[1]
    <3>1. Home(sys, piece) = Home("sega", piece) /\ "sega" \in System /\ sys \in System
          /\ piece \in PieceType /\ theta \in Theta
      BY DEF Home, AtHome, System
    <3> QED
      BY <3>1, FirstTest DEF Leads
  <2> QED
    BY <2>1, <2>2 DEF TurnsLikeSega, Sides
<1> QED
  BY <1>1, Walks, PTL

-----------------------------------------------------------------------------
\* The shapes.

LEMMA ShapesOf ==
  \A p \in PieceType \ {"O"}, i \in 1..4 :
    pieceOffsets[p][IF i = 4 THEN 1 ELSE i + 1]
      = QuarterTurn(pieceOffsets[p][i], IF p = "I" THEN 3 ELSE 2)
<1>1. /\ QuarterTurn(pieceOffsets["I"][1], 3) = pieceOffsets["I"][2]
      /\ QuarterTurn(pieceOffsets["I"][2], 3) = pieceOffsets["I"][3]
      /\ QuarterTurn(pieceOffsets["I"][3], 3) = pieceOffsets["I"][4]
      /\ QuarterTurn(pieceOffsets["I"][4], 3) = pieceOffsets["I"][1]
  BY DEF pieceOffsets, QuarterTurn
<1>2. /\ QuarterTurn(pieceOffsets["J"][1], 2) = pieceOffsets["J"][2]
      /\ QuarterTurn(pieceOffsets["J"][2], 2) = pieceOffsets["J"][3]
      /\ QuarterTurn(pieceOffsets["J"][3], 2) = pieceOffsets["J"][4]
      /\ QuarterTurn(pieceOffsets["J"][4], 2) = pieceOffsets["J"][1]
  BY DEF pieceOffsets, QuarterTurn
<1>3. /\ QuarterTurn(pieceOffsets["L"][1], 2) = pieceOffsets["L"][2]
      /\ QuarterTurn(pieceOffsets["L"][2], 2) = pieceOffsets["L"][3]
      /\ QuarterTurn(pieceOffsets["L"][3], 2) = pieceOffsets["L"][4]
      /\ QuarterTurn(pieceOffsets["L"][4], 2) = pieceOffsets["L"][1]
  BY DEF pieceOffsets, QuarterTurn
<1>4. /\ QuarterTurn(pieceOffsets["S"][1], 2) = pieceOffsets["S"][2]
      /\ QuarterTurn(pieceOffsets["S"][2], 2) = pieceOffsets["S"][3]
      /\ QuarterTurn(pieceOffsets["S"][3], 2) = pieceOffsets["S"][4]
      /\ QuarterTurn(pieceOffsets["S"][4], 2) = pieceOffsets["S"][1]
  BY DEF pieceOffsets, QuarterTurn
<1>5. /\ QuarterTurn(pieceOffsets["T"][1], 2) = pieceOffsets["T"][2]
      /\ QuarterTurn(pieceOffsets["T"][2], 2) = pieceOffsets["T"][3]
      /\ QuarterTurn(pieceOffsets["T"][3], 2) = pieceOffsets["T"][4]
      /\ QuarterTurn(pieceOffsets["T"][4], 2) = pieceOffsets["T"][1]
  BY DEF pieceOffsets, QuarterTurn
<1>6. /\ QuarterTurn(pieceOffsets["Z"][1], 2) = pieceOffsets["Z"][2]
      /\ QuarterTurn(pieceOffsets["Z"][2], 2) = pieceOffsets["Z"][3]
      /\ QuarterTurn(pieceOffsets["Z"][3], 2) = pieceOffsets["Z"][4]
      /\ QuarterTurn(pieceOffsets["Z"][4], 2) = pieceOffsets["Z"][1]
  BY DEF pieceOffsets, QuarterTurn
<1> QED
  BY <1>1, <1>2, <1>3, <1>4, <1>5, <1>6 DEF PieceType

\* pieceOffsets holds four quarter turns of one shape, in every system.
THEOREM ShapesAreRigid == Spec => []RigidTurn
<1>1. AtHome => RigidTurn
  <2> SUFFICES ASSUME AtHome, piece # "O"
               PROVE  Shape(sys, piece, Turned(theta, Clockwise))
                        = QuarterTurn(Shape(sys, piece, theta), IF piece = "I" THEN 3 ELSE 2)
    BY DEF RigidTurn
  <2> DEFINE i == ((theta + entryTheta(sys, piece)) % 4) + 1
  <2>1. entryTheta(sys, piece) \in {0, 2} /\ theta \in {0, 1, 2, 3}
    BY Turns DEF entryTheta, AtHome
  <2>2. i \in 1..4
        /\ ((Turned(theta, Clockwise) + entryTheta(sys, piece)) % 4) + 1 = IF i = 4 THEN 1 ELSE i + 1
    BY <2>1, Turns
  <2> QED
    BY <2>2, ShapesOf DEF AtHome, Shape
<1> QED
  BY <1>1, Walks, PTL

-----------------------------------------------------------------------------
\* Tests that undo each other, and tests that are mirror images.

Undone(a, b) == a = K(-b.x, -b.y)
Undoes(r, s) == Len(r) = Len(s) /\ \A k \in DOMAIN r : r[k] = K(-s[k].x, -s[k].y)

LEMMA KFields == \A a, b : K(a, b).x = a /\ K(a, b).y = b
BY DEF K

LEMMA Negative == \A a, b \in Int : a + b = 0 => a = -b
OBVIOUS

LEMMA UndoneK == \A a, b, c, d \in Int : a + c = 0 /\ b + d = 0 => Undone(K(a, b), K(c, d))
BY KFields, Negative DEF Undone

LEMMA UndoesOne == \A a, b : Undone(a, b) => Undoes(<<a>>, <<b>>)
BY DEF Undoes, Undone

LEMMA UndoesFive ==
  \A a1, a2, a3, a4, a5, b1, b2, b3, b4, b5 :
    Undone(a1, b1) /\ Undone(a2, b2) /\ Undone(a3, b3) /\ Undone(a4, b4) /\ Undone(a5, b5)
      => Undoes(<<a1, a2, a3, a4, a5>>, <<b1, b2, b3, b4, b5>>)
BY DEF Undoes, Undone

\* Every row of R undoes the row of L for the turn back, and the other way round.
Reverses(R, L) ==
  /\ Undoes(R[1], L[2]) /\ Undoes(R[2], L[3]) /\ Undoes(R[3], L[4]) /\ Undoes(R[4], L[1])
  /\ Undoes(L[2], R[1]) /\ Undoes(L[3], R[2]) /\ Undoes(L[4], R[3]) /\ Undoes(L[1], R[4])

LEMMA TablesReverse ==
  /\ Reverses(kicksSRS_R, kicksSRS_L) /\ Reverses(kicksSRS_I_R, kicksSRS_I_L)
  /\ Reverses(kicksSega_I_R, kicksSega_I_L) /\ Reverses(kicksSega_JLT_R, kicksSega_JLT_L)
  /\ Reverses(kicksSega_S_R, kicksSega_S_L) /\ Reverses(kicksSega_Z_R, kicksSega_Z_L)
<1>1. Reverses(kicksSRS_R, kicksSRS_L)
  <2>1. /\ Undoes(kicksSRS_R[1], kicksSRS_L[2]) /\ Undoes(kicksSRS_R[2], kicksSRS_L[3])
        /\ Undoes(kicksSRS_R[3], kicksSRS_L[4]) /\ Undoes(kicksSRS_R[4], kicksSRS_L[1])
    BY UndoesFive, UndoneK DEF kicksSRS_R, kicksSRS_L
  <2>2. /\ Undoes(kicksSRS_L[2], kicksSRS_R[1]) /\ Undoes(kicksSRS_L[3], kicksSRS_R[2])
        /\ Undoes(kicksSRS_L[4], kicksSRS_R[3]) /\ Undoes(kicksSRS_L[1], kicksSRS_R[4])
    BY UndoesFive, UndoneK DEF kicksSRS_R, kicksSRS_L
  <2> QED
    BY <2>1, <2>2 DEF Reverses
<1>2. Reverses(kicksSRS_I_R, kicksSRS_I_L)
  <2>1. /\ Undoes(kicksSRS_I_R[1], kicksSRS_I_L[2]) /\ Undoes(kicksSRS_I_R[2], kicksSRS_I_L[3])
        /\ Undoes(kicksSRS_I_R[3], kicksSRS_I_L[4]) /\ Undoes(kicksSRS_I_R[4], kicksSRS_I_L[1])
    BY UndoesFive, UndoneK DEF kicksSRS_I_R, kicksSRS_I_L
  <2>2. /\ Undoes(kicksSRS_I_L[2], kicksSRS_I_R[1]) /\ Undoes(kicksSRS_I_L[3], kicksSRS_I_R[2])
        /\ Undoes(kicksSRS_I_L[4], kicksSRS_I_R[3]) /\ Undoes(kicksSRS_I_L[1], kicksSRS_I_R[4])
    BY UndoesFive, UndoneK DEF kicksSRS_I_R, kicksSRS_I_L
  <2> QED
    BY <2>1, <2>2 DEF Reverses
<1>3. Reverses(kicksSega_I_R, kicksSega_I_L)
  <2>1. /\ Undoes(kicksSega_I_R[1], kicksSega_I_L[2]) /\ Undoes(kicksSega_I_R[2], kicksSega_I_L[3])
        /\ Undoes(kicksSega_I_R[3], kicksSega_I_L[4]) /\ Undoes(kicksSega_I_R[4], kicksSega_I_L[1])
    BY UndoesOne, UndoneK DEF Only, kicksSega_I_R, kicksSega_I_L
  <2>2. /\ Undoes(kicksSega_I_L[2], kicksSega_I_R[1]) /\ Undoes(kicksSega_I_L[3], kicksSega_I_R[2])
        /\ Undoes(kicksSega_I_L[4], kicksSega_I_R[3]) /\ Undoes(kicksSega_I_L[1], kicksSega_I_R[4])
    BY UndoesOne, UndoneK DEF Only, kicksSega_I_R, kicksSega_I_L
  <2> QED
    BY <2>1, <2>2 DEF Reverses
<1>4. Reverses(kicksSega_JLT_R, kicksSega_JLT_L)
  <2>1. /\ Undoes(kicksSega_JLT_R[1], kicksSega_JLT_L[2]) /\ Undoes(kicksSega_JLT_R[2], kicksSega_JLT_L[3])
        /\ Undoes(kicksSega_JLT_R[3], kicksSega_JLT_L[4]) /\ Undoes(kicksSega_JLT_R[4], kicksSega_JLT_L[1])
    BY UndoesOne, UndoneK DEF Only, kicksSega_JLT_R, kicksSega_JLT_L
  <2>2. /\ Undoes(kicksSega_JLT_L[2], kicksSega_JLT_R[1]) /\ Undoes(kicksSega_JLT_L[3], kicksSega_JLT_R[2])
        /\ Undoes(kicksSega_JLT_L[4], kicksSega_JLT_R[3]) /\ Undoes(kicksSega_JLT_L[1], kicksSega_JLT_R[4])
    BY UndoesOne, UndoneK DEF Only, kicksSega_JLT_R, kicksSega_JLT_L
  <2> QED
    BY <2>1, <2>2 DEF Reverses
<1>5. Reverses(kicksSega_S_R, kicksSega_S_L)
  <2>1. /\ Undoes(kicksSega_S_R[1], kicksSega_S_L[2]) /\ Undoes(kicksSega_S_R[2], kicksSega_S_L[3])
        /\ Undoes(kicksSega_S_R[3], kicksSega_S_L[4]) /\ Undoes(kicksSega_S_R[4], kicksSega_S_L[1])
    BY UndoesOne, UndoneK DEF Only, kicksSega_S_R, kicksSega_S_L
  <2>2. /\ Undoes(kicksSega_S_L[2], kicksSega_S_R[1]) /\ Undoes(kicksSega_S_L[3], kicksSega_S_R[2])
        /\ Undoes(kicksSega_S_L[4], kicksSega_S_R[3]) /\ Undoes(kicksSega_S_L[1], kicksSega_S_R[4])
    BY UndoesOne, UndoneK DEF Only, kicksSega_S_R, kicksSega_S_L
  <2> QED
    BY <2>1, <2>2 DEF Reverses
<1>6. Reverses(kicksSega_Z_R, kicksSega_Z_L)
  <2>1. /\ Undoes(kicksSega_Z_R[1], kicksSega_Z_L[2]) /\ Undoes(kicksSega_Z_R[2], kicksSega_Z_L[3])
        /\ Undoes(kicksSega_Z_R[3], kicksSega_Z_L[4]) /\ Undoes(kicksSega_Z_R[4], kicksSega_Z_L[1])
    BY UndoesOne, UndoneK DEF Only, kicksSega_Z_R, kicksSega_Z_L
  <2>2. /\ Undoes(kicksSega_Z_L[2], kicksSega_Z_R[1]) /\ Undoes(kicksSega_Z_L[3], kicksSega_Z_R[2])
        /\ Undoes(kicksSega_Z_L[4], kicksSega_Z_R[3]) /\ Undoes(kicksSega_Z_L[1], kicksSega_Z_R[4])
    BY UndoesOne, UndoneK DEF Only, kicksSega_Z_R, kicksSega_Z_L
  <2> QED
    BY <2>1, <2>2 DEF Reverses
<1> QED
  BY <1>1, <1>2, <1>3, <1>4, <1>5, <1>6

LEMMA RowsUndo ==
  ASSUME NEW s \in System, NEW p \in PieceType, NEW dir \in Sides, NEW t \in Theta,
         s \in {"simple", "sega", "srs"} \/ (s = "arikasrs" /\ p # "I")
  PROVE  Undoes(KickRow(s, p, dir, t), KickRow(s, p, Opposite(dir), Turned(t, dir)))
<1>1. Turned(t, dir) \in Theta /\ Opposite(dir) \in Sides
  BY TurnedType DEF Opposite, Sides
<1>2. CASE p = "O" \/ s = "simple"
  <2>1. \A d \in Sides, u \in Theta : KickRow(s, p, d, u) = <<K(0, 0)>>
    BY <1>2 DEF KickRow, emptyWallkickTable, Only, Theta
  <2>2. Undone(K(0, 0), K(0, 0))
    BY UndoneK
  <2> QED
    BY <1>1, <2>1, <2>2, UndoesOne
<1>3. CASE p # "O" /\ s # "simple"
  <2> DEFINE R == SystemTables(s, p)[1]
             L == SystemTables(s, p)[2]
  <2>1. Reverses(R, L)
    <3>1. CASE s = "sega"
      BY <3>1, TablesReverse DEF SystemTables, SegaTables
    <3>2. CASE s = "srs"
      BY <3>2, TablesReverse DEF SystemTables
    <3>3. CASE s = "arikasrs" /\ p # "I"
      BY <3>3, TablesReverse DEF SystemTables
    <3> QED
      BY <1>3, <3>1, <3>2, <3>3
  <2>2. \A u \in Theta : /\ KickRow(s, p, Clockwise, u) = R[u + 1]
                         /\ KickRow(s, p, Anticlockwise, u) = L[u + 1]
    BY <1>3, DifferentWays DEF KickRow
  <2> HIDE DEF R, L
  <2>3. CASE dir = Clockwise
    <3>1. Undoes(R[t + 1], L[Turned(t, Clockwise) + 1])
      BY <2>1, Turns DEF Reverses
    <3> QED
      BY <1>1, <2>2, <2>3, <3>1 DEF Opposite
  <2>4. CASE dir = Anticlockwise
    <3>1. Undoes(L[t + 1], R[Turned(t, Anticlockwise) + 1])
      BY <2>1, Turns DEF Reverses
    <3> QED
      BY <1>1, <2>2, <2>4, <3>1, DifferentWays DEF Opposite
  <2> QED
    BY <2>3, <2>4 DEF Sides
<1> QED
  BY <1>2, <1>3

\* Test k of a turn undoes test k of the turn back, for every piece in SRS and in
\* Sega's system and for all but I in Arika's.
THEOREM KicksTurnBack == Spec => []KicksReversible
<1>1. AtHome => KicksReversible
  <2> SUFFICES ASSUME AtHome, sys \in {"simple", "sega", "srs"} \/ (sys = "arikasrs" /\ piece # "I"),
                      NEW dir \in Sides
               PROVE  Undoes(KickRow(sys, piece, dir, theta),
                             KickRow(sys, piece, Opposite(dir), Turned(theta, dir)))
    BY DEF KicksReversible, Undoes, Sides
  <2> QED
    BY RowsUndo DEF AtHome
<1> QED
  BY <1>1, Walks, PTL

Flipped(a, b) == b = K(-a.x, a.y)
Flips(r, s) == Len(r) = Len(s) /\ \A k \in DOMAIN r : s[k] = K(-r[k].x, r[k].y)

LEMMA FlippedK == \A a, b, c \in Int : a + c = 0 => Flipped(K(a, b), K(c, b))
BY KFields, Negative DEF Flipped

LEMMA FlipsOne == \A a, b : Flipped(a, b) => Flips(<<a>>, <<b>>)
BY DEF Flips, Flipped

LEMMA FlipsFive ==
  \A a1, a2, a3, a4, a5, b1, b2, b3, b4, b5 :
    Flipped(a1, b1) /\ Flipped(a2, b2) /\ Flipped(a3, b3) /\ Flipped(a4, b4) /\ Flipped(a5, b5)
      => Flips(<<a1, a2, a3, a4, a5>>, <<b1, b2, b3, b4, b5>>)
BY DEF Flips, Flipped

LEMMA FlipsSix ==
  ASSUME NEW a1, NEW a2, NEW a3, NEW a4, NEW a5, NEW a6,
         NEW b1, NEW b2, NEW b3, NEW b4, NEW b5, NEW b6,
         Flipped(a1, b1), Flipped(a2, b2), Flipped(a3, b3),
         Flipped(a4, b4), Flipped(a5, b5), Flipped(a6, b6)
  PROVE  Flips(<<a1, a2, a3, a4, a5, a6>>, <<b1, b2, b3, b4, b5, b6>>)
<1> DEFINE r == <<a1, a2, a3, a4, a5, a6>>
           s == <<b1, b2, b3, b4, b5, b6>>
<1>1. Len(r) = 6 /\ Len(s) = 6 /\ DOMAIN r = 1..6
  OBVIOUS
<1>2. /\ r[1] = a1 /\ r[2] = a2 /\ r[3] = a3 /\ r[4] = a4 /\ r[5] = a5 /\ r[6] = a6
      /\ s[1] = b1 /\ s[2] = b2 /\ s[3] = b3 /\ s[4] = b4 /\ s[5] = b5 /\ s[6] = b6
  OBVIOUS
<1> HIDE DEF r, s
<1>3. \A k \in 1..6 : Flipped(r[k], s[k])
  BY <1>2
<1> QED
  BY <1>1, <1>3 DEF Flips, Flipped, r, s

\* The clockwise table R of a piece and the anticlockwise one of its mirror image.
Mirrors(R, L) == Flips(R[1], L[1]) /\ Flips(R[2], L[4]) /\ Flips(R[3], L[3]) /\ Flips(R[4], L[2])

LEMMA TablesMirror ==
  /\ Mirrors(kicksSRS_R, kicksSRS_L) /\ Mirrors(kicksDTET_R, kicksDTET_L)
  /\ Mirrors(kicksSega_JLT_R, kicksSega_JLT_L)
  /\ Mirrors(kicksSega_S_R, kicksSega_Z_L) /\ Mirrors(kicksSega_Z_R, kicksSega_S_L)
<1>1. Mirrors(kicksSRS_R, kicksSRS_L)
  BY FlipsFive, FlippedK DEF Mirrors, kicksSRS_R, kicksSRS_L
<1>2. Mirrors(kicksDTET_R, kicksDTET_L)
  BY FlipsSix, FlippedK DEF Mirrors, kicksDTET_R, kicksDTET_L
<1>3. Mirrors(kicksSega_JLT_R, kicksSega_JLT_L)
  BY FlipsOne, FlippedK DEF Mirrors, Only, kicksSega_JLT_R, kicksSega_JLT_L
<1>4. Mirrors(kicksSega_S_R, kicksSega_Z_L)
  BY FlipsOne, FlippedK DEF Mirrors, Only, kicksSega_S_R, kicksSega_Z_L
<1>5. Mirrors(kicksSega_Z_R, kicksSega_S_L)
  BY FlipsOne, FlippedK DEF Mirrors, Only, kicksSega_Z_R, kicksSega_S_L
<1> QED
  BY <1>1, <1>2, <1>3, <1>4, <1>5

LEMMA RowsMirror ==
  ASSUME NEW s \in System, NEW p \in PieceType, NEW t \in Theta,
         s \in {"simple", "dtet"} \/ (s \in {"srs", "arikasrs", "sega"} /\ p # "I")
  PROVE  Flips(KickRow(s, p, Clockwise, t),
               KickRow(s, MirrorPiece(p), Anticlockwise, MirrorTheta(t)))
<1>1. /\ MirrorTheta(0) = 0 /\ MirrorTheta(1) = 3 /\ MirrorTheta(2) = 2 /\ MirrorTheta(3) = 1
      /\ MirrorTheta(t) \in Theta
  BY Turns DEF MirrorTheta
<1>2. /\ MirrorPiece(p) \in PieceType /\ (MirrorPiece(p) = "O" <=> p = "O")
      /\ MirrorPiece(p) = "I" <=> p = "I"
  BY DEF MirrorPiece, PieceType
<1>3. CASE p = "O" \/ s = "simple"
  <2>1. /\ KickRow(s, p, Clockwise, t) = <<K(0, 0)>>
        /\ KickRow(s, MirrorPiece(p), Anticlockwise, MirrorTheta(t)) = <<K(0, 0)>>
    BY <1>1, <1>2, <1>3 DEF KickRow, emptyWallkickTable, Only, Theta
  <2>2. Flipped(K(0, 0), K(0, 0))
    BY FlippedK
  <2> QED
    BY <2>1, <2>2, FlipsOne
<1>4. CASE p # "O" /\ s # "simple"
  <2> DEFINE R == SystemTables(s, p)[1]
             L == SystemTables(s, MirrorPiece(p))[2]
  <2>1. Mirrors(R, L)
    <3>1. CASE s = "dtet"
      BY <3>1, TablesMirror DEF SystemTables
    <3>2. CASE s \in {"srs", "arikasrs"} /\ p # "I"
      BY <1>2, <3>2, TablesMirror DEF SystemTables
    <3>3. CASE s = "sega" /\ p # "I"
      <4>1. SystemTables(s, p) = SegaTables(p)
            /\ SystemTables(s, MirrorPiece(p)) = SegaTables(MirrorPiece(p))
        BY <3>3 DEF SystemTables
      <4>2. CASE p = "S"
        BY <4>1, <4>2, TablesMirror DEF SegaTables, MirrorPiece
      <4>3. CASE p = "Z"
        BY <4>1, <4>3, TablesMirror DEF SegaTables, MirrorPiece
      <4>4. CASE p \in {"J", "L", "T"}
        <5>1. MirrorPiece(p) \in {"J", "L", "T"}
          BY <4>4 DEF MirrorPiece
        <5> QED
          BY <4>1, <4>4, <5>1, TablesMirror DEF SegaTables
      <4> QED
        BY <1>4, <3>3, <4>2, <4>3, <4>4 DEF PieceType
    <3> QED
      BY <1>4, <3>1, <3>2, <3>3
  <2>2. /\ KickRow(s, p, Clockwise, t) = R[t + 1]
        /\ KickRow(s, MirrorPiece(p), Anticlockwise, MirrorTheta(t)) = L[MirrorTheta(t) + 1]
    BY <1>2, <1>4, DifferentWays DEF KickRow
  <2> HIDE DEF R, L
  <2>3. Flips(R[t + 1], L[MirrorTheta(t) + 1])
    BY <1>1, <2>1, Turns DEF Mirrors
  <2> QED
    BY <2>2, <2>3
<1> QED
  BY <1>3, <1>4

\* A piece and its mirror image, turned the other way, have mirrored tests in the
\* same order: for every piece in DTET (rotation.c:442-446), for all but I in SRS,
\* in Arika's SRS and in Sega's system.
THEOREM KicksAreFair == Spec => []LeftRightFair
<1>1. AtHome => LeftRightFair
  <2> SUFFICES ASSUME AtHome, sys \in {"simple", "dtet"} \/ (sys \in {"srs", "arikasrs", "sega"} /\ piece # "I")
               PROVE  Flips(KickRow(sys, piece, Clockwise, theta),
                            KickRow(sys, MirrorPiece(piece), Anticlockwise, MirrorTheta(theta)))
    BY DEF LeftRightFair, Mirrored, Flips
  <2> QED
    BY RowsMirror DEF AtHome
<1> QED
  BY <1>1, Walks, PTL

-----------------------------------------------------------------------------
\* What the engine assumes of the tables.

Box  == (0..3) \X (0..3)
Test == [x : Int, y : Int, ljt : BOOLEAN]

Few(cells) == IsFiniteSet(cells) /\ Cardinality(cells) <= 4

LEMMA OneMore ==
  ASSUME NEW S, NEW e, IsFiniteSet(S), NEW n \in Nat, Cardinality(S) <= n
  PROVE  IsFiniteSet(S \cup {e}) /\ Cardinality(S \cup {e}) <= n + 1
<1>1. Cardinality(S) \in Nat /\ IsFiniteSet(S \cup {e})
      /\ Cardinality(S \cup {e}) = IF e \in S THEN Cardinality(S) ELSE Cardinality(S) + 1
  BY FS_AddElement, FS_CardinalityType
<1> QED
  BY <1>1

LEMMA FourCells ==
  \A a, b, c, d : Few({a, b, c, d})
<1> SUFFICES ASSUME NEW a, NEW b, NEW c, NEW d
             PROVE  IsFiniteSet({a, b, c, d}) /\ Cardinality({a, b, c, d}) <= 4
  BY DEF Few
<1> DEFINE A == {} \cup {a}
           B == A \cup {b}
           C == B \cup {c}
           D == C \cup {d}
<1>1. IsFiniteSet({}) /\ Cardinality({}) <= 0
  BY FS_EmptySet
<1>2. IsFiniteSet(A) /\ Cardinality(A) <= 1
  <2>1. 0 \in Nat
    OBVIOUS
  <2>2. IsFiniteSet({} \cup {a}) /\ Cardinality({} \cup {a}) <= 0 + 1
    BY <1>1, <2>1, OneMore
  <2> QED
    BY <2>2
<1>3. IsFiniteSet(B) /\ Cardinality(B) <= 2
  <2> HIDE DEF A
  <2>1. 1 \in Nat
    OBVIOUS
  <2>2. IsFiniteSet(A \cup {b}) /\ Cardinality(A \cup {b}) <= 1 + 1
    BY <1>2, <2>1, OneMore
  <2> QED
    BY <2>2
<1>4. IsFiniteSet(C) /\ Cardinality(C) <= 3
  <2> HIDE DEF B
  <2>1. 2 \in Nat
    OBVIOUS
  <2>2. IsFiniteSet(B \cup {c}) /\ Cardinality(B \cup {c}) <= 2 + 1
    BY <1>3, <2>1, OneMore
  <2> QED
    BY <2>2
<1>5. IsFiniteSet(D) /\ Cardinality(D) <= 4
  <2> HIDE DEF C
  <2>1. 3 \in Nat
    OBVIOUS
  <2>2. IsFiniteSet(C \cup {d}) /\ Cardinality(C \cup {d}) <= 3 + 1
    BY <1>4, <2>1, OneMore
  <2> QED
    BY <2>2
<1>6. D = {a, b, c, d}
  OBVIOUS
<1> HIDE DEF D
<1> QED
  BY <1>5, <1>6

LEMMA ShapesFit ==
  \A p \in PieceType, i \in 1..4 :
    pieceOffsets[p][i] # {} /\ pieceOffsets[p][i] \subseteq Box /\ Few(pieceOffsets[p][i])
<1>1. /\ pieceOffsets["I"][1] # {} /\ pieceOffsets["I"][1] \subseteq Box /\ Few(pieceOffsets["I"][1])
      /\ pieceOffsets["I"][2] # {} /\ pieceOffsets["I"][2] \subseteq Box /\ Few(pieceOffsets["I"][2])
      /\ pieceOffsets["I"][3] # {} /\ pieceOffsets["I"][3] \subseteq Box /\ Few(pieceOffsets["I"][3])
      /\ pieceOffsets["I"][4] # {} /\ pieceOffsets["I"][4] \subseteq Box /\ Few(pieceOffsets["I"][4])
  <2>1. Few(pieceOffsets["I"][1]) /\ Few(pieceOffsets["I"][2]) /\ Few(pieceOffsets["I"][3]) /\ Few(pieceOffsets["I"][4])
    BY FourCells DEF pieceOffsets
  <2> QED
    BY <2>1 DEF pieceOffsets, Box
<1>2. /\ pieceOffsets["J"][1] # {} /\ pieceOffsets["J"][1] \subseteq Box /\ Few(pieceOffsets["J"][1])
      /\ pieceOffsets["J"][2] # {} /\ pieceOffsets["J"][2] \subseteq Box /\ Few(pieceOffsets["J"][2])
      /\ pieceOffsets["J"][3] # {} /\ pieceOffsets["J"][3] \subseteq Box /\ Few(pieceOffsets["J"][3])
      /\ pieceOffsets["J"][4] # {} /\ pieceOffsets["J"][4] \subseteq Box /\ Few(pieceOffsets["J"][4])
  <2>1. Few(pieceOffsets["J"][1]) /\ Few(pieceOffsets["J"][2]) /\ Few(pieceOffsets["J"][3]) /\ Few(pieceOffsets["J"][4])
    BY FourCells DEF pieceOffsets
  <2> QED
    BY <2>1 DEF pieceOffsets, Box
<1>3. /\ pieceOffsets["L"][1] # {} /\ pieceOffsets["L"][1] \subseteq Box /\ Few(pieceOffsets["L"][1])
      /\ pieceOffsets["L"][2] # {} /\ pieceOffsets["L"][2] \subseteq Box /\ Few(pieceOffsets["L"][2])
      /\ pieceOffsets["L"][3] # {} /\ pieceOffsets["L"][3] \subseteq Box /\ Few(pieceOffsets["L"][3])
      /\ pieceOffsets["L"][4] # {} /\ pieceOffsets["L"][4] \subseteq Box /\ Few(pieceOffsets["L"][4])
  <2>1. Few(pieceOffsets["L"][1]) /\ Few(pieceOffsets["L"][2]) /\ Few(pieceOffsets["L"][3]) /\ Few(pieceOffsets["L"][4])
    BY FourCells DEF pieceOffsets
  <2> QED
    BY <2>1 DEF pieceOffsets, Box
<1>4. /\ pieceOffsets["S"][1] # {} /\ pieceOffsets["S"][1] \subseteq Box /\ Few(pieceOffsets["S"][1])
      /\ pieceOffsets["S"][2] # {} /\ pieceOffsets["S"][2] \subseteq Box /\ Few(pieceOffsets["S"][2])
      /\ pieceOffsets["S"][3] # {} /\ pieceOffsets["S"][3] \subseteq Box /\ Few(pieceOffsets["S"][3])
      /\ pieceOffsets["S"][4] # {} /\ pieceOffsets["S"][4] \subseteq Box /\ Few(pieceOffsets["S"][4])
  <2>1. Few(pieceOffsets["S"][1]) /\ Few(pieceOffsets["S"][2]) /\ Few(pieceOffsets["S"][3]) /\ Few(pieceOffsets["S"][4])
    BY FourCells DEF pieceOffsets
  <2> QED
    BY <2>1 DEF pieceOffsets, Box
<1>5. /\ pieceOffsets["T"][1] # {} /\ pieceOffsets["T"][1] \subseteq Box /\ Few(pieceOffsets["T"][1])
      /\ pieceOffsets["T"][2] # {} /\ pieceOffsets["T"][2] \subseteq Box /\ Few(pieceOffsets["T"][2])
      /\ pieceOffsets["T"][3] # {} /\ pieceOffsets["T"][3] \subseteq Box /\ Few(pieceOffsets["T"][3])
      /\ pieceOffsets["T"][4] # {} /\ pieceOffsets["T"][4] \subseteq Box /\ Few(pieceOffsets["T"][4])
  <2>1. Few(pieceOffsets["T"][1]) /\ Few(pieceOffsets["T"][2]) /\ Few(pieceOffsets["T"][3]) /\ Few(pieceOffsets["T"][4])
    BY FourCells DEF pieceOffsets
  <2> QED
    BY <2>1 DEF pieceOffsets, Box
<1>6. /\ pieceOffsets["Z"][1] # {} /\ pieceOffsets["Z"][1] \subseteq Box /\ Few(pieceOffsets["Z"][1])
      /\ pieceOffsets["Z"][2] # {} /\ pieceOffsets["Z"][2] \subseteq Box /\ Few(pieceOffsets["Z"][2])
      /\ pieceOffsets["Z"][3] # {} /\ pieceOffsets["Z"][3] \subseteq Box /\ Few(pieceOffsets["Z"][3])
      /\ pieceOffsets["Z"][4] # {} /\ pieceOffsets["Z"][4] \subseteq Box /\ Few(pieceOffsets["Z"][4])
  <2>1. Few(pieceOffsets["Z"][1]) /\ Few(pieceOffsets["Z"][2]) /\ Few(pieceOffsets["Z"][3]) /\ Few(pieceOffsets["Z"][4])
    BY FourCells DEF pieceOffsets
  <2> QED
    BY <2>1 DEF pieceOffsets, Box
<1>7. \A i \in 1..4 : /\ pieceOffsets["O"][i] # {} /\ pieceOffsets["O"][i] \subseteq Box
                       /\ Few(pieceOffsets["O"][i])
  <2>1. \A i \in 1..4 : pieceOffsets["O"][i] = {<<1,0>>, <<1,1>>, <<2,0>>, <<2,1>>}
    BY DEF pieceOffsets
  <2>2. {<<1,0>>, <<1,1>>, <<2,0>>, <<2,1>>} # {} /\ {<<1,0>>, <<1,1>>, <<2,0>>, <<2,1>>} \subseteq Box
    BY DEF Box
  <2>3. \A i \in 1..4 : Few(pieceOffsets["O"][i])
    BY FourCells DEF pieceOffsets
  <2> QED
    BY <2>1, <2>2, <2>3
<1> QED
  BY <1>1, <1>2, <1>3, <1>4, <1>5, <1>6, <1>7 DEF PieceType

LEMMA TestType == LJT \in Test /\ \A a, b \in Int : K(a, b) \in Test
BY DEF LJT, K, Test

LEMMA RowTypes ==
  /\ \A a \in Test : <<a>> \in Seq(Test)
  /\ \A a, b, c \in Test : <<a, b, c>> \in Seq(Test)
  /\ \A a, b, c, d \in Test : <<a, b, c, d>> \in Seq(Test)
  /\ \A a, b, c, d, e \in Test : <<a, b, c, d, e>> \in Seq(Test)
  /\ \A a, b, c, d, e, f \in Test : <<a, b, c, d, e, f>> \in Seq(Test)
OBVIOUS

Rows(R) == R[1] \in Seq(Test) /\ R[2] \in Seq(Test) /\ R[3] \in Seq(Test) /\ R[4] \in Seq(Test)

LEMMA TablesAreRows ==
  /\ Rows(kicksSRS_R) /\ Rows(kicksSRS_L)
  /\ Rows(kicksSRS_I_R) /\ Rows(kicksSRS_I_L)
  /\ Rows(kicksArika_I_R) /\ Rows(kicksArika_I_L)
  /\ Rows(kicksSega_I_R) /\ Rows(kicksSega_I_L)
  /\ Rows(kicksSega_JLT_R) /\ Rows(kicksSega_JLT_L)
  /\ Rows(kicksSega_S_R) /\ Rows(kicksSega_S_L)
  /\ Rows(kicksSega_Z_R) /\ Rows(kicksSega_Z_L)
  /\ Rows(kicksTGM_JLT_R) /\ Rows(kicksTGM_JLT_L)
  /\ Rows(kicksTGM_S_R) /\ Rows(kicksTGM_S_L)
  /\ Rows(kicksTGM_Z_R) /\ Rows(kicksTGM_Z_L)
  /\ Rows(kicksTGM3_I_R) /\ Rows(kicksTGM3_I_L)
  /\ Rows(kicksTGM3_T_R) /\ Rows(kicksTGM3_T_L)
  /\ Rows(kicksDTET_R) /\ Rows(kicksDTET_L)
<1>1. Rows(kicksSRS_R) /\ Rows(kicksSRS_L)
  BY RowTypes, TestType DEF Rows, kicksSRS_R, kicksSRS_L
<1>2. Rows(kicksSRS_I_R) /\ Rows(kicksSRS_I_L)
  BY RowTypes, TestType DEF Rows, kicksSRS_I_R, kicksSRS_I_L
<1>3. Rows(kicksArika_I_R) /\ Rows(kicksArika_I_L)
  BY RowTypes, TestType DEF Rows, kicksArika_I_R, kicksArika_I_L
<1>4. Rows(kicksSega_I_R) /\ Rows(kicksSega_I_L)
  BY RowTypes, TestType DEF Rows, kicksSega_I_R, kicksSega_I_L, Only
<1>5. Rows(kicksSega_JLT_R) /\ Rows(kicksSega_JLT_L)
  BY RowTypes, TestType DEF Rows, kicksSega_JLT_R, kicksSega_JLT_L, Only
<1>6. Rows(kicksSega_S_R) /\ Rows(kicksSega_S_L)
  BY RowTypes, TestType DEF Rows, kicksSega_S_R, kicksSega_S_L, Only
<1>7. Rows(kicksSega_Z_R) /\ Rows(kicksSega_Z_L)
  BY RowTypes, TestType DEF Rows, kicksSega_Z_R, kicksSega_Z_L, Only
<1>8. Rows(kicksTGM_JLT_R) /\ Rows(kicksTGM_JLT_L)
  BY RowTypes, TestType DEF Rows, kicksTGM_JLT_R, kicksTGM_JLT_L, Side, SideLJT, Only
<1>9. Rows(kicksTGM_S_R) /\ Rows(kicksTGM_S_L)
  BY RowTypes, TestType DEF Rows, kicksTGM_S_R, kicksTGM_S_L, Side, SideLJT, Only
<1>10. Rows(kicksTGM_Z_R) /\ Rows(kicksTGM_Z_L)
  BY RowTypes, TestType DEF Rows, kicksTGM_Z_R, kicksTGM_Z_L, Side, SideLJT, Only
<1>11. Rows(kicksTGM3_I_R) /\ Rows(kicksTGM3_I_L)
  BY RowTypes, TestType DEF Rows, kicksTGM3_I_R, kicksTGM3_I_L, Side, SideLJT
<1>12. Rows(kicksTGM3_T_R) /\ Rows(kicksTGM3_T_L)
  BY RowTypes, TestType DEF Rows, kicksTGM3_T_R, kicksTGM3_T_L, Side, SideLJT
<1>13. Rows(kicksDTET_R) /\ Rows(kicksDTET_L)
  BY RowTypes, TestType DEF Rows, kicksDTET_R, kicksDTET_L
<1> QED
  BY <1>1, <1>2, <1>3, <1>4, <1>5, <1>6, <1>7, <1>8, <1>9, <1>10, <1>11, <1>12, <1>13

LEMMA SystemRows ==
  ASSUME NEW s \in System \ {"simple"}, NEW p \in PieceType
  PROVE  Rows(SystemTables(s, p)[1]) /\ Rows(SystemTables(s, p)[2])
<1>1. Rows(SegaTables(p)[1]) /\ Rows(SegaTables(p)[2])
  BY TablesAreRows DEF SegaTables
<1>2. Rows(TGM12Tables(p)[1]) /\ Rows(TGM12Tables(p)[2])
  BY TablesAreRows DEF TGM12Tables
<1>3. Rows(TGM3Tables(p)[1]) /\ Rows(TGM3Tables(p)[2])
  BY <1>2, TablesAreRows DEF TGM3Tables
<1>4. CASE s \in {"sega", "tgm12", "tgm3"}
  BY <1>1, <1>2, <1>3, <1>4 DEF SystemTables
<1>5. CASE s \in {"srs", "arikasrs", "dtet"}
  BY <1>5, TablesAreRows DEF SystemTables
<1> QED
  BY <1>4, <1>5 DEF System

\* Every rotation system gives the engine what Engine and EngineRefinement assume
\* of shapes and kicks, so that what is proved of the engine holds with it.
THEOREM TablesFitEngine ==
  ASSUME NEW s \in System, NEW p \in PieceType, NEW t \in Theta
  PROVE  /\ ShapeTable(s)[p][t] # {} /\ ShapeTable(s)[p][t] \subseteq (0..3) \X (0..3)
         /\ IsFiniteSet(ShapeTable(s)[p][t]) /\ Cardinality(ShapeTable(s)[p][t]) <= 4
         /\ \A b \in ShapeTable(s)[p][0] : b[2] <= 2
         /\ \A dir \in Direction :
              KickTable(s)[p][dir][t] \in Seq([x : Int, y : Int, ljt : BOOLEAN])
<1>1. ShapeTable(s)[p][t] = Shape(s, p, t) /\ ShapeTable(s)[p][0] = Shape(s, p, 0)
  BY Turns DEF ShapeTable
<1>2. \E i \in 1..4 : Shape(s, p, t) = pieceOffsets[p][i]
  <2>1. ((t + entryTheta(s, p)) % 4) + 1 \in 1..4
    BY Turns DEF entryTheta
  <2> QED
    BY <2>1 DEF Shape
<1>3. \A b \in Shape(s, p, 0) : b[2] <= 2
  <2>1. CASE entryTheta(s, p) = 0
    <3>1. Shape(s, p, 0) = pieceOffsets[p][1]
      BY <2>1 DEF Shape
    <3>2. \A b \in pieceOffsets[p][1] : b[2] <= 2
      BY DEF pieceOffsets, PieceType
    <3> QED
      BY <3>1, <3>2
  <2>2. CASE p \in {"J", "L", "T"} /\ entryTheta(s, p) = 2
    <3>1. Shape(s, p, 0) = pieceOffsets[p][3]
      BY <2>2 DEF Shape
    <3>2. \A b \in pieceOffsets[p][3] : b[2] <= 2
      BY <2>2 DEF pieceOffsets
    <3> QED
      BY <3>1, <3>2
  <2> QED
    BY <2>1, <2>2 DEF entryTheta
<1>4. ASSUME NEW dir \in Direction PROVE KickTable(s)[p][dir][t] \in Seq(Test)
  <2>1. KickTable(s)[p][dir][t] = KickRow(s, p, dir, t)
    BY DEF KickTable
  <2>2. CASE p = "O" \/ s = "simple" \/ dir = Halfturn
    <3>1. KickRow(s, p, dir, t) = <<K(0, 0)>>
      BY <2>2 DEF KickRow, emptyWallkickTable, Only, Theta
    <3> QED
      BY <2>1, <3>1, RowTypes, TestType
  <2>3. CASE ~(p = "O" \/ s = "simple" \/ dir = Halfturn)
    <3> DEFINE R == SystemTables(s, p)[1]
               L == SystemTables(s, p)[2]
    <3>1. Rows(R) /\ Rows(L)
      BY <2>3, SystemRows
    <3>2. KickRow(s, p, dir, t) \in {R[t + 1], L[t + 1]}
      BY <2>3 DEF KickRow
    <3> HIDE DEF R, L
    <3> QED
      BY <2>1, <3>1, <3>2, Turns DEF Rows
  <2> QED
    BY <2>2, <2>3
<1> QED
  BY <1>1, <1>2, <1>3, <1>4, ShapesFit DEF Few, Box, Test

-----------------------------------------------------------------------------
\* Finesse: where a piece stands in the field, and where it comes to rest.

Turning == PieceType \ {"O"}

\* The last column of a piece in its box; positionDelta is the first.
Reach(p, t) == IF p = "I" THEN IF t \in {0, 2} THEN 3 ELSE positionDelta(p, t)
                          ELSE IF t = 3 THEN 1 ELSE 2
\* The lowest row of a piece in its box.
Depth(p, t) == IF t = 0 THEN 1 ELSE IF p = "I" /\ t \in {1, 3} THEN 3 ELSE 2

LEMMA SRSShape ==
  ASSUME NEW p \in Turning, NEW t \in Theta
  PROVE  Shape("srs", p, t) = pieceOffsets[p][t + 1]
<1>1. entryTheta("srs", p) = 0
  BY DEF entryTheta
<1>2. (t + 0) % 4 = t
  BY Turns
<1> QED
  BY <1>1, <1>2 DEF Shape

LEMMA Offsets ==
  /\ pieceOffsets["I"] = << {<<0,1>>, <<1,1>>, <<2,1>>, <<3,1>>}, {<<2,0>>, <<2,1>>, <<2,2>>, <<2,3>>},
                            {<<0,2>>, <<1,2>>, <<2,2>>, <<3,2>>}, {<<1,0>>, <<1,1>>, <<1,2>>, <<1,3>>} >>
  /\ pieceOffsets["J"] = << {<<0,0>>, <<0,1>>, <<1,1>>, <<2,1>>}, {<<1,0>>, <<1,1>>, <<1,2>>, <<2,0>>},
                            {<<0,1>>, <<1,1>>, <<2,1>>, <<2,2>>}, {<<0,2>>, <<1,0>>, <<1,1>>, <<1,2>>} >>
  /\ pieceOffsets["L"] = << {<<0,1>>, <<1,1>>, <<2,0>>, <<2,1>>}, {<<1,0>>, <<1,1>>, <<1,2>>, <<2,2>>},
                            {<<0,1>>, <<0,2>>, <<1,1>>, <<2,1>>}, {<<0,0>>, <<1,0>>, <<1,1>>, <<1,2>>} >>
  /\ pieceOffsets["S"] = << {<<0,1>>, <<1,0>>, <<1,1>>, <<2,0>>}, {<<1,0>>, <<1,1>>, <<2,1>>, <<2,2>>},
                            {<<0,2>>, <<1,1>>, <<1,2>>, <<2,1>>}, {<<0,0>>, <<0,1>>, <<1,1>>, <<1,2>>} >>
  /\ pieceOffsets["T"] = << {<<0,1>>, <<1,0>>, <<1,1>>, <<2,1>>}, {<<1,0>>, <<1,1>>, <<1,2>>, <<2,1>>},
                            {<<0,1>>, <<1,1>>, <<1,2>>, <<2,1>>}, {<<0,1>>, <<1,0>>, <<1,1>>, <<1,2>>} >>
  /\ pieceOffsets["Z"] = << {<<0,0>>, <<1,0>>, <<1,1>>, <<2,1>>}, {<<1,1>>, <<1,2>>, <<2,0>>, <<2,1>>},
                            {<<0,1>>, <<1,1>>, <<1,2>>, <<2,2>>}, {<<0,1>>, <<0,2>>, <<1,0>>, <<1,1>>} >>
BY DEF pieceOffsets

\* Cells of the box from column lo to column hi, the lowest in row low.
Fills(cells, lo, hi, low) ==
  /\ \A b \in cells : b \in (0..3) \X (0..3) /\ lo <= b[1] /\ b[1] <= hi /\ b[2] <= low
  /\ \E b \in cells : b[1] = lo
  /\ \E b \in cells : b[1] = hi
  /\ \E b \in cells : b[2] = low

LEMMA OffsetsFill ==
  /\ Fills(pieceOffsets["I"][1], 0, 3, 1) /\ Fills(pieceOffsets["I"][2], 2, 2, 3)
  /\ Fills(pieceOffsets["I"][3], 0, 3, 2) /\ Fills(pieceOffsets["I"][4], 1, 1, 3)
  /\ Fills(pieceOffsets["J"][1], 0, 2, 1) /\ Fills(pieceOffsets["J"][2], 1, 2, 2)
  /\ Fills(pieceOffsets["J"][3], 0, 2, 2) /\ Fills(pieceOffsets["J"][4], 0, 1, 2)
  /\ Fills(pieceOffsets["L"][1], 0, 2, 1) /\ Fills(pieceOffsets["L"][2], 1, 2, 2)
  /\ Fills(pieceOffsets["L"][3], 0, 2, 2) /\ Fills(pieceOffsets["L"][4], 0, 1, 2)
  /\ Fills(pieceOffsets["S"][1], 0, 2, 1) /\ Fills(pieceOffsets["S"][2], 1, 2, 2)
  /\ Fills(pieceOffsets["S"][3], 0, 2, 2) /\ Fills(pieceOffsets["S"][4], 0, 1, 2)
  /\ Fills(pieceOffsets["T"][1], 0, 2, 1) /\ Fills(pieceOffsets["T"][2], 1, 2, 2)
  /\ Fills(pieceOffsets["T"][3], 0, 2, 2) /\ Fills(pieceOffsets["T"][4], 0, 1, 2)
  /\ Fills(pieceOffsets["Z"][1], 0, 2, 1) /\ Fills(pieceOffsets["Z"][2], 1, 2, 2)
  /\ Fills(pieceOffsets["Z"][3], 0, 2, 2) /\ Fills(pieceOffsets["Z"][4], 0, 1, 2)
<1>1. /\ Fills(pieceOffsets["I"][1], 0, 3, 1) /\ Fills(pieceOffsets["I"][2], 2, 2, 3)
      /\ Fills(pieceOffsets["I"][3], 0, 3, 2) /\ Fills(pieceOffsets["I"][4], 1, 1, 3)
  <2>1. /\ Fills({<<0,1>>, <<1,1>>, <<2,1>>, <<3,1>>}, 0, 3, 1)
        /\ Fills({<<2,0>>, <<2,1>>, <<2,2>>, <<2,3>>}, 2, 2, 3)
    BY DEF Fills
  <2>2. /\ Fills({<<0,2>>, <<1,2>>, <<2,2>>, <<3,2>>}, 0, 3, 2)
        /\ Fills({<<1,0>>, <<1,1>>, <<1,2>>, <<1,3>>}, 1, 1, 3)
    BY DEF Fills
  <2> QED
    BY <2>1, <2>2, Offsets
<1>2. /\ Fills(pieceOffsets["J"][1], 0, 2, 1) /\ Fills(pieceOffsets["J"][2], 1, 2, 2)
      /\ Fills(pieceOffsets["J"][3], 0, 2, 2) /\ Fills(pieceOffsets["J"][4], 0, 1, 2)
  <2>1. /\ Fills({<<0,0>>, <<0,1>>, <<1,1>>, <<2,1>>}, 0, 2, 1)
        /\ Fills({<<1,0>>, <<1,1>>, <<1,2>>, <<2,0>>}, 1, 2, 2)
    BY DEF Fills
  <2>2. /\ Fills({<<0,1>>, <<1,1>>, <<2,1>>, <<2,2>>}, 0, 2, 2)
        /\ Fills({<<0,2>>, <<1,0>>, <<1,1>>, <<1,2>>}, 0, 1, 2)
    BY DEF Fills
  <2> QED
    BY <2>1, <2>2, Offsets
<1>3. /\ Fills(pieceOffsets["L"][1], 0, 2, 1) /\ Fills(pieceOffsets["L"][2], 1, 2, 2)
      /\ Fills(pieceOffsets["L"][3], 0, 2, 2) /\ Fills(pieceOffsets["L"][4], 0, 1, 2)
  <2>1. /\ Fills({<<0,1>>, <<1,1>>, <<2,0>>, <<2,1>>}, 0, 2, 1)
        /\ Fills({<<1,0>>, <<1,1>>, <<1,2>>, <<2,2>>}, 1, 2, 2)
    BY DEF Fills
  <2>2. /\ Fills({<<0,1>>, <<0,2>>, <<1,1>>, <<2,1>>}, 0, 2, 2)
        /\ Fills({<<0,0>>, <<1,0>>, <<1,1>>, <<1,2>>}, 0, 1, 2)
    BY DEF Fills
  <2> QED
    BY <2>1, <2>2, Offsets
<1>4. /\ Fills(pieceOffsets["S"][1], 0, 2, 1) /\ Fills(pieceOffsets["S"][2], 1, 2, 2)
      /\ Fills(pieceOffsets["S"][3], 0, 2, 2) /\ Fills(pieceOffsets["S"][4], 0, 1, 2)
  <2>1. /\ Fills({<<0,1>>, <<1,0>>, <<1,1>>, <<2,0>>}, 0, 2, 1)
        /\ Fills({<<1,0>>, <<1,1>>, <<2,1>>, <<2,2>>}, 1, 2, 2)
    BY DEF Fills
  <2>2. /\ Fills({<<0,2>>, <<1,1>>, <<1,2>>, <<2,1>>}, 0, 2, 2)
        /\ Fills({<<0,0>>, <<0,1>>, <<1,1>>, <<1,2>>}, 0, 1, 2)
    BY DEF Fills
  <2> QED
    BY <2>1, <2>2, Offsets
<1>5. /\ Fills(pieceOffsets["T"][1], 0, 2, 1) /\ Fills(pieceOffsets["T"][2], 1, 2, 2)
      /\ Fills(pieceOffsets["T"][3], 0, 2, 2) /\ Fills(pieceOffsets["T"][4], 0, 1, 2)
  <2>1. /\ Fills({<<0,1>>, <<1,0>>, <<1,1>>, <<2,1>>}, 0, 2, 1)
        /\ Fills({<<1,0>>, <<1,1>>, <<1,2>>, <<2,1>>}, 1, 2, 2)
    BY DEF Fills
  <2>2. /\ Fills({<<0,1>>, <<1,1>>, <<1,2>>, <<2,1>>}, 0, 2, 2)
        /\ Fills({<<0,1>>, <<1,0>>, <<1,1>>, <<1,2>>}, 0, 1, 2)
    BY DEF Fills
  <2> QED
    BY <2>1, <2>2, Offsets
<1>6. /\ Fills(pieceOffsets["Z"][1], 0, 2, 1) /\ Fills(pieceOffsets["Z"][2], 1, 2, 2)
      /\ Fills(pieceOffsets["Z"][3], 0, 2, 2) /\ Fills(pieceOffsets["Z"][4], 0, 1, 2)
  <2>1. /\ Fills({<<0,0>>, <<1,0>>, <<1,1>>, <<2,1>>}, 0, 2, 1)
        /\ Fills({<<1,1>>, <<1,2>>, <<2,0>>, <<2,1>>}, 1, 2, 2)
    BY DEF Fills
  <2>2. /\ Fills({<<0,1>>, <<1,1>>, <<1,2>>, <<2,2>>}, 0, 2, 2)
        /\ Fills({<<0,1>>, <<0,2>>, <<1,0>>, <<1,1>>}, 0, 1, 2)
    BY DEF Fills
  <2> QED
    BY <2>1, <2>2, Offsets
<1> QED
  BY <1>1, <1>2, <1>3, <1>4, <1>5, <1>6

LEMMA ShapeSpan ==
  ASSUME NEW p \in Turning, NEW t \in Theta
  PROVE  /\ positionDelta(p, t) \in 0..3 /\ Reach(p, t) \in 0..3 /\ positionDelta(p, t) <= Reach(p, t)
         /\ Depth(p, t) \in 0..3
         /\ Fills(Shape("srs", p, t), positionDelta(p, t), Reach(p, t), Depth(p, t))
<1>1. p \in {"I", "J", "L", "S", "T", "Z"} /\ t \in {0, 1, 2, 3}
  BY Turns DEF Turning, PieceType
<1>2. positionDelta(p, t) \in 0..3 /\ Reach(p, t) \in 0..3 /\ positionDelta(p, t) <= Reach(p, t)
  BY <1>1 DEF positionDelta, Reach
<1>3. Fills(pieceOffsets[p][t + 1], positionDelta(p, t), Reach(p, t), Depth(p, t))
  BY <1>1, OffsetsFill DEF positionDelta, Reach, Depth
<1>4. Depth(p, t) \in 0..3
  BY DEF Depth
<1> QED
  BY <1>2, <1>3, <1>4, SRSShape

LEMMA Spans ==
  ASSUME NEW p \in Turning, NEW t \in Theta, NEW col \in Int
  PROVE  /\ \A c \in Cells(p, col, t) : /\ c \in Int \X (0..3)
                                      /\ col + positionDelta(p, t) <= c[1] /\ c[1] <= col + Reach(p, t)
         /\ \E c \in Cells(p, col, t) : c[1] = col + positionDelta(p, t)
         /\ \E c \in Cells(p, col, t) : c[1] = col + Reach(p, t)
<1>1. \A b \in Shape("srs", p, t) : <<col + b[1], b[2]>> \in Cells(p, col, t)
  BY DEF Cells
<1>2. \A c \in Cells(p, col, t) : \E b \in Shape("srs", p, t) : c = <<col + b[1], b[2]>>
  BY DEF Cells
<1>3. PICK b \in Shape("srs", p, t) : b[1] = positionDelta(p, t)
  BY ShapeSpan DEF Fills
<1>4. PICK d \in Shape("srs", p, t) : d[1] = Reach(p, t)
  BY ShapeSpan DEF Fills
<1>5. \A c \in Cells(p, col, t) : /\ c \in Int \X (0..3)
                                /\ col + positionDelta(p, t) <= c[1] /\ c[1] <= col + Reach(p, t)
  BY <1>2, ShapeSpan DEF Fills
<1> QED
  BY <1>1, <1>3, <1>4, <1>5

\* A piece is inside the field from its first column to its last.
LEMMA InsideIff ==
  ASSUME NEW p \in Turning, NEW t \in Theta, NEW col \in Int
  PROVE  Inside(p, col, t) <=> 0 <= col + positionDelta(p, t) /\ col + Reach(p, t) <= 9
<1>1. Inside(p, col, t) <=> \A c \in Cells(p, col, t) : 0 <= c[1] /\ c[1] <= 9
  <2>1. \A c \in Cells(p, col, t) : c[1] \in Int
    BY Spans
  <2> QED
    BY <2>1 DEF Inside, Columns
<1>2. PICK c \in Cells(p, col, t) : c[1] = col + positionDelta(p, t)
  BY Spans
<1>3. PICK d \in Cells(p, col, t) : d[1] = col + Reach(p, t)
  BY Spans
<1>4. \A e \in Cells(p, col, t) : e[1] \in Int /\ col + positionDelta(p, t) <= e[1] /\ e[1] <= col + Reach(p, t)
  BY Spans
<1>5. positionDelta(p, t) \in Int /\ Reach(p, t) \in Int
  BY ShapeSpan
<1> QED
  BY <1>1, <1>2, <1>3, <1>4, <1>5

LEMMA WallsAre ==
  ASSUME NEW p \in Turning, NEW t \in Theta
  PROVE  Walls(p, t) = {-positionDelta(p, t), 9 - Reach(p, t)}
<1> DEFINE room == {col \in -3..9 : Inside(p, col, t)}
           lo == positionDelta(p, t)
           hi == Reach(p, t)
<1>1. lo \in 0..3 /\ hi \in 0..3 /\ lo <= hi
  BY ShapeSpan
<1>2. \A col \in Int : col \in room <=> -lo <= col /\ col <= 9 - hi
  <2> HIDE DEF lo, hi
  <2>1. \A col \in Int : Inside(p, col, t) <=> 0 <= col + lo /\ col + hi <= 9
    BY InsideIff DEF lo, hi
  <2> QED
    BY <2>1, <1>1
<1>3. Walls(p, t) = {col \in room : col - 1 \notin room \/ col + 1 \notin room}
  BY DEF Walls
<1>4. \A col \in room : col \in Int
  OBVIOUS
<1> HIDE DEF room, lo, hi
<1>5. \A col \in Int : (col \in room /\ (col - 1 \notin room \/ col + 1 \notin room)) <=> col \in {-lo, 9 - hi}
  <2> SUFFICES ASSUME NEW col \in Int
               PROVE  (col \in room /\ (col - 1 \notin room \/ col + 1 \notin room)) <=> col \in {-lo, 9 - hi}
    OBVIOUS
  <2>1. col - 1 \in Int /\ col + 1 \in Int
    OBVIOUS
  <2>2. /\ col \in room <=> -lo <= col /\ col <= 9 - hi
        /\ col - 1 \in room <=> -lo <= col - 1 /\ col - 1 <= 9 - hi
        /\ col + 1 \in room <=> -lo <= col + 1 /\ col + 1 <= 9 - hi
    BY <1>2, <2>1
  <2> QED
    BY <2>2, <1>1
<1>6. -lo \in Int /\ 9 - hi \in Int
  BY <1>1
<1>7. \A col : col \in Walls(p, t) <=> col \in {-lo, 9 - hi}
  BY <1>3, <1>4, <1>5, <1>6
<1>8. Walls(p, t) = {-lo, 9 - hi}
  BY <1>7
<1> QED
  BY <1>8 DEF lo, hi

\* On the floor: the cells of a piece at column col, its lowest in row 0.
Lowered(cells, col, low) == {<<col + b[1], b[2] - low>> : b \in cells}

LEMMA RestIs ==
  ASSUME NEW p \in Turning, NEW t \in Theta, NEW col \in Int
  PROVE  Rest(p, col, t) = Lowered(pieceOffsets[p][t + 1], col, Depth(p, t))
<1> DEFINE cells == Cells(p, col, t)
           m == Depth(p, t)
           lowest(row) == /\ \E c \in cells : c[2] = row
                          /\ \A c \in cells : c[2] <= row
           low == CHOOSE row \in 0..3 : lowest(row)
<1>1. cells = {<<col + b[1], b[2]>> : b \in Shape("srs", p, t)}
  BY DEF Cells
<1>2. /\ \A b \in Shape("srs", p, t) : b \in (0..3) \X (0..3) /\ b[2] <= m
      /\ \E b \in Shape("srs", p, t) : b[2] = m
      /\ m \in 0..3
  BY ShapeSpan DEF Fills
<1> HIDE DEF m
<1>3. lowest(m)
  <2>1. \A b \in Shape("srs", p, t) : <<col + b[1], b[2]>> \in cells
    BY <1>1
  <2>2. PICK b \in Shape("srs", p, t) : b[2] = m
    BY <1>2
  <2>3. <<col + b[1], m>> \in cells
    BY <2>1, <2>2
  <2>4. \E c \in cells : c[2] = m
    BY <2>3
  <2>5. \A c \in cells : c[2] <= m
    BY <1>1, <1>2
  <2> QED
    BY <2>4, <2>5
<1>4. \A c \in cells : c[2] \in 0..3
  BY <1>1, <1>2
<1>5. \A row \in 0..3 : lowest(row) => row = m
  <2> SUFFICES ASSUME NEW row \in 0..3, lowest(row) PROVE row = m
    OBVIOUS
  <2>1. PICK c \in cells : c[2] = row
    OBVIOUS
  <2>2. PICK d \in cells : d[2] = m
    BY <1>3
  <2>3. row <= m /\ m <= row
    BY <1>3, <2>1, <2>2
  <2> QED
    BY <1>2, <2>3
<1>6. low \in 0..3 /\ lowest(low)
  BY <1>2, <1>3, Zenon
<1>7. low = m
  BY <1>5, <1>6, Zenon
<1>8. Rest(p, col, t) = {<<c[1], c[2] - low>> : c \in cells}
  BY Zenon DEF Rest
<1>9. Rest(p, col, t) = {<<c[1], c[2] - m>> : c \in cells}
  BY <1>7, <1>8
<1>10. {<<c[1], c[2] - m>> : c \in cells} = {<<col + b[1], b[2] - m>> : b \in Shape("srs", p, t)}
  <2>1. ASSUME NEW e \in {<<c[1], c[2] - m>> : c \in cells}
        PROVE  e \in {<<col + b[1], b[2] - m>> : b \in Shape("srs", p, t)}
    BY <1>1
  <2>2. ASSUME NEW e \in {<<col + b[1], b[2] - m>> : b \in Shape("srs", p, t)}
        PROVE  e \in {<<c[1], c[2] - m>> : c \in cells}
    <3>1. PICK b \in Shape("srs", p, t) : e = <<col + b[1], b[2] - m>>
      OBVIOUS
    <3> DEFINE c == <<col + b[1], b[2]>>
    <3>2. c \in cells
      BY <1>1
    <3>3. e = <<c[1], c[2] - m>>
      BY <3>1
    <3> HIDE DEF c, cells
    <3> QED
      BY <3>2, <3>3
  <2> HIDE DEF cells
  <2> QED
    BY <2>1, <2>2, Zenon
<1> QED
  BY <1>9, <1>10, SRSShape DEF Lowered, m

-----------------------------------------------------------------------------
\* Finesse: what the presses can do.

AtEntry == [p \in PieceType |-> {At(3, 0, 0, 0)}]
OneMorePress(P) == [p \in PieceType |-> P[p] \cup UNION {After(p, s) : s \in P[p]}]

LEMMA PressesAre ==
  /\ Presses[0] = AtEntry
  /\ Presses[1] = OneMorePress(Presses[0]) /\ Presses[2] = OneMorePress(Presses[1])
  /\ Presses[3] = OneMorePress(Presses[2]) /\ Presses[4] = OneMorePress(Presses[3])
<1> DEFINE Body(f) == [n \in 0..MaxPresses |->
                         [p \in PieceType |->
                            IF n = 0 THEN {At(3, 0, 0, 0)}
                            ELSE f[n - 1][p] \cup UNION {After(p, s) : s \in f[n - 1][p]}]]
           P1 == OneMorePress(AtEntry)
           P2 == OneMorePress(P1)
           P3 == OneMorePress(P2)
           P4 == OneMorePress(P3)
           g  == [n \in 0..MaxPresses |-> IF n = 0 THEN AtEntry ELSE IF n = 1 THEN P1
                                          ELSE IF n = 2 THEN P2 ELSE IF n = 3 THEN P3 ELSE P4]
<1>1. \A f : /\ Body(f)[0] = AtEntry /\ Body(f)[1] = OneMorePress(f[0])
             /\ Body(f)[2] = OneMorePress(f[1]) /\ Body(f)[3] = OneMorePress(f[2])
             /\ Body(f)[4] = OneMorePress(f[3])
  BY DEF AtEntry, OneMorePress, MaxPresses
<1>2. \A f : Body(f) = [n \in 0..MaxPresses |-> Body(f)[n]]
  OBVIOUS
<1>3. g = Body(g)
  <2>1. g[0] = AtEntry /\ g[1] = P1 /\ g[2] = P2 /\ g[3] = P3 /\ g[4] = P4
    BY DEF MaxPresses
  <2> HIDE DEF Body
  <2>2. \A n \in 0..MaxPresses : g[n] = Body(g)[n]
    <3> SUFFICES ASSUME NEW n \in 0..MaxPresses PROVE g[n] = Body(g)[n]
      OBVIOUS
    <3>1. n \in {0, 1, 2, 3, 4}
      BY DEF MaxPresses
    <3> HIDE DEF g
    <3> QED
      BY <3>1, <2>1, <1>1
  <2>3. g = [n \in 0..MaxPresses |-> g[n]]
    OBVIOUS
  <2> HIDE DEF g
  <2> QED
    BY <2>2, <2>3, <1>2
<1>4. Presses = CHOOSE f : f = Body(f)
  BY Zenon DEF Presses
<1> HIDE DEF Body, g
<1>5. Presses = Body(Presses)
  BY <1>3, <1>4, Zenon
<1> QED
  BY <1>1, <1>5, Zenon

\* The presses that a column takes, whatever the orientation: none at the
\* entry column, one at its neighbours and by the walls of any orientation.
Away(p, col) == IF col = 3 THEN 0 ELSE IF col \in {1, 5} \/ (col = 6 /\ p # "I") THEN 2 ELSE 1
Quarters(t) == IF t = 0 THEN 0 ELSE IF t = 2 THEN 2 ELSE 1

LEMMA AwayType == \A p, col : Away(p, col) \in Nat
BY DEF Away

LEMMA AwayOneTap ==
  ASSUME NEW p, NEW col \in Int
  PROVE  Away(p, col + 1) <= Away(p, col) + 1 /\ Away(p, col - 1) <= Away(p, col) + 1
BY DEF Away

LEMMA AwayWall ==
  ASSUME NEW p \in Turning, NEW t \in Theta, NEW col \in Walls(p, t)
  PROVE  col \in Int /\ Away(p, col) = 1
<1>1. Walls(p, t) = {-positionDelta(p, t), 9 - Reach(p, t)}
  BY WallsAre
<1>2. CASE p = "I"
  BY <1>1, <1>2, Turns DEF positionDelta, Reach, Away
<1>3. CASE p # "I"
  BY <1>1, <1>3, Turns DEF positionDelta, Reach, Away, Turning
<1> QED
  BY <1>2, <1>3

\* What any number of presses has taken, at least.
Paid(p, s) ==
  /\ s.x \in Int /\ s.theta \in Theta /\ s.rotations \in Nat /\ s.presses \in Nat
  /\ Quarters(s.theta) <= s.rotations
  /\ Away(p, s.x) <= s.presses

LEMMA AtFields ==
  ASSUME NEW a, NEW t, NEW r, NEW q
  PROVE  /\ At(a, t, r, q).x = a /\ At(a, t, r, q).theta = t
         /\ At(a, t, r, q).rotations = r /\ At(a, t, r, q).presses = q
BY DEF At

LEMMA PaidPress ==
  ASSUME NEW p \in Turning, NEW s, Paid(p, s), NEW e \in After(p, s)
  PROVE  Paid(p, e)
<1>1. \/ \E col \in {s.x - 1, s.x + 1} \cup Walls(p, s.theta) :
            e = At(col, s.theta, s.rotations, s.presses + 1)
      \/ \E dir \in {Clockwise, Anticlockwise} :
            e = At(s.x, Turned(s.theta, dir), s.rotations + 1, s.presses)
  BY DEF After
<1>2. ASSUME NEW col \in {s.x - 1, s.x + 1} \cup Walls(p, s.theta),
             e = At(col, s.theta, s.rotations, s.presses + 1)
      PROVE  Paid(p, e)
  <2>1. col \in Int /\ Away(p, col) <= Away(p, s.x) + 1
    <3>1. CASE col \in {s.x - 1, s.x + 1}
      BY <3>1, AwayOneTap DEF Paid
    <3>2. CASE col \in Walls(p, s.theta)
      BY <3>2, AwayWall, AwayType DEF Paid
    <3> QED
      BY <3>1, <3>2
  <2>2. e.x = col /\ e.theta = s.theta /\ e.rotations = s.rotations /\ e.presses = s.presses + 1
    BY <1>2, AtFields
  <2> QED
    BY <2>1, <2>2, AwayType DEF Paid
<1>3. ASSUME NEW dir \in {Clockwise, Anticlockwise},
             e = At(s.x, Turned(s.theta, dir), s.rotations + 1, s.presses)
      PROVE  Paid(p, e)
  <2>1. e.x = s.x /\ e.theta = Turned(s.theta, dir) /\ e.rotations = s.rotations + 1 /\ e.presses = s.presses
    BY <1>3, AtFields
  <2>2. Turned(s.theta, dir) \in Theta /\ Quarters(Turned(s.theta, dir)) <= Quarters(s.theta) + 1
    BY Turns DEF Paid, Quarters
  <2>3. Quarters(s.theta) \in Nat /\ Quarters(Turned(s.theta, dir)) \in Nat
    BY DEF Quarters
  <2> QED
    BY <2>1, <2>2, <2>3 DEF Paid
<1> QED
  BY <1>1, <1>2, <1>3

LEMMA AllPaid ==
  ASSUME NEW p \in Turning
  PROVE  \A s \in Presses[MaxPresses][p] : Paid(p, s)
<1>1. p \in PieceType
  BY DEF Turning
<1>2. \A s \in Presses[0][p] : Paid(p, s)
  <2>1. Presses[0][p] = {At(3, 0, 0, 0)}
    BY <1>1, PressesAre DEF AtEntry
  <2>2. Paid(p, At(3, 0, 0, 0))
    BY AtFields, Turns DEF Paid, Quarters, Away
  <2> QED
    BY <2>1, <2>2
<1>3. ASSUME NEW P, NEW Q, Q = OneMorePress(P), \A s \in P[p] : Paid(p, s)
      PROVE  \A s \in Q[p] : Paid(p, s)
  <2>1. Q[p] = P[p] \cup UNION {After(p, s) : s \in P[p]}
    BY <1>1, <1>3 DEF OneMorePress
  <2>2. \A e \in Q[p] : e \in P[p] \/ \E s \in P[p] : e \in After(p, s)
    BY <2>1, Zenon
  <2> QED
    BY <2>2, <1>3, PaidPress, Zenon
<1>4. \A s \in Presses[1][p] : Paid(p, s)
  BY <1>2, <1>3, PressesAre, Zenon
<1>5. \A s \in Presses[2][p] : Paid(p, s)
  BY <1>4, <1>3, PressesAre, Zenon
<1>6. \A s \in Presses[3][p] : Paid(p, s)
  BY <1>5, <1>3, PressesAre, Zenon
<1>7. \A s \in Presses[4][p] : Paid(p, s)
  BY <1>6, <1>3, PressesAre, Zenon
<1> QED
  BY <1>7 DEF MaxPresses

LEMMA PressGoesOn ==
  ASSUME NEW p \in Turning, NEW n \in 0..3
  PROVE  /\ \A s \in Presses[n][p] : s \in Presses[n + 1][p]
         /\ \A s \in Presses[n][p] : \A e \in After(p, s) : e \in Presses[n + 1][p]
<1>1. Presses[n + 1] = OneMorePress(Presses[n])
  <2>1. n \in {0, 1, 2, 3}
    OBVIOUS
  <2> QED
    BY <2>1, PressesAre
<1>2. p \in PieceType
  BY DEF Turning
<1>3. Presses[n + 1][p] = Presses[n][p] \cup UNION {After(p, s) : s \in Presses[n][p]}
  BY <1>1, <1>2 DEF OneMorePress
<1> QED
  BY <1>3, Zenon

LEMMA Tap ==
  ASSUME NEW p \in Turning, NEW n \in 0..3, NEW col \in Int, NEW t \in Theta, NEW r, NEW q,
         At(col, t, r, q) \in Presses[n][p], NEW to \in {col - 1, col + 1}, Inside(p, to, t)
  PROVE  At(to, t, r, q + 1) \in Presses[n + 1][p]
<1> DEFINE s == At(col, t, r, q)
           e == At(to, t, r, q + 1)
<1>1. s.x = col /\ s.theta = t /\ s.rotations = r /\ s.presses = q /\ e.x = to /\ e.theta = t
  BY AtFields
<1>2. e \in {At(a, s.theta, s.rotations, s.presses + 1) : a \in {s.x - 1, s.x + 1} \cup Walls(p, s.theta)}
  BY <1>1, Zenon
<1>3. e \in After(p, s)
  BY <1>1, <1>2, Zenon DEF After
<1> QED
  BY <1>3, PressGoesOn, Zenon

LEMMA Hold ==
  ASSUME NEW p \in Turning, NEW n \in 0..3, NEW col \in Int, NEW t \in Theta, NEW r, NEW q,
         At(col, t, r, q) \in Presses[n][p], NEW to \in Walls(p, t)
  PROVE  At(to, t, r, q + 1) \in Presses[n + 1][p]
<1> DEFINE s == At(col, t, r, q)
           e == At(to, t, r, q + 1)
<1>1. s.x = col /\ s.theta = t /\ s.rotations = r /\ s.presses = q /\ e.x = to /\ e.theta = t
  BY AtFields
<1>2. e \in {At(a, s.theta, s.rotations, s.presses + 1) : a \in {s.x - 1, s.x + 1} \cup Walls(p, s.theta)}
  BY <1>1, Zenon
<1>3. Inside(p, to, t)
  BY Zenon DEF Walls
<1>4. e \in After(p, s)
  BY <1>1, <1>2, <1>3, Zenon DEF After
<1> QED
  BY <1>4, PressGoesOn, Zenon

LEMMA Quarter ==
  ASSUME NEW p \in Turning, NEW n \in 0..3, NEW col \in Int, NEW t \in Theta, NEW r, NEW q,
         At(col, t, r, q) \in Presses[n][p], NEW dir \in {Clockwise, Anticlockwise},
         Inside(p, col, Turned(t, dir))
  PROVE  At(col, Turned(t, dir), r + 1, q) \in Presses[n + 1][p]
<1> DEFINE s == At(col, t, r, q)
           e == At(col, Turned(t, dir), r + 1, q)
<1>1. s.x = col /\ s.theta = t /\ s.rotations = r /\ s.presses = q /\ e.x = col /\ e.theta = Turned(t, dir)
  BY AtFields
<1>2. e \in {At(s.x, Turned(s.theta, d), s.rotations + 1, s.presses) : d \in {Clockwise, Anticlockwise}}
  BY <1>1, Zenon
<1>3. e \in After(p, s)
  BY <1>1, <1>2, Zenon DEF After
<1> QED
  BY <1>3, PressGoesOn, Zenon

\* Some way brings p to column col of orientation t with no more than its
\* quarter turns and q presses.
Comes(p, col, t, q) == At(col, t, Quarters(t), q) \in Presses[MaxPresses][p]

LEMMA ByNow ==
  ASSUME NEW p \in Turning, NEW n \in 0..4, NEW s \in Presses[n][p]
  PROVE  s \in Presses[MaxPresses][p]
<1>1. n \in {0, 1, 2, 3, 4}
  OBVIOUS
<1>2. /\ n = 0 => s \in Presses[1][p]
      /\ n = 1 => s \in Presses[2][p]
      /\ n = 2 => s \in Presses[3][p]
      /\ n = 3 => s \in Presses[4][p]
  BY PressGoesOn
<1>3. /\ s \in Presses[1][p] => s \in Presses[2][p]
      /\ s \in Presses[2][p] => s \in Presses[3][p]
      /\ s \in Presses[3][p] => s \in Presses[4][p]
  <2>1. \A m \in 0..3 : s \in Presses[m][p] => s \in Presses[m + 1][p]
    BY PressGoesOn
  <2>2. 1 + 1 = 2 /\ 2 + 1 = 3 /\ 3 + 1 = 4
    OBVIOUS
  <2> QED
    BY <2>1, <2>2
<1> QED
  BY <1>1, <1>2, <1>3 DEF MaxPresses

LEMMA Turnings ==
  ASSUME NEW p \in Turning
  PROVE  /\ At(3, 0, 0, 0) \in Presses[0][p]
         /\ At(3, 1, 1, 0) \in Presses[1][p]
         /\ At(3, 2, 2, 0) \in Presses[2][p]
         /\ At(3, 3, 1, 0) \in Presses[1][p]
<1>1. At(3, 0, 0, 0) \in Presses[0][p]
  BY PressesAre DEF AtEntry, Turning
<1>2. \A t \in Theta : Inside(p, 3, t)
  BY InsideIff, ShapeSpan
<1>3. At(3, 1, 0 + 1, 0) \in Presses[0 + 1][p] /\ At(3, 3, 0 + 1, 0) \in Presses[0 + 1][p]
  BY <1>1, <1>2, Turns, Quarter
<1>4. At(3, 2, 1 + 1, 0) \in Presses[1 + 1][p]
  BY <1>3, <1>2, Turns, Quarter
<1> QED
  BY <1>1, <1>3, <1>4

LEMMA FromEntry ==
  ASSUME NEW p \in Turning, NEW t \in Theta
  PROVE  /\ Comes(p, 3, t, 0)
         /\ Comes(p, 2, t, 1) /\ Comes(p, 4, t, 1) /\ Comes(p, 1, t, 2) /\ Comes(p, 5, t, 2)
         /\ \A col \in Walls(p, t) : Comes(p, col, t, 1)
         /\ \A col \in Walls(p, t), to \in Int :
               to \in {col - 1, col + 1} /\ Inside(p, to, t) => Comes(p, to, t, 2)
<1>1. PICK n \in 0..2 : At(3, t, Quarters(t), 0) \in Presses[n][p]
  BY Turnings, Turns DEF Quarters
<1>2. Inside(p, 1, t) /\ Inside(p, 2, t) /\ Inside(p, 4, t) /\ Inside(p, 5, t)
  BY InsideIff, Turns DEF positionDelta, Reach, Turning
<1>3. At(2, t, Quarters(t), 1) \in Presses[n + 1][p] /\ At(4, t, Quarters(t), 1) \in Presses[n + 1][p]
  <2>1. /\ At(2, t, Quarters(t), 0 + 1) \in Presses[n + 1][p]
        /\ At(4, t, Quarters(t), 0 + 1) \in Presses[n + 1][p]
    BY <1>1, <1>2, Tap
  <2> QED
    BY <2>1
<1>4. At(1, t, Quarters(t), 2) \in Presses[n + 2][p] /\ At(5, t, Quarters(t), 2) \in Presses[n + 2][p]
  <2>1. /\ At(1, t, Quarters(t), 1 + 1) \in Presses[(n + 1) + 1][p]
        /\ At(5, t, Quarters(t), 1 + 1) \in Presses[(n + 1) + 1][p]
    BY <1>3, <1>2, Tap
  <2> QED
    BY <2>1
<1>5. \A col \in Walls(p, t) : At(col, t, Quarters(t), 1) \in Presses[n + 1][p]
  <2>1. \A col \in Walls(p, t) : At(col, t, Quarters(t), 0 + 1) \in Presses[n + 1][p]
    BY <1>1, Hold
  <2> QED
    BY <2>1
<1>6. ASSUME NEW col \in Walls(p, t), NEW to \in Int, to \in {col - 1, col + 1}, Inside(p, to, t)
      PROVE  At(to, t, Quarters(t), 2) \in Presses[n + 2][p]
  <2>1. At(to, t, Quarters(t), 1 + 1) \in Presses[(n + 1) + 1][p]
    BY <1>5, <1>6, AwayWall, Tap
  <2> QED
    BY <2>1
<1>7. n \in 0..4 /\ n + 1 \in 0..4 /\ n + 2 \in 0..4
  OBVIOUS
<1> QED
  BY <1>1, <1>3, <1>4, <1>5, <1>6, <1>7, ByNow, Zenon DEF Comes

\* The wall of the entry orientation, or the column beside it, then a turn.
LEMMA FromWall ==
  ASSUME NEW p \in Turning, NEW dir \in {Clockwise, Anticlockwise},
         NEW col \in Walls(p, 0)
  PROVE  /\ Inside(p, col, Turned(0, dir)) => Comes(p, col, Turned(0, dir), 1)
         /\ \A to \in {col - 1, col + 1} : Inside(p, to, 0) /\ Inside(p, to, Turned(0, dir))
                                             => Comes(p, to, Turned(0, dir), 2)
<1>1. At(col, 0, 0, 1) \in Presses[1][p]
  <2>1. At(col, 0, 0, 0 + 1) \in Presses[0 + 1][p]
    BY Turnings, Turns, Hold
  <2> QED
    BY <2>1
<1>2. 0 \in Theta /\ Turned(0, dir) \in Theta /\ Quarters(Turned(0, dir)) = 1 /\ col \in Int
  BY Turns, AwayWall DEF Quarters
<1>3. Inside(p, col, Turned(0, dir)) => Comes(p, col, Turned(0, dir), 1)
  <2>1. Inside(p, col, Turned(0, dir)) => At(col, Turned(0, dir), 0 + 1, 1) \in Presses[1 + 1][p]
    BY <1>1, <1>2, Quarter
  <2> QED
    BY <2>1, <1>2, ByNow DEF Comes
<1>4. ASSUME NEW to \in {col - 1, col + 1}, Inside(p, to, 0), Inside(p, to, Turned(0, dir))
      PROVE  Comes(p, to, Turned(0, dir), 2)
  <2>1. to \in Int
    BY <1>2
  <2>2. At(to, 0, 0, 1 + 1) \in Presses[1 + 1][p]
    BY <1>1, <1>2, <1>4, Tap
  <2>3. At(to, 0, 0, 2) \in Presses[2][p]
    BY <2>2
  <2>4. At(to, Turned(0, dir), 0 + 1, 2) \in Presses[2 + 1][p]
    BY <2>1, <2>3, <1>2, <1>4, Quarter
  <2> QED
    BY <2>4, <1>2, ByNow DEF Comes
<1> QED
  BY <1>3, <1>4

LEMMA WallsOfOthers ==
  ASSUME NEW p \in Turning, p # "I"
  PROVE  /\ Walls(p, 0) = {0, 7} /\ Walls(p, 1) = {-1, 7}
         /\ Walls(p, 2) = {0, 7} /\ Walls(p, 3) = {0, 8}
         /\ \A col \in Int : /\ Inside(p, col, 0) <=> 0 <= col /\ col <= 7
                             /\ Inside(p, col, 1) <=> -1 <= col /\ col <= 7
                             /\ Inside(p, col, 2) <=> 0 <= col /\ col <= 7
                             /\ Inside(p, col, 3) <=> 0 <= col /\ col <= 8
<1>1. /\ positionDelta(p, 0) = 0 /\ positionDelta(p, 1) = 1
      /\ positionDelta(p, 2) = 0 /\ positionDelta(p, 3) = 0
      /\ Reach(p, 0) = 2 /\ Reach(p, 1) = 2 /\ Reach(p, 2) = 2 /\ Reach(p, 3) = 1
  BY DEF positionDelta, Reach, Turning
<1>2. /\ Walls(p, 0) = {-0, 9 - 2} /\ Walls(p, 1) = {-1, 9 - 2}
      /\ Walls(p, 2) = {-0, 9 - 2} /\ Walls(p, 3) = {-0, 9 - 1}
  BY <1>1, WallsAre, Turns
<1>3. \A col \in Int : /\ Inside(p, col, 0) <=> 0 <= col + 0 /\ col + 2 <= 9
                       /\ Inside(p, col, 1) <=> 0 <= col + 1 /\ col + 2 <= 9
                       /\ Inside(p, col, 2) <=> 0 <= col + 0 /\ col + 2 <= 9
                       /\ Inside(p, col, 3) <=> 0 <= col + 0 /\ col + 1 <= 9
  BY <1>1, InsideIff, Turns
<1> QED
  BY <1>2, <1>3

LEMMA WallsOfI ==
  /\ Walls("I", 0) = {0, 6} /\ Walls("I", 1) = {-2, 7}
  /\ Walls("I", 2) = {0, 6} /\ Walls("I", 3) = {-1, 8}
  /\ \A col \in Int : /\ Inside("I", col, 0) <=> 0 <= col /\ col <= 6
                      /\ Inside("I", col, 1) <=> -2 <= col /\ col <= 7
                      /\ Inside("I", col, 2) <=> 0 <= col /\ col <= 6
                      /\ Inside("I", col, 3) <=> -1 <= col /\ col <= 8
<1>1. /\ positionDelta("I", 0) = 0 /\ positionDelta("I", 1) = 2
      /\ positionDelta("I", 2) = 0 /\ positionDelta("I", 3) = 1
      /\ Reach("I", 0) = 3 /\ Reach("I", 1) = 2 /\ Reach("I", 2) = 3 /\ Reach("I", 3) = 1
  BY DEF positionDelta, Reach
<1>2. "I" \in Turning
  BY DEF Turning, PieceType
<1>3. /\ Walls("I", 0) = {-0, 9 - 3} /\ Walls("I", 1) = {-2, 9 - 2}
      /\ Walls("I", 2) = {-0, 9 - 3} /\ Walls("I", 3) = {-1, 9 - 1}
  BY <1>1, <1>2, WallsAre, Turns
<1>4. \A col \in Int : /\ Inside("I", col, 0) <=> 0 <= col + 0 /\ col + 3 <= 9
                       /\ Inside("I", col, 1) <=> 0 <= col + 2 /\ col + 2 <= 9
                       /\ Inside("I", col, 2) <=> 0 <= col + 0 /\ col + 3 <= 9
                       /\ Inside("I", col, 3) <=> 0 <= col + 1 /\ col + 1 <= 9
  BY <1>1, <1>2, InsideIff, Turns
<1> QED
  BY <1>3, <1>4

LEMMA OthersCome ==
  ASSUME NEW p \in Turning, p # "I", NEW t \in Theta, NEW col \in Int, Inside(p, col, t)
  PROVE  Comes(p, col, t, Away(p, col))
<1>1. /\ Comes(p, 3, t, 0) /\ Comes(p, 2, t, 1) /\ Comes(p, 4, t, 1)
      /\ Comes(p, 1, t, 2) /\ Comes(p, 5, t, 2)
  BY FromEntry
<1>2. /\ Away(p, -1) = 1 /\ Away(p, 0) = 1 /\ Away(p, 1) = 2 /\ Away(p, 2) = 1 /\ Away(p, 3) = 0
      /\ Away(p, 4) = 1 /\ Away(p, 5) = 2 /\ Away(p, 6) = 2 /\ Away(p, 7) = 1 /\ Away(p, 8) = 1
  BY DEF Away
<1>3. CASE t \in {0, 2}
  <2>1. Comes(p, 0, t, 1) /\ Comes(p, 7, t, 1)
    BY <1>3, FromEntry, WallsOfOthers
  <2>2. Comes(p, 6, t, 2)
    BY <1>3, FromEntry, WallsOfOthers
  <2>3. col \in {0, 1, 2, 3, 4, 5, 6, 7}
    BY <1>3, WallsOfOthers
  <2> QED
    BY <2>1, <2>2, <2>3, <1>1, <1>2
<1>4. CASE t = 1
  <2>1. Comes(p, -1, 1, 1) /\ Comes(p, 7, 1, 1)
    BY <1>4, FromEntry, WallsOfOthers
  <2>2. Comes(p, 6, 1, 2)
    BY <1>4, FromEntry, WallsOfOthers
  <2>3. Comes(p, 0, 1, 1)
    BY FromWall, WallsOfOthers, Turns
  <2>4. col \in {-1, 0, 1, 2, 3, 4, 5, 6, 7}
    BY <1>4, WallsOfOthers
  <2> QED
    BY <2>1, <2>2, <2>3, <2>4, <1>1, <1>2, <1>4
<1>5. CASE t = 3
  <2>1. Comes(p, 0, 3, 1) /\ Comes(p, 8, 3, 1)
    BY <1>5, FromEntry, WallsOfOthers
  <2>2. Comes(p, 6, 3, 2) /\ Comes(p, 7, 3, 1)
    BY FromWall, WallsOfOthers, Turns
  <2>3. col \in {0, 1, 2, 3, 4, 5, 6, 7, 8}
    BY <1>5, WallsOfOthers
  <2> QED
    BY <2>1, <2>2, <2>3, <1>1, <1>2, <1>5
<1> QED
  BY <1>3, <1>4, <1>5, Turns

LEMMA IComes ==
  /\ \A col \in 0..6 : Comes("I", col, 0, Away("I", col))
  /\ Comes("I", -2, 1, 1) /\ Comes("I", 0, 1, 1) /\ Comes("I", 3, 1, 0)
  /\ Comes("I", 4, 1, 1)  /\ Comes("I", 6, 1, 1) /\ Comes("I", 7, 1, 1)
  /\ Comes("I", 0, 3, 1)  /\ Comes("I", 2, 3, 1) /\ Comes("I", 3, 3, 0) /\ Comes("I", 6, 3, 1)
<1>1. "I" \in Turning /\ 0 \in Theta /\ 1 \in Theta /\ 3 \in Theta
  BY Turns DEF Turning, PieceType
<1>2. \A t \in Theta : /\ Comes("I", 3, t, 0) /\ Comes("I", 2, t, 1) /\ Comes("I", 4, t, 1)
                       /\ Comes("I", 1, t, 2) /\ Comes("I", 5, t, 2)
  BY <1>1, FromEntry
<1>3. /\ Comes("I", 0, 0, 1) /\ Comes("I", 6, 0, 1)
      /\ Comes("I", -2, 1, 1) /\ Comes("I", 7, 1, 1)
  BY <1>1, FromEntry, WallsOfI
<1>4. /\ Comes("I", 0, 1, 1) /\ Comes("I", 6, 1, 1)
      /\ Comes("I", 0, 3, 1) /\ Comes("I", 6, 3, 1)
  BY <1>1, FromWall, WallsOfI, Turns
<1>5. ASSUME NEW col \in 0..6 PROVE Comes("I", col, 0, Away("I", col))
  <2>1. col \in {0, 1, 2, 3, 4, 5, 6}
    OBVIOUS
  <2>2. /\ Away("I", 0) = 1 /\ Away("I", 1) = 2 /\ Away("I", 2) = 1 /\ Away("I", 3) = 0
        /\ Away("I", 4) = 1 /\ Away("I", 5) = 2 /\ Away("I", 6) = 1
    BY DEF Away
  <2> QED
    BY <2>1, <2>2, <1>1, <1>2, <1>3
<1> QED
  BY <1>1, <1>2, <1>3, <1>4, <1>5

-----------------------------------------------------------------------------
\* Finesse: places that are the same place.

LEMMA SameColumns ==
  ASSUME NEW p \in Turning, NEW t \in Theta, NEW u \in Theta, NEW col \in Int, NEW oth \in Int,
         Rest(p, col, t) = Rest(p, oth, u)
  PROVE  /\ col + positionDelta(p, t) = oth + positionDelta(p, u)
         /\ col + Reach(p, t) = oth + Reach(p, u)
<1>1. ASSUME NEW v \in Theta, NEW a \in Int
      PROVE  /\ \A c \in Rest(p, a, v) : /\ c[1] \in Int
                                        /\ a + positionDelta(p, v) <= c[1] /\ c[1] <= a + Reach(p, v)
             /\ \E c \in Rest(p, a, v) : c[1] = a + positionDelta(p, v)
             /\ \E c \in Rest(p, a, v) : c[1] = a + Reach(p, v)
  <2>1. Rest(p, a, v) = {<<a + b[1], b[2] - Depth(p, v)>> : b \in Shape("srs", p, v)}
    BY RestIs, SRSShape DEF Lowered
  <2>2. /\ positionDelta(p, v) \in 0..3 /\ Reach(p, v) \in 0..3
        /\ Fills(Shape("srs", p, v), positionDelta(p, v), Reach(p, v), Depth(p, v))
    BY ShapeSpan
  <2>3. \A c \in Rest(p, a, v) : \E b \in Shape("srs", p, v) : c[1] = a + b[1]
    BY <2>1
  <2>4. \A b \in Shape("srs", p, v) : \E c \in Rest(p, a, v) : c[1] = a + b[1]
    <3>1. \A b \in Shape("srs", p, v) : <<a + b[1], b[2] - Depth(p, v)>> \in Rest(p, a, v)
      BY <2>1
    <3> QED
      BY <3>1
  <2>5. /\ \A b \in Shape("srs", p, v) : /\ b[1] \in Int
                                          /\ positionDelta(p, v) <= b[1] /\ b[1] <= Reach(p, v)
        /\ \E b \in Shape("srs", p, v) : b[1] = positionDelta(p, v)
        /\ \E b \in Shape("srs", p, v) : b[1] = Reach(p, v)
    BY <2>2 DEF Fills
  <2> QED
    BY <2>2, <2>3, <2>4, <2>5
<1>2. PICK c \in Rest(p, col, t) : c[1] = col + positionDelta(p, t)
  BY <1>1
<1>3. PICK d \in Rest(p, col, t) : d[1] = col + Reach(p, t)
  BY <1>1
<1>4. PICK e \in Rest(p, oth, u) : e[1] = oth + positionDelta(p, u)
  BY <1>1
<1>5. PICK f \in Rest(p, oth, u) : f[1] = oth + Reach(p, u)
  BY <1>1
<1>6. /\ positionDelta(p, t) \in Int /\ Reach(p, t) \in Int
      /\ positionDelta(p, u) \in Int /\ Reach(p, u) \in Int
  BY ShapeSpan
<1>7. /\ oth + positionDelta(p, u) <= col + positionDelta(p, t)
      /\ col + positionDelta(p, t) <= oth + positionDelta(p, u)
  BY <1>1, <1>2, <1>4
<1>8. /\ oth + Reach(p, u) <= col + Reach(p, t)
      /\ col + Reach(p, t) <= oth + Reach(p, u)
  BY <1>1, <1>3, <1>5
<1> QED
  BY <1>6, <1>7, <1>8

LEMMA TurningPieces ==
  /\ "I" \in Turning /\ "J" \in Turning /\ "L" \in Turning
  /\ "S" \in Turning /\ "T" \in Turning /\ "Z" \in Turning
BY DEF Turning, PieceType

\* I, S and Z fill the same cells upside down, and turned either way.
LEMMA Twins ==
  ASSUME NEW p \in {"I", "S", "Z"}, NEW col \in Int
  PROVE  Rest(p, col, 0) = Rest(p, col, 2) /\ Rest(p, col, 1) = Rest(p, col + 1, 3)
<1>1. CASE p = "I"
  <2>1. Lowered({<<0,1>>, <<1,1>>, <<2,1>>, <<3,1>>}, col, 1)
          = Lowered({<<0,2>>, <<1,2>>, <<2,2>>, <<3,2>>}, col, 2)
    BY DEF Lowered
  <2>2. Lowered({<<2,0>>, <<2,1>>, <<2,2>>, <<2,3>>}, col, 3)
          = Lowered({<<1,0>>, <<1,1>>, <<1,2>>, <<1,3>>}, col + 1, 3)
    BY DEF Lowered
  <2>3. /\ Rest("I", col, 0) = Lowered(pieceOffsets["I"][1], col, 1)
        /\ Rest("I", col, 2) = Lowered(pieceOffsets["I"][3], col, 2)
        /\ Rest("I", col, 1) = Lowered(pieceOffsets["I"][2], col, 3)
        /\ Rest("I", col + 1, 3) = Lowered(pieceOffsets["I"][4], col + 1, 3)
    BY TurningPieces, RestIs, Turns DEF Depth
  <2> QED
    BY <2>1, <2>2, <2>3, <1>1, Offsets
<1>2. CASE p = "S"
  <2>1. Lowered({<<0,1>>, <<1,0>>, <<1,1>>, <<2,0>>}, col, 1)
          = Lowered({<<0,2>>, <<1,1>>, <<1,2>>, <<2,1>>}, col, 2)
    BY DEF Lowered
  <2>2. Lowered({<<1,0>>, <<1,1>>, <<2,1>>, <<2,2>>}, col, 2)
          = Lowered({<<0,0>>, <<0,1>>, <<1,1>>, <<1,2>>}, col + 1, 2)
    BY DEF Lowered
  <2>3. /\ Rest("S", col, 0) = Lowered(pieceOffsets["S"][1], col, 1)
        /\ Rest("S", col, 2) = Lowered(pieceOffsets["S"][3], col, 2)
        /\ Rest("S", col, 1) = Lowered(pieceOffsets["S"][2], col, 2)
        /\ Rest("S", col + 1, 3) = Lowered(pieceOffsets["S"][4], col + 1, 2)
    BY TurningPieces, RestIs, Turns DEF Depth
  <2> QED
    BY <2>1, <2>2, <2>3, <1>2, Offsets
<1>3. CASE p = "Z"
  <2>1. Lowered({<<0,0>>, <<1,0>>, <<1,1>>, <<2,1>>}, col, 1)
          = Lowered({<<0,1>>, <<1,1>>, <<1,2>>, <<2,2>>}, col, 2)
    BY DEF Lowered
  <2>2. Lowered({<<1,1>>, <<1,2>>, <<2,0>>, <<2,1>>}, col, 2)
          = Lowered({<<0,1>>, <<0,2>>, <<1,0>>, <<1,1>>}, col + 1, 2)
    BY DEF Lowered
  <2>3. /\ Rest("Z", col, 0) = Lowered(pieceOffsets["Z"][1], col, 1)
        /\ Rest("Z", col, 2) = Lowered(pieceOffsets["Z"][3], col, 2)
        /\ Rest("Z", col, 1) = Lowered(pieceOffsets["Z"][2], col, 2)
        /\ Rest("Z", col + 1, 3) = Lowered(pieceOffsets["Z"][4], col + 1, 2)
    BY TurningPieces, RestIs, Turns DEF Depth
  <2> QED
    BY <2>1, <2>2, <2>3, <1>3, Offsets
<1> QED
  BY <1>1, <1>2, <1>3

\* J, L and T turned either way do not, nor does T upside down.
LEMMA Apart ==
  ASSUME NEW col \in Int
  PROVE  /\ \A p \in {"J", "L", "T"} : Rest(p, col, 1) # Rest(p, col + 1, 3)
         /\ Rest("T", col, 0) # Rest("T", col, 2)
<1>1. Rest("J", col, 1) # Rest("J", col + 1, 3)
  <2>1. <<col + 2, 0>> \notin Lowered({<<1,0>>, <<1,1>>, <<1,2>>, <<2,0>>}, col, 2)
    BY DEF Lowered
  <2>2. <<col + 2, 0>> \in Lowered({<<0,2>>, <<1,0>>, <<1,1>>, <<1,2>>}, col + 1, 2)
    BY DEF Lowered
  <2>3. /\ Rest("J", col, 1) = Lowered(pieceOffsets["J"][2], col, 2)
        /\ Rest("J", col + 1, 3) = Lowered(pieceOffsets["J"][4], col + 1, 2)
    BY TurningPieces, RestIs, Turns DEF Depth
  <2> QED
    BY <2>1, <2>2, <2>3, Offsets
<1>2. Rest("L", col, 1) # Rest("L", col + 1, 3)
  <2>1. <<col + 1, 0>> \in Lowered({<<1,0>>, <<1,1>>, <<1,2>>, <<2,2>>}, col, 2)
    BY DEF Lowered
  <2>2. <<col + 1, 0>> \notin Lowered({<<0,0>>, <<1,0>>, <<1,1>>, <<1,2>>}, col + 1, 2)
    BY DEF Lowered
  <2>3. /\ Rest("L", col, 1) = Lowered(pieceOffsets["L"][2], col, 2)
        /\ Rest("L", col + 1, 3) = Lowered(pieceOffsets["L"][4], col + 1, 2)
    BY TurningPieces, RestIs, Turns DEF Depth
  <2> QED
    BY <2>1, <2>2, <2>3, Offsets
<1>3. Rest("T", col, 1) # Rest("T", col + 1, 3)
  <2>1. <<col + 1, 0>> \in Lowered({<<1,0>>, <<1,1>>, <<1,2>>, <<2,1>>}, col, 2)
    BY DEF Lowered
  <2>2. <<col + 1, 0>> \notin Lowered({<<0,1>>, <<1,0>>, <<1,1>>, <<1,2>>}, col + 1, 2)
    BY DEF Lowered
  <2>3. /\ Rest("T", col, 1) = Lowered(pieceOffsets["T"][2], col, 2)
        /\ Rest("T", col + 1, 3) = Lowered(pieceOffsets["T"][4], col + 1, 2)
    BY TurningPieces, RestIs, Turns DEF Depth
  <2> QED
    BY <2>1, <2>2, <2>3, Offsets
<1>4. Rest("T", col, 0) # Rest("T", col, 2)
  <2>1. <<col, 0>> \in Lowered({<<0,1>>, <<1,0>>, <<1,1>>, <<2,1>>}, col, 1)
    BY DEF Lowered
  <2>2. <<col, 0>> \notin Lowered({<<0,1>>, <<1,1>>, <<1,2>>, <<2,1>>}, col, 2)
    BY DEF Lowered
  <2>3. /\ Rest("T", col, 0) = Lowered(pieceOffsets["T"][1], col, 1)
        /\ Rest("T", col, 2) = Lowered(pieceOffsets["T"][3], col, 2)
    BY TurningPieces, RestIs, Turns DEF Depth
  <2> QED
    BY <2>1, <2>2, <2>3, Offsets
<1> QED
  BY <1>1, <1>2, <1>3, <1>4

-----------------------------------------------------------------------------
\* Finesse: the tables.

\* J, L and T, but for the places where J and L are upside down; I, S and Z
\* as they enter and upside down.
LEMMA OnePlace ==
  ASSUME NEW p \in Turning, NEW t \in Theta, NEW col \in Int, Inside(p, col, t),
         \/ p \in {"J", "L", "T"} /\ (t = 2 => p = "T")
         \/ p \in {"I", "S", "Z"} /\ t \in {0, 2}
  PROVE  /\ InTable(p, col, t)
         /\ movement(p, t)[positionDelta(p, t) + col + 1] = Away(p, col)
<1>1. CASE t = 1
  <2>1. col \in {-1, 0, 1, 2, 3, 4, 5, 6, 7}
    BY <1>1, WallsOfOthers
  <2>2. positionDelta(p, t) = 1 /\ movement(p, t) = <<1, 1, 2, 1, 0, 1, 2, 2, 1, 0>>
    BY <1>1 DEF positionDelta, movement
  <2> QED
    BY <1>1, <2>1, <2>2 DEF InTable, Away
<1>2. CASE t = 3
  <2>1. col \in {0, 1, 2, 3, 4, 5, 6, 7, 8}
    BY <1>2, WallsOfOthers
  <2>2. positionDelta(p, t) = 0 /\ movement(p, t) = <<1, 2, 1, 0, 1, 2, 2, 1, 1, 0>>
    BY <1>2 DEF positionDelta, movement
  <2> QED
    BY <1>2, <2>1, <2>2 DEF InTable, Away
<1>3. CASE t \in {0, 2} /\ p # "I"
  <2>1. col \in {0, 1, 2, 3, 4, 5, 6, 7}
    BY <1>3, WallsOfOthers
  <2>2. positionDelta(p, t) = 0 /\ movement(p, t) = <<1, 2, 1, 0, 1, 2, 2, 1, 0, 0>>
    BY <1>3 DEF positionDelta, movement, Turning
  <2> QED
    BY <1>3, <2>1, <2>2 DEF InTable, Away
<1>4. CASE t \in {0, 2} /\ p = "I"
  <2>1. col \in {0, 1, 2, 3, 4, 5, 6}
    BY <1>4, WallsOfI
  <2>2. positionDelta(p, t) = 0 /\ movement(p, t) = <<1, 2, 1, 0, 1, 2, 1, 0, 0, 0>>
    BY <1>4 DEF positionDelta, movement
  <2> QED
    BY <1>4, <2>1, <2>2 DEF InTable, Away
<1> QED
  BY <1>1, <1>2, <1>3, <1>4, Turns

\* I, S and Z on end: of the two ways to turn, the nearer.
LEMMA TwoPlaces ==
  ASSUME NEW p \in {"I", "S", "Z"}, NEW t \in {1, 3}, NEW u \in {1, 3},
         NEW col \in Int, NEW oth \in Int, Inside(p, col, t),
         col + positionDelta(p, t) = oth + positionDelta(p, u)
  PROVE  /\ InTable(p, col, t)
         /\ movement(p, t)[positionDelta(p, t) + col + 1] \in Nat
         /\ movement(p, t)[positionDelta(p, t) + col + 1] <= Away(p, oth)
<1>1. CASE p = "I"
  <2>1. positionDelta(p, 1) = 2 /\ positionDelta(p, 3) = 1
    BY <1>1 DEF positionDelta
  <2>2. col + positionDelta(p, t) \in {0, 1, 2, 3, 4, 5, 6, 7, 8, 9}
    BY <1>1, <2>1, WallsOfI
  <2>3. movement(p, t) = <<1, 1, 1, 1, 0, 0, 1, 1, 1, 1>>
    BY <1>1 DEF movement
  <2> QED
    BY <1>1, <2>1, <2>2, <2>3 DEF InTable, Away
<1>2. CASE p # "I"
  <2>1. p \in Turning /\ positionDelta(p, 1) = 1 /\ positionDelta(p, 3) = 0
    BY <1>2, TurningPieces DEF positionDelta
  <2>2. col + positionDelta(p, t) \in {0, 1, 2, 3, 4, 5, 6, 7, 8}
    BY <1>2, <2>1, WallsOfOthers
  <2>3. movement(p, t) = <<1, 1, 1, 0, 0, 1, 2, 1, 1, 0>>
    BY <1>2 DEF movement
  <2> DEFINE k == positionDelta(p, t) + col
  <2>4. k \in {0, 1, 2, 3, 4, 5, 6, 7, 8} /\ (oth = k - 1 \/ oth = k)
    BY <2>1, <2>2
  <2>5. InTable(p, col, t)
    BY <2>4 DEF InTable
  <2> HIDE DEF k
  <2>6. <<1, 1, 1, 0, 0, 1, 2, 1, 1, 0>>[k + 1] \in Nat
    BY <2>4
  <2>7. <<1, 1, 1, 0, 0, 1, 2, 1, 1, 0>>[k + 1] <= Away(p, oth)
    <3>1. CASE oth = k - 1
      BY <1>2, <2>4, <3>1 DEF Away
    <3>2. CASE oth = k
      BY <1>2, <2>4, <3>2 DEF Away
    <3> QED
      BY <2>4, <3>1, <3>2
  <2> QED
    BY <2>3, <2>5, <2>6, <2>7 DEF k
<1> QED
  BY <1>1, <1>2

\* A way that takes the rotations of the tables and no more presses than they
\* say is charged nothing.
LEMMA NoFault ==
  ASSUME NEW p, NEW col, NEW t, NEW s,
         fsMinimalFinesseCount(p, col, t).rotations \in Nat, fsMinimalFinesseCount(p, col, t).presses \in Nat,
         s.rotations \in Nat, s.presses \in Nat,
         s.rotations <= fsMinimalFinesseCount(p, col, t).rotations,
         s.presses <= fsMinimalFinesseCount(p, col, t).presses
  PROVE  Fault(p, col, t, s) = 0
BY DEF Fault, Over

LEMMA WaysPaid ==
  ASSUME NEW p \in Turning, NEW t \in Theta, NEW col \in Int, NEW s \in Ways(p, col, t)
  PROVE  /\ Paid(p, s) /\ Rest(p, s.x, s.theta) = Rest(p, col, t)
         /\ s.x + positionDelta(p, s.theta) = col + positionDelta(p, t)
         /\ s.x + Reach(p, s.theta) = col + Reach(p, t)
<1>1. s \in Presses[MaxPresses][p] /\ Rest(p, s.x, s.theta) = Rest(p, col, t)
  BY DEF Ways
<1>2. Paid(p, s)
  BY <1>1, AllPaid
<1>3. s.x \in Int /\ s.theta \in Theta
  BY <1>2 DEF Paid
<1> QED
  BY <1>1, <1>2, <1>3, SameColumns

\* Exact, for one column.
ExactAt(p, col, t) ==
  LET least == fsMinimalFinesseCount(p, col, t) IN
  /\ InTable(p, col, t)
  /\ \A s \in Ways(p, col, t) : s.rotations + s.presses >= least.rotations + least.presses
  /\ \E s \in Ways(p, col, t) : Fault(p, col, t, s) = 0

LEMMA CountOf ==
  ASSUME NEW p, NEW t, NEW col
  PROVE  /\ fsMinimalFinesseCount(p, col, t).rotations = rotation(p, t)
         /\ fsMinimalFinesseCount(p, col, t).presses = movement(p, t)[positionDelta(p, t) + col + 1]
BY DEF fsMinimalFinesseCount

\* A way to a place with the same rest, within the count of the tables.
LEMMA FreeWay ==
  ASSUME NEW p \in Turning, NEW t \in Theta, NEW u \in Theta, NEW col \in Int, NEW oth \in Int,
         NEW q \in Nat, Comes(p, oth, u, q), Rest(p, oth, u) = Rest(p, col, t),
         rotation(p, t) \in Nat, Quarters(u) <= rotation(p, t),
         movement(p, t)[positionDelta(p, t) + col + 1] \in Nat,
         q <= movement(p, t)[positionDelta(p, t) + col + 1]
  PROVE  \E s \in Ways(p, col, t) : Fault(p, col, t, s) = 0
<1> DEFINE s == At(oth, u, Quarters(u), q)
<1>1. s.x = oth /\ s.theta = u /\ s.rotations = Quarters(u) /\ s.presses = q
  BY AtFields
<1>2. s \in Ways(p, col, t)
  BY <1>1 DEF Ways, Comes
<1>3. Quarters(u) \in Nat
  BY DEF Quarters
<1> HIDE DEF s
<1>4. Fault(p, col, t, s) = 0
  BY <1>1, <1>3, NoFault, CountOf
<1> QED
  BY <1>2, <1>4

LEMMA ExactJLT ==
  ASSUME NEW p \in {"J", "L", "T"}, NEW t \in Theta, t = 2 => p = "T",
         NEW col \in Int, Inside(p, col, t)
  PROVE  ExactAt(p, col, t)
<1>1. p \in Turning /\ p # "I"
  BY TurningPieces
<1>2. /\ InTable(p, col, t)
      /\ movement(p, t)[positionDelta(p, t) + col + 1] = Away(p, col)
  BY <1>1, OnePlace
<1>3. rotation(p, t) = Quarters(t) /\ Quarters(t) \in Nat /\ Away(p, col) \in Nat
  BY Turns, AwayType DEF rotation, Quarters
<1>4. ASSUME NEW s \in Ways(p, col, t)
      PROVE  Quarters(t) <= s.rotations /\ Away(p, col) <= s.presses /\ s.rotations \in Nat /\ s.presses \in Nat
  <2>1. /\ Paid(p, s) /\ Rest(p, s.x, s.theta) = Rest(p, col, t)
        /\ s.x + positionDelta(p, s.theta) = col + positionDelta(p, t)
        /\ s.x + Reach(p, s.theta) = col + Reach(p, t)
    BY <1>1, WaysPaid
  <2>2. s.theta \in {0, 1, 2, 3} /\ t \in {0, 1, 2, 3} /\ s.x \in Int
    BY <2>1, Turns DEF Paid
  <2>3. /\ positionDelta(p, 0) = 0 /\ positionDelta(p, 1) = 1
        /\ positionDelta(p, 2) = 0 /\ positionDelta(p, 3) = 0
        /\ Reach(p, 0) = 2 /\ Reach(p, 1) = 2 /\ Reach(p, 2) = 2 /\ Reach(p, 3) = 1
    BY <1>1 DEF positionDelta, Reach
  <2>4. \/ s.theta = t /\ s.x = col
        \/ s.theta = 2 /\ t = 0 /\ s.x = col
        \/ s.theta = 0 /\ t = 2 /\ s.x = col
        \/ s.theta = 1 /\ t = 3 /\ col = s.x + 1
        \/ s.theta = 3 /\ t = 1 /\ s.x = col + 1
    BY <2>1, <2>2, <2>3
  <2>5. ~(s.theta = 1 /\ t = 3 /\ col = s.x + 1) /\ ~(s.theta = 3 /\ t = 1 /\ s.x = col + 1)
    BY <2>1, <2>2, Apart
  <2>6. ~(s.theta = 0 /\ t = 2 /\ s.x = col)
    BY <2>1, <2>2, Apart
  <2>7. s.x = col /\ Quarters(t) <= Quarters(s.theta)
    BY <2>4, <2>5, <2>6 DEF Quarters
  <2>8. Quarters(s.theta) \in Nat
    BY DEF Quarters
  <2> QED
    BY <2>1, <2>7, <2>8, <1>3 DEF Paid
<1>5. \E s \in Ways(p, col, t) : Fault(p, col, t, s) = 0
  <2>1. Comes(p, col, t, Away(p, col))
    BY <1>1, OthersCome
  <2>2. /\ rotation(p, t) \in Nat /\ Quarters(t) <= rotation(p, t)
        /\ movement(p, t)[positionDelta(p, t) + col + 1] \in Nat
        /\ Away(p, col) <= movement(p, t)[positionDelta(p, t) + col + 1]
    BY <1>2, <1>3
  <2>3. Away(p, col) \in Nat /\ Rest(p, col, t) = Rest(p, col, t)
    BY <1>3
  <2> QED
    BY <2>1, <2>2, <2>3, <1>1, FreeWay, Zenon
<1>6. \A s \in Ways(p, col, t) :
         s.rotations + s.presses >= fsMinimalFinesseCount(p, col, t).rotations
                                      + fsMinimalFinesseCount(p, col, t).presses
  BY <1>2, <1>3, <1>4, CountOf
<1> QED
  BY <1>2, <1>5, <1>6 DEF ExactAt

LEMMA ExactFlat ==
  ASSUME NEW p \in {"I", "S", "Z"}, NEW t \in {0, 2}, NEW col \in Int, Inside(p, col, t)
  PROVE  ExactAt(p, col, t)
<1>1. p \in Turning /\ t \in Theta /\ 0 \in Theta
  BY TurningPieces, Turns
<1>2. /\ InTable(p, col, t)
      /\ movement(p, t)[positionDelta(p, t) + col + 1] = Away(p, col)
  BY <1>1, OnePlace
<1>3. rotation(p, t) = 0 /\ Quarters(0) = 0 /\ Away(p, col) \in Nat
  BY AwayType DEF rotation, Quarters
<1>4. ASSUME NEW s \in Ways(p, col, t)
      PROVE  Away(p, col) <= s.presses /\ s.rotations \in Nat /\ s.presses \in Nat
  <2>1. /\ Paid(p, s)
        /\ s.x + positionDelta(p, s.theta) = col + positionDelta(p, t)
        /\ s.x + Reach(p, s.theta) = col + Reach(p, t)
    BY <1>1, WaysPaid
  <2>2. s.theta \in {0, 1, 2, 3} /\ s.x \in Int
    BY <2>1, Turns DEF Paid
  <2>3. s.x = col
    <3>1. CASE p = "I"
      BY <3>1, <2>1, <2>2 DEF positionDelta, Reach
    <3>2. CASE p # "I"
      BY <3>2, <2>1, <2>2 DEF positionDelta, Reach
    <3> QED
      BY <3>1, <3>2
  <2> QED
    BY <2>1, <2>3 DEF Paid
<1>5. \E s \in Ways(p, col, t) : Fault(p, col, t, s) = 0
  <2>1. Comes(p, col, 0, Away(p, col))
    <3>1. CASE p = "I"
      <4>1. col \in 0..6
        BY <3>1, WallsOfI
      <4> QED
        BY <3>1, <4>1, IComes
    <3>2. CASE p # "I"
      <4>1. Inside(p, col, 0)
        BY <3>2, <1>1, WallsOfOthers
      <4> QED
        BY <3>2, <4>1, <1>1, OthersCome
    <3> QED
      BY <3>1, <3>2
  <2>2. Rest(p, col, 0) = Rest(p, col, t)
    BY Twins
  <2>3. /\ rotation(p, t) \in Nat /\ Quarters(0) <= rotation(p, t)
        /\ movement(p, t)[positionDelta(p, t) + col + 1] \in Nat
        /\ Away(p, col) <= movement(p, t)[positionDelta(p, t) + col + 1]
        /\ Away(p, col) \in Nat
    BY <1>2, <1>3
  <2> QED
    BY <2>1, <2>2, <2>3, <1>1, FreeWay, Zenon
<1>6. \A s \in Ways(p, col, t) :
         s.rotations + s.presses >= fsMinimalFinesseCount(p, col, t).rotations
                                      + fsMinimalFinesseCount(p, col, t).presses
  BY <1>2, <1>3, <1>4, CountOf
<1> QED
  BY <1>2, <1>5, <1>6 DEF ExactAt

\* On end, one of the two ways to turn comes with the presses of the tables.
LEMMA NearerWay ==
  ASSUME NEW p \in {"I", "S", "Z"}, NEW k \in Int, k >= 0, k <= 9, p # "I" => k <= 8
  PROVE  LET left  == k - positionDelta(p, 1)
             right == k - positionDelta(p, 3)
         IN  \/ Comes(p, left, 1, movement(p, 1)[k + 1])
             \/ Comes(p, right, 3, movement(p, 1)[k + 1])
<1>1. CASE p = "I"
  <2>1. positionDelta(p, 1) = 2 /\ positionDelta(p, 3) = 1
        /\ movement(p, 1) = <<1, 1, 1, 1, 0, 0, 1, 1, 1, 1>>
    BY <1>1 DEF positionDelta, movement
  <2>2. k \in {0, 1, 2, 3, 4, 5, 6, 7, 8, 9}
    OBVIOUS
  <2> QED
    BY <1>1, <2>1, <2>2, IComes
<1>2. CASE p # "I"
  <2>1. p \in Turning /\ positionDelta(p, 1) = 1 /\ positionDelta(p, 3) = 0
        /\ movement(p, 1) = <<1, 1, 1, 0, 0, 1, 2, 1, 1, 0>>
    BY <1>2, TurningPieces DEF positionDelta, movement
  <2>2. k \in {0, 1, 2, 3, 4, 5, 6, 7, 8}
    BY <1>2
  <2>3. \A col \in Int : /\ -1 <= col /\ col <= 7 => Comes(p, col, 1, Away(p, col))
                         /\ 0 <= col /\ col <= 8 => Comes(p, col, 3, Away(p, col))
    BY <1>2, <2>1, OthersCome, WallsOfOthers, Turns
  <2>4. /\ Comes(p, 0, 1, 1) /\ Comes(p, 3, 1, 0) /\ Comes(p, 4, 1, 1) /\ Comes(p, 5, 1, 2)
        /\ Comes(p, 0, 3, 1) /\ Comes(p, 2, 3, 1) /\ Comes(p, 3, 3, 0)
        /\ Comes(p, 7, 3, 1) /\ Comes(p, 8, 3, 1)
    <3>1. /\ Away(p, 0) = 1 /\ Away(p, 2) = 1 /\ Away(p, 3) = 0 /\ Away(p, 4) = 1
          /\ Away(p, 5) = 2 /\ Away(p, 7) = 1 /\ Away(p, 8) = 1
      BY DEF Away
    <3>2. /\ Comes(p, 0, 1, Away(p, 0)) /\ Comes(p, 3, 1, Away(p, 3)) /\ Comes(p, 4, 1, Away(p, 4))
          /\ Comes(p, 5, 1, Away(p, 5))
          /\ Comes(p, 0, 3, Away(p, 0)) /\ Comes(p, 2, 3, Away(p, 2)) /\ Comes(p, 3, 3, Away(p, 3))
          /\ Comes(p, 7, 3, Away(p, 7)) /\ Comes(p, 8, 3, Away(p, 8))
      BY <2>3
    <3> QED
      BY <3>1, <3>2
  <2> QED
    BY <2>1, <2>2, <2>4
<1> QED
  BY <1>1, <1>2

LEMMA ExactOnEnd ==
  ASSUME NEW p \in {"I", "S", "Z"}, NEW t \in {1, 3}, NEW col \in Int, Inside(p, col, t)
  PROVE  ExactAt(p, col, t)
<1> DEFINE k == positionDelta(p, t) + col
           least == movement(p, t)[k + 1]
<1>1. p \in Turning /\ t \in Theta /\ 1 \in Theta /\ 3 \in Theta
  BY TurningPieces, Turns
<1>2. rotation(p, t) = 1 /\ Quarters(1) = 1 /\ Quarters(3) = 1 /\ movement(p, t) = movement(p, 1)
  <2>1. CASE p = "I"
    BY <2>1 DEF rotation, Quarters, movement
  <2>2. CASE p # "I"
    BY <2>2 DEF rotation, Quarters, movement
  <2> QED
    BY <2>1, <2>2
<1>3. InTable(p, col, t) /\ least \in Nat
  BY TwoPlaces
<1>4. ASSUME NEW s \in Ways(p, col, t)
      PROVE  /\ least <= s.presses /\ 1 <= s.rotations
             /\ s.rotations \in Nat /\ s.presses \in Nat
  <2>1. /\ Paid(p, s)
        /\ s.x + positionDelta(p, s.theta) = col + positionDelta(p, t)
        /\ s.x + Reach(p, s.theta) = col + Reach(p, t)
    BY <1>1, WaysPaid
  <2>2. s.theta \in {0, 1, 2, 3} /\ s.x \in Int
    BY <2>1, Turns DEF Paid
  <2>3. s.theta \in {1, 3}
    <3>1. CASE p = "I"
      BY <3>1, <2>1, <2>2 DEF positionDelta, Reach
    <3>2. CASE p # "I"
      BY <3>2, <2>1, <2>2 DEF positionDelta, Reach
    <3> QED
      BY <3>1, <3>2
  <2>4. least <= Away(p, s.x)
    BY <2>1, <2>2, <2>3, TwoPlaces
  <2> QED
    BY <2>1, <2>3, <2>4, <1>2, <1>3, AwayType DEF Paid
<1>5. \E s \in Ways(p, col, t) : Fault(p, col, t, s) = 0
  <2>1. k \in Int /\ k >= 0 /\ k <= 9 /\ (p # "I" => k <= 8)
    <3>1. CASE p = "I"
      BY <3>1, WallsOfI DEF positionDelta
    <3>2. CASE p # "I"
      BY <3>2, <1>1, WallsOfOthers DEF positionDelta
    <3> QED
      BY <3>1, <3>2
  <2> DEFINE left  == k - positionDelta(p, 1)
             right == k - positionDelta(p, 3)
  <2>2. left \in Int /\ right \in Int /\ right = left + 1 /\ (t = 1 => col = left) /\ (t = 3 => col = right)
    BY <2>1 DEF positionDelta
  <2>3. Rest(p, left, 1) = Rest(p, right, 3)
    BY <2>2, Twins
  <2>4. Rest(p, left, 1) = Rest(p, col, t) /\ Rest(p, right, 3) = Rest(p, col, t)
    BY <2>2, <2>3
  <2>5. Comes(p, left, 1, least) \/ Comes(p, right, 3, least)
    <3> HIDE DEF k
    <3> QED
      BY <2>1, <1>2, NearerWay
  <2>6. /\ rotation(p, t) \in Nat /\ Quarters(1) <= rotation(p, t) /\ Quarters(3) <= rotation(p, t)
        /\ movement(p, t)[positionDelta(p, t) + col + 1] \in Nat
        /\ least <= movement(p, t)[positionDelta(p, t) + col + 1]
    BY <1>2, <1>3
  <2> HIDE DEF left, right, least
  <2>7. CASE Comes(p, left, 1, least)
    BY <2>2, <2>4, <2>6, <2>7, <1>1, <1>3, FreeWay, Zenon
  <2>8. CASE Comes(p, right, 3, least)
    BY <2>2, <2>4, <2>6, <2>8, <1>1, <1>3, FreeWay, Zenon
  <2> QED
    BY <2>5, <2>7, <2>8
<1>6. \A s \in Ways(p, col, t) :
         s.rotations + s.presses >= fsMinimalFinesseCount(p, col, t).rotations
                                      + fsMinimalFinesseCount(p, col, t).presses
  BY <1>2, <1>3, <1>4, CountOf
<1> QED
  BY <1>3, <1>5, <1>6 DEF ExactAt

\* In SRS, for every piece but O and every place but J's and L's upside down,
\* no way of presses is shorter than the tables of finesse.c say, and some way
\* is charged no fault.
THEOREM TablesAreExact == Spec => []FinesseExact
<1>1. ASSUME NEW p \in PieceType, NEW t \in Theta, p # "O", ~(p \in {"J", "L"} /\ t = 2)
      PROVE  Exact(p, t)
  <2>1. \A col \in Int : Inside(p, col, t) => ExactAt(p, col, t)
    <3>1. p \in {"J", "L", "T"} \/ p \in {"I", "S", "Z"}
      BY <1>1 DEF PieceType
    <3>2. CASE p \in {"J", "L", "T"}
      BY <3>2, <1>1, ExactJLT
    <3>3. CASE p \in {"I", "S", "Z"} /\ t \in {0, 2}
      BY <3>3, ExactFlat
    <3>4. CASE p \in {"I", "S", "Z"} /\ t \in {1, 3}
      BY <3>4, ExactOnEnd
    <3> QED
      BY <3>1, <3>2, <3>3, <3>4, Turns
  <2>2. \A col \in {c \in -3..9 : Inside(p, c, t)} : ExactAt(p, col, t)
    BY <2>1
  <2> QED
    BY <2>2, Zenon DEF Exact, ExactAt
<1>2. AtHome => FinesseExact
  BY <1>1 DEF AtHome, FinesseExact
<1> QED
  BY <1>2, Walks, PTL

=============================================================================
