---------------------------- MODULE MCRandomizer ----------------------------
(***************************************************************************)
(* Instances of Randomizer for TLC.                                        *)
(***************************************************************************)
EXTENDS Randomizer

Bag(copies, length, seam) == [copies |-> copies, length |-> length, seam |-> seam]
\* BAG7, BAG7_SEAM_CHECK, BAG6 and MULTI_BAG2, with NPT pieces in place of seven.
Bags   == {Bag(1, NPT, FALSE), Bag(1, NPT, TRUE), Bag(1, NPT - 1, FALSE), Bag(2, 2 * NPT, FALSE)}
OneBag == {Bag(1, NPT, FALSE)}

Ring(a, b, c, d) == [i \in 0..3 |-> <<a, b, c, d>>[i + 1]]
Histories == [TGM1 |-> Ring("Z", "Z", "Z", "Z"), TGM2 |-> Ring("Z", "S", "S", "Z"),
              TGM3 |-> Ring("S", "Z", "S", "Z")]
RollTable == [TGM1 |-> 4, TGM2 |-> 6, TGM3 |-> 6]
AllOrder  == <<"J", "I", "Z", "L", "O", "T", "S">>
FewOrder  == <<"J", "I", "Z", "S">>
=============================================================================
