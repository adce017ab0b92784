----------------------------- MODULE MCRaidPool -----------------------------
(***************************************************************************)
(* RaidPool for TLC: three locations, one object, sets of up to four       *)
(* members (a location may be added twice).                                *)
(***************************************************************************)
EXTENDS RaidPool, TLC

CONSTANTS A, B, C, D, o1, p1, p2, k1, k2

Locs2 == {A, B}
Locs3 == {A, B, C}
Locs4 == {A, B, C, D}
Objects1 == {o1}
OneProc == {p1}
TwoProcs == {p1, p2}
Keys1 == {k1}
Keys2 == {k1, k2}
MirrorOnly == {Mirror}
Symmetry == Permutations(Locs3) \cup Permutations(Keys2)
AllModes == {Mirror, Erasure(1, 1)}
=============================================================================
