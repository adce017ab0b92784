--------------------------- MODULE MCVaultAccess ---------------------------
(***************************************************************************)
(* VaultAccess for TLC: two commands, one of which has a terminal, with    *)
(* one vault or two, two passwords and two hardware keys.                  *)
(***************************************************************************)
EXTENDS VaultAccess, TLC

CONSTANTS p1, p2, l1, l2, w1, w2, s1, s2

MCProc == {p1, p2}
MCTerminals == {p1}
MCLocation == {l1}
MCLocation2 == {l1, l2}
MCPassword == {w1, w2}
MCSecret == {s1, s2}

\* Passwords, responses and places are interchangeable.
Interchangeable ==
  Permutations(MCPassword) \cup Permutations(MCSecret) \cup Permutations(MCLocation2)
Alike == Permutations(MCPassword) \cup Permutations(MCSecret)
=============================================================================
