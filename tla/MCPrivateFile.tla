---------------------------- MODULE MCPrivateFile ----------------------------
(***************************************************************************)
(* PrivateFile for TLC: two calls that overlap, each with a name to draw.  *)
(* Names are interchangeable.                                              *)
(***************************************************************************)
EXTENDS PrivateFile, TLC

CONSTANTS c1, c2, n1, n2

MCCalls == {c1, c2}
MCNames == {n1, n2}
NameSymmetry == Permutations(MCNames)
=============================================================================
