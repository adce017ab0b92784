------------------------------ MODULE MCMounts ------------------------------
(***************************************************************************)
(* Mounts for TLC: two processes, one mount point, one other program.      *)
(***************************************************************************)
EXTENDS Mounts

CONSTANTS home, other

MCProc == {1, 2}
OneProc == {1}
MCPoint == {home}
MCAlien == {other}

Fuse(share) == [kind |-> "fuse", at |-> home, share |-> share, spelled |-> "canonical", mine |-> TRUE]
Dav == [Fuse(FALSE) EXCEPT !.kind = "webdav"]
MCArgs == {Fuse(TRUE), Fuse(FALSE), Dav}

\* The two processes are alike, so of two beginnings that differ in their names
\* only one is explored: the order of the arguments is that of MCArgs.
InOrder ==
  /\ arg[1] = Dav => arg[2] = Dav
  /\ arg[2] = Fuse(TRUE) => arg[1] = Fuse(TRUE)
MCMountsInit == MountsInit /\ InOrder
MCMountsSpec == MCMountsInit /\ [][MountsNext]_mountsVars /\ MountsFairness
=============================================================================
