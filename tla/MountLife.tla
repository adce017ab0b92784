----------------------------- MODULE MountLife -----------------------------
(***************************************************************************)
(* What the processes of `axiom mount fuse` and `axiom mount webdav` look  *)
(* like from outside: they start, serve (a mounted file system, a          *)
(* listening socket) and are gone, and the kernel's mount table holds what *)
(* they and other programs have mounted, each mount until somebody         *)
(* unmounts it.  Mounts implements this; MountList observes it.            *)
(***************************************************************************)
EXTENDS Naturals, Sequences, SequencesExt

CONSTANTS
  Proc,     \* process ids
  Alien,    \* FUSE mounts of other programs
  Point,    \* directories to mount on
  Args      \* the command lines in use

Kind == {"fuse", "webdav"}

\* How the mount point is written on the command line: as the kernel will
\* print it, relative to the working directory, or some other way that the
\* kernel normalises (a trailing slash, a symbolic link, "..").
Spelling == {"canonical", "relative", "odd"}

\* `share` is --allow-other; `mine` says whose process it is.
Argument == [kind : Kind, at : Point, share : BOOLEAN, spelled : Spelling, mine : BOOLEAN]

ASSUME MountsAssumption ==
  /\ Proc \subseteq Nat \ {0}
  /\ Alien \cap Proc = {}
  /\ Args \subseteq Argument

VARIABLES
  state,  \* where each process is in its life
  arg,    \* its arguments
  table   \* the mount table, in the kernel's order

lifeVars == <<state, arg, table>>

Mounting == [by : Proc \cup Alien, at : Point]

LifeTypeOK ==
  /\ state \in [Proc -> {"idle", "starting", "serving", "gone"}]
  /\ arg \in [Proc -> Args]
  /\ table \in Seq(Mounting)

\* Some entry of the table is by x.
In(t, x) == \E i \in 1..Len(t) : t[i].by = x

LifeInit ==
  /\ state = [p \in Proc |-> "idle"]
  /\ arg \in [Proc -> Args]
  /\ table = <<>>

Start(p) ==
  /\ state[p] = "idle"
  /\ state' = [state EXCEPT ![p] = "starting"]
  /\ UNCHANGED <<arg, table>>

Serve(p) ==
  /\ state[p] = "starting"
  /\ state' = [state EXCEPT ![p] = "serving"]
  /\ table' = IF arg[p].kind = "fuse" THEN Append(table, [by |-> p, at |-> arg[p].at]) ELSE table
  /\ UNCHANGED arg

TakeAway == \E i \in 1..Len(table) : table' = RemoveAt(table, i)

\* The process ends, with or without an unmount of its own.
End(p) ==
  /\ state[p] \in {"starting", "serving"}
  /\ state' = [state EXCEPT ![p] = "gone"]
  /\ UNCHANGED table \/ TakeAway
  /\ UNCHANGED arg

Unmounted ==
  /\ TakeAway
  /\ UNCHANGED <<state, arg>>

AlienMounted(x, at) ==
  /\ ~In(table, x)
  /\ table' = Append(table, [by |-> x, at |-> at])
  /\ UNCHANGED <<state, arg>>

LifeNext ==
  \/ \E p \in Proc : Start(p) \/ Serve(p) \/ End(p)
  \/ Unmounted
  \/ \E x \in Alien, at \in Point : AlienMounted(x, at)

LifeSpec == LifeInit /\ [][LifeNext]_lifeVars
=============================================================================
