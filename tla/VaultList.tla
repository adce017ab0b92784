----------------------------- MODULE VaultList -----------------------------
(***************************************************************************)
(* `axiom vault list` (vault_list.rs): the walk through the directories    *)
(* below each root and the reading of every vault.config it finds, while   *)
(* other programs change the tree.                                         *)
(*                                                                         *)
(* A path is the sequence of the numbers its names sort by.  The recursion *)
(* of `walk` is a stack of directories still to visit.  Behind a link lies *)
(* what the tree holds below the link's path.  Directories are readable.   *)
(***************************************************************************)
EXTENDS Naturals, FiniteSets, SequencesExt

CONSTANTS
  Path,        \* paths, closed under prefixes
  Trees,       \* trees there can be at the start
  Nodes,       \* what can be put at a path
  RootLists,   \* the roots a command can be given
  MaxDepth,    \* its --depth
  MaxChanges   \* bound: changes by other programs

NodeKind == {"none", "dir", "link"}
\* vault.config: a vault's, unreadable as one (or too long), a link to a vault's,
\* a pipe.
ConfigKind == {"none", "good", "bad", "link", "fifo"}
Node == [kind : NodeKind, dev : {1, 2}, config : ConfigKind]

ASSUME VaultListAssumption ==
  /\ IsFiniteSet(Path) /\ Path \subseteq Seq(Nat) /\ <<>> \in Path
  /\ \A p \in Path : \A i \in 0..Len(p) : SubSeq(p, 1, i) \in Path
  /\ Trees \subseteq [Path -> Node] /\ Nodes \subseteq Node
  /\ RootLists \subseteq Seq(Path)
  /\ MaxDepth \in Nat /\ MaxChanges \in Nat

VARIABLES
  tree,      \* what is at each path
  place,     \* where the command is
  roots,     \* the roots it still has to do, the current one first
  rootDev,   \* the file system of the current root
  stack,     \* directories still to visit, the next one first
  look,      \* entries of the directory being read
  kids,      \* those of them to visit
  found,     \* vaults found below the current root
  unread,    \* those whose rows are still to be made
  vaultRows, \* the rows
  changes,   \* how often others changed the tree
  always,    \* history: what held of the tree from the start until now
  sometime   \* history: what held of it at some time

reading == <<tree, changes, always, sometime>>
walkVars == <<tree, place, roots, rootDev, stack, look, kids, found, unread, vaultRows, changes,
              always, sometime>>

Parent(p) == Front(p)
Children(p) == {c \in Path : c # <<>> /\ Parent(c) = p}

\* A path can be used: everything on the way is a directory or a link to one.
\* (In the tree t.)
UsableIn(t, p) == \A i \in 0..Len(p) : t[SubSeq(p, 1, i)].kind \in {"dir", "link"}
Usable(p) == UsableIn(tree, p)
\* lstat finds an entry at p.
EntryIn(t, p) == t[p].kind # "none" /\ (p = <<>> \/ UsableIn(t, Parent(p)))

\* What is true of a tree: real directories, vault.config files, their absence.
Facts(t) ==
  {<<"dir", p, t[p].dev>> : p \in {q \in Path : EntryIn(t, q) /\ t[q].kind = "dir"}}
  \cup {<<"config", p, t[p].config>> : p \in {q \in Path : UsableIn(t, q)}}

HasConfig(p) == Usable(p) /\ tree[p].config # "none"

WalkTypeOK ==
  /\ tree \in [Path -> Node]
  /\ place \in {"root", "enter", "check", "list", "stat", "read", "open", "done", "failed", "blocked"}
  /\ roots \in Seq(Path)
  /\ rootDev \in {1, 2}
  /\ stack \in Seq(Path)
  /\ \A i, j \in DOMAIN stack : i # j => ~IsPrefix(stack[i], stack[j])
  /\ look \subseteq Path /\ kids \subseteq Path
  /\ found \in Seq(Path) /\ unread \in Seq(Path)
  /\ vaultRows \in Seq([dir : Path, ok : BOOLEAN])
  /\ changes \in 0..MaxChanges

WalkInit ==
  /\ tree \in Trees
  /\ place = "root" /\ roots \in RootLists /\ rootDev = 1
  /\ stack = <<>> /\ look = {} /\ kids = {} /\ found = <<>> /\ unread = <<>> /\ vaultRows = <<>>
  /\ changes = 0
  /\ always = Facts(tree) /\ sometime = Facts(tree)

-----------------------------------------------------------------------------
(* The command. *)

\* canonicalize: a root that is not there fails the command.  A root behind a
\* link is another tree, which is left out.
Canonicalize ==
  /\ place = "root" /\ roots # <<>>
  /\ IF ~Usable(Head(roots))
     THEN place' = "failed" /\ UNCHANGED roots
     ELSE IF \E i \in 0..Len(Head(roots)) : tree[SubSeq(Head(roots), 1, i)].kind = "link"
     THEN roots' = Tail(roots) /\ UNCHANGED place
     ELSE place' = "enter" /\ UNCHANGED roots
  /\ UNCHANGED <<reading, rootDev, stack, look, kids, found, unread, vaultRows>>

\* scan_root: the walk begins at the root.
Enter ==
  LET r == Head(roots)
  IN  /\ place = "enter"
      /\ IF EntryIn(tree, r)
         THEN rootDev' = tree[r].dev /\ stack' = <<r>>
         ELSE UNCHANGED rootDev /\ stack' = <<>>
      /\ place' = "check"
      /\ UNCHANGED <<reading, roots, look, kids, found, unread, vaultRows>>

Depth(d) == Len(d) - Len(Head(roots))

\* Mutant: the first vault ends the walk.
CheckFirst ==
  LET d == Head(stack)
  IN  /\ place = "check" /\ stack # <<>>
      /\ IF HasConfig(d)
         THEN found' = Append(found, d) /\ stack' = <<>> /\ UNCHANGED place
         ELSE /\ UNCHANGED found
              /\ IF Depth(d) >= MaxDepth
                 THEN stack' = Tail(stack) /\ UNCHANGED place
                 ELSE place' = "list" /\ UNCHANGED stack
      /\ UNCHANGED <<reading, roots, rootDev, look, kids, unread, vaultRows>>

\* walk: a directory with a vault.config is a vault and is not descended into.
Check ==
  LET d == Head(stack)
  IN  /\ place = "check" /\ stack # <<>>
      /\ IF HasConfig(d)
         THEN found' = Append(found, d) /\ stack' = Tail(stack) /\ UNCHANGED place
         ELSE /\ UNCHANGED found
              /\ IF Depth(d) >= MaxDepth
                 THEN stack' = Tail(stack) /\ UNCHANGED place
                 ELSE place' = "list" /\ UNCHANGED stack
      /\ UNCHANGED <<reading, roots, rootDev, look, kids, unread, vaultRows>>

\* read_dir: the names there are.
List ==
  LET d == Head(stack)
  IN  /\ place = "list"
      /\ IF Usable(d)
         THEN /\ look' = {c \in Children(d) : tree[c].kind # "none"}
              /\ place' = "stat"
              /\ UNCHANGED stack
         ELSE /\ stack' = Tail(stack)
              /\ place' = "check"
              /\ UNCHANGED look
      /\ UNCHANGED <<reading, roots, rootDev, kids, found, unread, vaultRows>>

\* Mutant: the entry is looked at through links.
StatFollows(c) ==
  /\ place = "stat" /\ c \in look
  /\ look' = look \ {c}
  /\ kids' = IF EntryIn(tree, c) /\ tree[c].dev = rootDev THEN kids \cup {c} ELSE kids
  /\ UNCHANGED <<reading, place, roots, rootDev, stack, found, unread, vaultRows>>

\* lstat: only a real directory on the root's file system is kept.
Stat(c) ==
  /\ place = "stat" /\ c \in look
  /\ look' = look \ {c}
  /\ kids' = IF EntryIn(tree, c) /\ tree[c].kind = "dir" /\ tree[c].dev = rootDev
             THEN kids \cup {c} ELSE kids
  /\ UNCHANGED <<reading, place, roots, rootDev, stack, found, unread, vaultRows>>

\* The children, sorted by name.
Sortings(S) ==
  {s \in [1..Cardinality(S) -> S] :
     /\ S = {s[i] : i \in 1..Cardinality(S)}
     /\ \A i, j \in 1..Cardinality(S) : i < j => Last(s[i]) < Last(s[j])}

\* The children are visited in order, and before what is left above them.
Push ==
  /\ place = "stat" /\ look = {}
  /\ \E s \in Sortings(kids) : stack' = s \o Tail(stack)
  /\ place' = "check"
  /\ kids' = {}
  /\ UNCHANGED <<reading, roots, rootDev, look, found, unread, vaultRows>>

Walked ==
  /\ place = "check" /\ stack = <<>>
  /\ place' = "read"
  /\ unread' = found
  /\ UNCHANGED <<reading, roots, rootDev, stack, look, kids, found, vaultRows>>

Report(ok) ==
  /\ vaultRows' = Append(vaultRows, [dir |-> Head(unread), ok |-> ok])
  /\ unread' = Tail(unread)
  /\ place' = "read"

\* read_header: a vault.config that is not a regular file is an error row.
LstatConfig ==
  /\ place = "read" /\ unread # <<>>
  /\ IF HasConfig(Head(unread)) /\ tree[Head(unread)].config \in {"good", "bad"}
     THEN place' = "open" /\ UNCHANGED <<vaultRows, unread>>
     ELSE Report(FALSE)
  /\ UNCHANGED <<reading, roots, rootDev, stack, look, kids, found>>

\* Mutant: what was read is not checked.
OpenConfigUnchecked ==
  /\ place = "open"
  /\ LET d == Head(unread)
     IN  IF HasConfig(d) /\ tree[d].config = "fifo"
         THEN place' = "blocked" /\ UNCHANGED <<vaultRows, unread>>
         ELSE Report(HasConfig(d))
  /\ UNCHANGED <<reading, roots, rootDev, stack, look, kids, found>>

\* The file there is now is opened, read to its limit and parsed; a pipe blocks.
OpenConfig ==
  /\ place = "open"
  /\ LET d == Head(unread)
     IN  IF HasConfig(d) /\ tree[d].config = "fifo"
         THEN place' = "blocked" /\ UNCHANGED <<vaultRows, unread>>
         ELSE Report(HasConfig(d) /\ tree[d].config \in {"good", "link"})
  /\ UNCHANGED <<reading, roots, rootDev, stack, look, kids, found>>

RootDone ==
  /\ place = "read" /\ unread = <<>>
  /\ roots' = Tail(roots)
  /\ found' = <<>>
  /\ place' = "root"
  /\ UNCHANGED <<reading, rootDev, stack, look, kids, unread, vaultRows>>

PrintRows ==
  /\ place = "root" /\ roots = <<>>
  /\ place' = "done"
  /\ UNCHANGED <<reading, roots, rootDev, stack, look, kids, found, unread, vaultRows>>

\* Another program puts something else at a path.
Change(p, n) ==
  /\ changes < MaxChanges
  /\ place \notin {"done", "failed", "blocked"}
  /\ tree' = [tree EXCEPT ![p] = n]
  /\ tree' # tree
  /\ changes' = changes + 1
  /\ always' = always \cap Facts(tree')
  /\ sometime' = sometime \cup Facts(tree')
  /\ UNCHANGED <<place, roots, rootDev, stack, look, kids, found, unread, vaultRows>>

WalkNext ==
  \/ Canonicalize \/ Enter \/ Check \/ List \/ Push \/ Walked
  \/ \E c \in Path : Stat(c)
  \/ LstatConfig \/ OpenConfig \/ RootDone \/ PrintRows
  \/ \E p \in Path \ {<<>>}, n \in Nodes : Change(p, n)

WalkSpec == WalkInit /\ [][WalkNext]_walkVars

-----------------------------------------------------------------------------
(* Properties. *)

\* a comes before b in a depth-first walk with sorted children, and not above it.
Precedes(a, b) ==
  \E i \in 1..Len(a) : /\ i <= Len(b)
                       /\ SubSeq(a, 1, i - 1) = SubSeq(b, 1, i - 1)
                       /\ a[i] < b[i]

\* However the tree changes under the walk, what it finds lies at most MaxDepth
\* levels below the root, comes in order, and no vault is listed inside another.
FoundInBounds ==
  /\ \A i \in DOMAIN found : IsPrefix(Head(roots), found[i]) /\ Depth(found[i]) <= MaxDepth
  /\ \A i, j \in DOMAIN found : i < j => Precedes(found[i], found[j])

\* The directories below the current root on the way to p, p included.
Way(p) == {SubSeq(p, 1, i) : i \in Len(Head(roots)) + 1..Len(p)}

Configured(p, facts) == \E c \in ConfigKind \ {"none"} : <<"config", p, c>> \in facts

\* A vault that was there the whole time, on real directories of the root's file
\* system, within the depth and not inside another.
Standing(p) ==
  /\ IsPrefix(Head(roots), p) /\ Depth(p) <= MaxDepth
  /\ Configured(p, always)
  /\ \A q \in Way(p) : <<"dir", q, rootDev>> \in always
  /\ \A q \in (Way(p) \cup {Head(roots)}) \ {p} : <<"config", q, "none">> \in always

\* Such a vault is found, whatever else changes around it.
StandingFound ==
  place = "read" => \A p \in Path : Standing(p) => \E i \in DOMAIN found : found[i] = p

\* What is found was reached over directories that at some time were real ones of
\* the root's file system: a link or a mount that stood there is not entered.
FoundOverDirs ==
  \A i \in DOMAIN found :
    /\ \A q \in Way(found[i]) : <<"dir", q, rootDev>> \in sometime
    /\ Configured(found[i], sometime)

\* The walk keeps within what it was given: the depth, the order, one vault of a
\* branch, and the file system of the root.
FoundInReach == FoundInBounds /\ FoundOverDirs

\* A row tells what its file was, also when it was exchanged between lstat and
\* open: "ok" if it was a vault's the whole time, an error if it was a link the
\* whole time or never led to a vault's.
RowsTrue ==
  \A i \in DOMAIN vaultRows :
    LET Was(c) == <<"config", vaultRows[i].dir, c>>
    IN  /\ Was("good") \in always => vaultRows[i].ok
        /\ Was("link") \in always => ~vaultRows[i].ok
        /\ vaultRows[i].ok => {Was("good"), Was("link")} \cap sometime # {}

\* The command never opens a pipe that stood there, which would block it for
\* good; only one that was put there after it had looked.
BlockedBySwapOnly ==
  place = "blocked" => <<"config", Head(unread), "fifo">> \in sometime \ always
=============================================================================
