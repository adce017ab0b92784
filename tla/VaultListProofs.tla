-------------------------- MODULE VaultListProofs --------------------------
(***************************************************************************)
(* Theorems about VaultList, for any tree, roots, depth and changes.       *)
(*                                                                         *)
(* The stack carries the walk: what is found and what is still to visit    *)
(* lie one behind the other in the order of the walk (InOrder), were       *)
(* reached over real directories (Ways), and every vault that stands is    *)
(* found or below something still to visit (Covered).                      *)
(***************************************************************************)
EXTENDS VaultList, FiniteSetTheorems, SequenceTheorems, TLAPS

Root == Head(roots)
Below(p) == IsPrefix(Root, p) /\ Depth(p) <= MaxDepth
OverDirs(p) == \A q \in Way(p) : <<"dir", q, rootDev>> \in sometime
InFound(p) == \E i \in DOMAIN found : found[i] = p

\* What goes with each place of the command.
Routed ==
  /\ place \notin {"root", "done", "failed"} => roots # <<>>
  /\ place \notin {"check", "list", "stat"} => stack = <<>>
  /\ place \in {"list", "stat"} => stack # <<>> /\ Depth(Head(stack)) < MaxDepth
  /\ look \cup kids # {} => place = "stat"
  /\ \A c \in look \cup kids : c \in Children(Head(stack))
  /\ place \in {"root", "enter", "done", "failed"} => found = <<>>
  /\ place \in {"open", "blocked"} => unread # <<>>

Remembered == always \subseteq Facts(tree) /\ Facts(tree) \subseteq sometime

InOrder ==
  /\ \A i \in DOMAIN stack : Below(stack[i])
  /\ \A i, j \in DOMAIN stack : i < j => Precedes(stack[i], stack[j])
  /\ \A i \in DOMAIN found, j \in DOMAIN stack : Precedes(found[i], stack[j])

Ways ==
  /\ \A i \in DOMAIN stack : OverDirs(stack[i])
  /\ \A c \in kids : OverDirs(c)

\* The next directory on the way from d to p.
Toward(d, p) == SubSeq(p, 1, Len(d) + 1)

\* The i-th directory to visit is above p, in the way the walk needs.
Leads(i, p) ==
  /\ IsPrefix(stack[i], p)
  /\ i = 1 /\ place \in {"list", "stat"} => p # stack[1]
  /\ i = 1 /\ place = "stat" => Toward(stack[1], p) \in look \cup kids

Covered ==
  /\ place \in {"check", "list", "stat"} =>
       \A p \in Path : Standing(p) => InFound(p) \/ \E i \in DOMAIN stack : Leads(i, p)
  /\ place \in {"read", "open"} => \A p \in Path : Standing(p) => InFound(p)

\* What was opened did not stand there as a link or a pipe.
Opened ==
  place = "open" =>
    /\ <<"config", Head(unread), "link">> \notin always
    /\ <<"config", Head(unread), "fifo">> \notin always

\* The types, without what InOrder says of the stack.
Types ==
  /\ tree \in [Path -> Node]
  /\ place \in {"root", "enter", "check", "list", "stat", "read", "open", "done", "failed", "blocked"}
  /\ roots \in Seq(Path)
  /\ rootDev \in {1, 2}
  /\ stack \in Seq(Path)
  /\ look \subseteq Path /\ kids \subseteq Path
  /\ found \in Seq(Path) /\ unread \in Seq(Path)
  /\ vaultRows \in Seq([dir : Path, ok : BOOLEAN])
  /\ changes \in 0..MaxChanges

WInv ==
  /\ Types /\ Routed /\ Remembered
  /\ InOrder /\ FoundInBounds
  /\ Ways /\ FoundOverDirs
  /\ Covered
  /\ Opened /\ RowsTrue /\ BlockedBySwapOnly

-----------------------------------------------------------------------------
(* Paths. *)

LEMMA PathSeq ==
  ASSUME NEW p \in Path
  PROVE  p \in Seq(Nat) /\ Len(p) \in Nat /\ \A i \in 1..Len(p) : p[i] \in Nat
  BY VaultListAssumption

LEMMA PrefixPath ==
  ASSUME NEW p \in Path, NEW i \in 0..Len(p)
  PROVE  /\ SubSeq(p, 1, i) \in Path /\ Len(SubSeq(p, 1, i)) = i
         /\ \A k \in 1..i : SubSeq(p, 1, i)[k] = p[k]
  BY VaultListAssumption, PathSeq

\* Beginnings with the same cells are the same.
LEMMA SameBeginning ==
  ASSUME NEW a \in Seq(Nat), NEW b \in Seq(Nat), NEW i \in Nat, i <= Len(a), i <= Len(b),
         \A k \in 1..i : a[k] = b[k]
  PROVE  SubSeq(a, 1, i) = SubSeq(b, 1, i)
  <1>1. /\ SubSeq(a, 1, i) \in Seq(Nat) /\ Len(SubSeq(a, 1, i)) = i
        /\ SubSeq(b, 1, i) \in Seq(Nat) /\ Len(SubSeq(b, 1, i)) = i
    OBVIOUS
  <1>2. \A k \in 1..i : SubSeq(a, 1, i)[k] = a[k] /\ SubSeq(b, 1, i)[k] = b[k]
    BY SMTT(30)
  <1> QED BY <1>1, <1>2

\* Prefixes, cell by cell.
LEMMA PrefixCells ==
  ASSUME NEW a \in Seq(Nat), NEW b \in Seq(Nat)
  PROVE  IsPrefix(a, b) <=> Len(a) <= Len(b) /\ \A i \in 1..Len(a) : a[i] = b[i]
  <1>1. ASSUME Len(a) <= Len(b), \A i \in 1..Len(a) : a[i] = b[i]
        PROVE  SubSeq(a, 1, Len(a)) = SubSeq(b, 1, Len(a))
    BY <1>1
  <1>2. ASSUME Len(a) <= Len(b), SubSeq(a, 1, Len(a)) = SubSeq(b, 1, Len(a)), NEW i \in 1..Len(a)
        PROVE  a[i] = b[i]
    <2>1. SubSeq(a, 1, Len(a))[i] = a[i] /\ SubSeq(b, 1, Len(a))[i] = b[i]
      BY <1>2
    <2> QED BY <1>2, <2>1
  <1> QED BY <1>1, <1>2 DEF IsPrefix

\* The order of the walk, cell by cell.
LEMMA PrecedesCells ==
  ASSUME NEW a \in Seq(Nat), NEW b \in Seq(Nat)
  PROVE  Precedes(a, b) <=>
           \E i \in 1..Len(a) : /\ i <= Len(b) /\ a[i] < b[i]
                                /\ \A k \in 1..i - 1 : a[k] = b[k]
  <1>1. ASSUME NEW i \in 1..Len(a), i <= Len(b)
        PROVE  SubSeq(a, 1, i - 1) = SubSeq(b, 1, i - 1) <=> \A k \in 1..i - 1 : a[k] = b[k]
    <2>1. /\ SubSeq(a, 1, i - 1) \in Seq(Nat) /\ Len(SubSeq(a, 1, i - 1)) = i - 1
          /\ SubSeq(b, 1, i - 1) \in Seq(Nat) /\ Len(SubSeq(b, 1, i - 1)) = i - 1
      BY <1>1
    <2>2. \A k \in 1..i - 1 : SubSeq(a, 1, i - 1)[k] = a[k] /\ SubSeq(b, 1, i - 1)[k] = b[k]
      BY <1>1
    <2> QED BY <2>1, <2>2
  <1> QED BY <1>1 DEF Precedes

\* A child of d is d and one cell more.
LEMMA ChildCells ==
  ASSUME NEW d \in Path, NEW c \in Children(d)
  PROVE  /\ c \in Path /\ Len(c) = Len(d) + 1
         /\ \A i \in 1..Len(d) : c[i] = d[i]
         /\ Last(c) = c[Len(c)]
  <1>1. c \in Path /\ c # <<>> /\ SubSeq(c, 1, Len(c) - 1) = d
    BY DEF Children, Parent, Front
  <1>2. Len(c) \in Nat \ {0}
    BY <1>1, PathSeq
  <1>3. Len(SubSeq(c, 1, Len(c) - 1)) = Len(c) - 1 /\ \A i \in 1..Len(c) - 1 : SubSeq(c, 1, Len(c) - 1)[i] = c[i]
    <2>1. Len(c) - 1 \in 0..Len(c)
      BY <1>2
    <2> QED BY <1>1, <2>1, PrefixPath
  <1> QED BY <1>1, <1>2, <1>3 DEF Last

\* The next directory on the way is a child.
LEMMA TowardChild ==
  ASSUME NEW d \in Path, NEW p \in Path, IsPrefix(d, p), d # p
  PROVE  /\ Toward(d, p) \in Children(d) /\ IsPrefix(Toward(d, p), p)
         /\ Len(p) > Len(d) /\ Len(Toward(d, p)) = Len(d) + 1
  <1>1. d \in Seq(Nat) /\ p \in Seq(Nat) /\ Len(d) <= Len(p) /\ \A i \in 1..Len(d) : d[i] = p[i]
    BY PathSeq, PrefixCells
  <1>2. Len(p) > Len(d)
    BY <1>1, SMTT(30)
  <1> DEFINE c == SubSeq(p, 1, Len(d) + 1)
  <1>3. c \in Path /\ Len(c) = Len(d) + 1 /\ \A k \in 1..Len(d) + 1 : c[k] = p[k]
    <2>1. Len(d) + 1 \in 0..Len(p)
      BY <1>1, <1>2
    <2> QED BY <2>1, PrefixPath
  <1> HIDE DEF c
  <1>4. c \in Seq(Nat) /\ c # <<>>
    <2>1. c \in Seq(Nat) /\ Len(d) \in Nat
      BY <1>3, <1>1, PathSeq
    <2> QED BY <2>1, <1>3
  <1>5. Len(c) - 1 = Len(d)
    BY <1>3, <1>1
  <1>6. SubSeq(c, 1, Len(c) - 1) = d
    <2>1. Len(d) \in Nat /\ Len(d) <= Len(c) /\ \A k \in 1..Len(d) : c[k] = d[k]
      BY <1>1, <1>3
    <2>2. SubSeq(c, 1, Len(d)) = SubSeq(d, 1, Len(d))
      BY <1>1, <1>4, <2>1, SameBeginning
    <2>3. SubSeq(d, 1, Len(d)) = d
      BY <1>1
    <2> QED BY <1>5, <2>2, <2>3
  <1>7. IsPrefix(c, p)
    BY <1>1, <1>2, <1>3, <1>4, PrefixCells, SMTT(30)
  <1> QED BY <1>2, <1>3, <1>4, <1>6, <1>7 DEF c, Toward, Children, Parent, Front

LEMMA PrefixOfSelf ==
  ASSUME NEW p \in Path PROVE IsPrefix(p, p)
  BY PathSeq, PrefixCells

LEMMA PrefixTransitive ==
  ASSUME NEW a \in Path, NEW b \in Path, NEW c \in Path, IsPrefix(a, b), IsPrefix(b, c)
  PROVE  IsPrefix(a, c)
  BY PathSeq, PrefixCells

\* A path behind d and one before it are so for its children, too.
LEMMA ChildOrder ==
  ASSUME NEW d \in Path, NEW c \in Children(d), NEW b \in Path
  PROVE  /\ Precedes(d, b) => Precedes(c, b)
         /\ Precedes(b, d) => Precedes(b, c)
  <1>1. /\ b \in Seq(Nat) /\ c \in Seq(Nat) /\ d \in Seq(Nat)
        /\ Len(b) \in Nat /\ Len(d) \in Nat /\ Len(c) = Len(d) + 1
    BY ChildCells, PathSeq
  <1>2. \A k \in 1..Len(d) : c[k] = d[k]
    BY ChildCells
  <1>3. ASSUME Precedes(d, b) PROVE Precedes(c, b)
    <2>1. PICK i \in 1..Len(d) : i <= Len(b) /\ d[i] < b[i] /\ \A k \in 1..i - 1 : d[k] = b[k]
      BY <1>1, <1>3, PrecedesCells
    <2>2. i \in 1..Len(c) /\ c[i] < b[i] /\ \A k \in 1..i - 1 : c[k] = b[k]
      BY <1>1, <1>2, <2>1
    <2> QED BY <1>1, <2>1, <2>2, PrecedesCells
  <1>4. ASSUME Precedes(b, d) PROVE Precedes(b, c)
    <2>1. PICK i \in 1..Len(b) : i <= Len(d) /\ b[i] < d[i] /\ \A k \in 1..i - 1 : b[k] = d[k]
      BY <1>1, <1>4, PrecedesCells
    <2>2. i <= Len(c) /\ b[i] < c[i] /\ \A k \in 1..i - 1 : b[k] = c[k]
      BY <1>1, <1>2, <2>1
    <2> QED BY <1>1, <2>1, <2>2, PrecedesCells
  <1> QED BY <1>3, <1>4

LEMMA SiblingOrder ==
  ASSUME NEW d \in Path, NEW a \in Children(d), NEW b \in Children(d), Last(a) < Last(b)
  PROVE  Precedes(a, b)
  <1>1. /\ a \in Seq(Nat) /\ b \in Seq(Nat) /\ Len(a) = Len(d) + 1 /\ Len(b) = Len(d) + 1
        /\ Len(d) \in Nat /\ a[Len(d) + 1] < b[Len(d) + 1]
        /\ \A k \in 1..Len(d) : a[k] = d[k] /\ b[k] = d[k]
    BY ChildCells, PathSeq
  <1>2. /\ Len(d) + 1 \in 1..Len(a) /\ Len(d) + 1 <= Len(b)
        /\ \A k \in 1..(Len(d) + 1) - 1 : a[k] = b[k]
    BY <1>1
  <1> QED BY <1>1, <1>2, PrecedesCells

\* Paths of which one comes before the other are not one above the other.
LEMMA OrderIsNoPrefix ==
  ASSUME NEW a \in Path, NEW b \in Path, Precedes(a, b)
  PROVE  ~IsPrefix(a, b) /\ ~IsPrefix(b, a)
  <1>1. a \in Seq(Nat) /\ b \in Seq(Nat)
    BY PathSeq
  <1>2. PICK i \in 1..Len(a) : i <= Len(b) /\ a[i] < b[i]
    BY <1>1, PrecedesCells
  <1>3. i \in 1..Len(b) /\ a[i] \in Nat /\ b[i] \in Nat
    BY <1>1, <1>2
  <1>4. a[i] # b[i]
    BY <1>2, <1>3
  <1> QED BY <1>1, <1>2, <1>3, <1>4, PrefixCells

LEMMA TailPaths ==
  ASSUME NEW s \in Seq(Path), s # <<>>
  PROVE  /\ Tail(s) \in Seq(Path) /\ Len(s) \in Nat \ {0} /\ Len(Tail(s)) = Len(s) - 1
         /\ \A i \in 1..Len(s) - 1 : Tail(s)[i] = s[i + 1]
         /\ Head(s) \in Path /\ Head(s) = s[1]
  OBVIOUS

-----------------------------------------------------------------------------
(* Trees. *)

LEMMA DirFact ==
  ASSUME NEW t \in [Path -> Node], NEW p \in Path, NEW dev
  PROVE  <<"dir", p, dev>> \in Facts(t) <=> EntryIn(t, p) /\ t[p].kind = "dir" /\ t[p].dev = dev
  <1>1. <<"dir", p, dev>> \notin {<<"config", q, t[q].config>> : q \in {x \in Path : UsableIn(t, x)}}
    OBVIOUS
  <1>2. <<"dir", p, dev>> \in {<<"dir", q, t[q].dev>> : q \in {x \in Path : EntryIn(t, x) /\ t[x].kind = "dir"}}
          <=> EntryIn(t, p) /\ t[p].kind = "dir" /\ t[p].dev = dev
    OBVIOUS
  <1> QED BY <1>1, <1>2 DEF Facts

LEMMA ConfigFact ==
  ASSUME NEW t \in [Path -> Node], NEW p \in Path, NEW c
  PROVE  <<"config", p, c>> \in Facts(t) <=> UsableIn(t, p) /\ t[p].config = c
  <1>1. <<"config", p, c>> \notin {<<"dir", q, t[q].dev>> : q \in {x \in Path : EntryIn(t, x) /\ t[x].kind = "dir"}}
    OBVIOUS
  <1>2. <<"config", p, c>> \in {<<"config", q, t[q].config>> : q \in {x \in Path : UsableIn(t, x)}}
          <=> UsableIn(t, p) /\ t[p].config = c
    OBVIOUS
  <1> QED BY <1>1, <1>2 DEF Facts

\* The way to a path that can be used can be used.
LEMMA UsableAbove ==
  ASSUME NEW t \in [Path -> Node], NEW d \in Path, NEW p \in Path, IsPrefix(d, p), UsableIn(t, p)
  PROVE  UsableIn(t, d) /\ EntryIn(t, d)
  <1>1. /\ d \in Seq(Nat) /\ p \in Seq(Nat) /\ Len(d) \in Nat /\ Len(p) \in Nat /\ Len(d) <= Len(p)
        /\ \A i \in 1..Len(d) : d[i] = p[i]
    BY PathSeq, PrefixCells
  <1>2. \A i \in 0..Len(d) : SubSeq(d, 1, i) = SubSeq(p, 1, i)
    <2> TAKE i \in 0..Len(d)
    <2>1. i \in Nat /\ i <= Len(d) /\ i <= Len(p) /\ \A k \in 1..i : d[k] = p[k]
      BY <1>1
    <2> QED BY <1>1, <2>1, SameBeginning
  <1>3. UsableIn(t, d)
    <2> SUFFICES ASSUME NEW i \in 0..Len(d) PROVE t[SubSeq(d, 1, i)].kind \in {"dir", "link"}
      BY DEF UsableIn
    <2>1. i \in 0..Len(p)
      BY <1>1
    <2>2. t[SubSeq(p, 1, i)].kind \in {"dir", "link"}
      BY <2>1 DEF UsableIn
    <2>3. SubSeq(d, 1, i) = SubSeq(p, 1, i)
      BY <1>2
    <2> QED BY <2>2, <2>3
  <1>4. SubSeq(d, 1, Len(d)) = d
    BY <1>1
  <1>5. t[d].kind # "none"
    <2>1. Len(d) \in 0..Len(d)
      BY <1>1
    <2> QED BY <1>3, <1>4, <2>1 DEF UsableIn
  <1>6. ASSUME d # <<>> PROVE UsableIn(t, Parent(d))
    <2>1. Len(d) >= 1
      BY <1>1, <1>6
    <2> DEFINE f == SubSeq(d, 1, Len(d) - 1)
    <2>2. f \in Seq(Nat) /\ Len(f) = Len(d) - 1 /\ \A k \in 1..Len(d) - 1 : f[k] = d[k]
      <3>1. Len(d) - 1 \in 0..Len(d)
        BY <1>1, <2>1
      <3> QED BY <3>1, PrefixPath, PathSeq
    <2> HIDE DEF f
    <2>3. \A i \in 0..Len(f) : SubSeq(f, 1, i) = SubSeq(d, 1, i) /\ i \in 0..Len(d)
      <3> TAKE i \in 0..Len(f)
      <3>1. i \in Nat /\ i <= Len(d) /\ i <= Len(f) /\ \A k \in 1..i : d[k] = f[k]
        BY <1>1, <2>1, <2>2
      <3> QED BY <1>1, <2>2, <3>1, SameBeginning
    <2>4. UsableIn(t, f)
      BY <1>3, <2>3 DEF UsableIn
    <2> QED BY <2>4 DEF f, Parent, Front
  <1> QED BY <1>3, <1>5, <1>6 DEF EntryIn

-----------------------------------------------------------------------------
(* The walk. *)

LEMMA WalkPaths ==
  ASSUME WInv, place \notin {"root", "done", "failed"}
  PROVE  /\ Root \in Path /\ Len(Root) \in Nat
         /\ \A i \in DOMAIN stack : stack[i] \in Path
         /\ \A i \in DOMAIN found : found[i] \in Path
         /\ rootDev \in {1, 2} /\ tree \in [Path -> Node]
  <1>1. roots \in Seq(Path) /\ roots # <<>>
    BY DEF WInv, Types, Routed
  <1>2. Root \in Path
    BY <1>1 DEF Root
  <1>3. stack \in Seq(Path) /\ found \in Seq(Path) /\ rootDev \in {1, 2} /\ tree \in [Path -> Node]
    BY DEF WInv, Types
  <1> QED BY <1>2, <1>3, PathSeq

\* What lies on the way to p: the directories above it, the root's aside.
LEMMA OnTheWay ==
  ASSUME Root \in Path, NEW d \in Path, NEW p \in Path, IsPrefix(Root, d), IsPrefix(d, p)
  PROVE  d \in Way(p) \cup {Root} /\ (d # Root => d \in Way(p))
  <1>1. /\ d \in Seq(Nat) /\ p \in Seq(Nat) /\ Root \in Seq(Nat)
        /\ Len(d) \in Nat /\ Len(p) \in Nat /\ Len(Root) \in Nat
        /\ Len(d) <= Len(p) /\ Len(Root) <= Len(d)
    BY PathSeq, PrefixCells
  <1>2. /\ \A k \in 1..Len(d) : d[k] = p[k]
        /\ \A k \in 1..Len(Root) : Root[k] = d[k]
    BY <1>1, PrefixCells
  <1>3. SubSeq(p, 1, Len(d)) = d
    <2>1. SubSeq(d, 1, Len(d)) = SubSeq(p, 1, Len(d))
      BY <1>1, <1>2, SameBeginning
    <2>2. SubSeq(d, 1, Len(d)) = d
      BY <1>1
    <2> QED BY <2>1, <2>2
  <1>4. CASE Len(d) = Len(Root)
    <2>1. d = Root
      <3>1. SubSeq(d, 1, Len(d)) = SubSeq(Root, 1, Len(d))
        BY <1>1, <1>2, <1>4, SameBeginning
      <3>2. SubSeq(d, 1, Len(d)) = d /\ SubSeq(Root, 1, Len(d)) = Root
        BY <1>1, <1>4
      <3> QED BY <3>1, <3>2
    <2> QED BY <2>1
  <1>5. CASE Len(d) > Len(Root)
    <2>1. Len(d) \in Len(Head(roots)) + 1..Len(p)
      BY <1>1, <1>5 DEF Root
    <2> QED BY <1>3, <2>1 DEF Way
  <1> QED BY <1>1, <1>4, <1>5

LEMMA WayPaths ==
  ASSUME Root \in Path, NEW p \in Path, NEW q \in Way(p)
  PROVE  q \in Path
  <1>1. PICK i \in Len(Root) + 1..Len(p) : q = SubSeq(p, 1, i)
    BY DEF Way, Root
  <1>2. i \in 0..Len(p)
    BY PathSeq
  <1> QED BY <1>1, <1>2, PrefixPath

\* The way to a child is the way to its parent and the child.
LEMMA ChildWay ==
  ASSUME Root \in Path, NEW d \in Path, NEW c \in Children(d), NEW q \in Way(c)
  PROVE  q \in Way(d) \/ q = c
  <1>1. /\ c \in Path /\ Len(c) = Len(d) + 1 /\ Len(d) \in Nat /\ Len(Root) \in Nat
        /\ c \in Seq(Nat) /\ d \in Seq(Nat)
    BY ChildCells, PathSeq
  <1>2. \A k \in 1..Len(d) : c[k] = d[k]
    BY ChildCells
  <1>3. PICK i \in Len(Root) + 1..Len(c) : q = SubSeq(c, 1, i)
    BY DEF Way, Root
  <1>4. CASE i = Len(c)
    BY <1>1, <1>3, <1>4
  <1>5. CASE i # Len(c)
    <2>1. i \in Len(Root) + 1..Len(d)
      BY <1>1, <1>5
    <2>2. SubSeq(c, 1, i) = SubSeq(d, 1, i)
      <3>1. i \in Nat /\ i <= Len(c) /\ i <= Len(d) /\ \A k \in 1..i : c[k] = d[k]
        BY <1>1, <1>2, <2>1
      <3> QED BY <1>1, <3>1, SameBeginning
    <2> QED BY <1>3, <2>1, <2>2 DEF Way, Root
  <1> QED BY <1>4, <1>5

\* A vault that stands is there now.
LEMMA StandingHas ==
  ASSUME WInv, place \notin {"root", "done", "failed"}, NEW p \in Path, Standing(p)
  PROVE  HasConfig(p) /\ UsableIn(tree, p)
  <1>1. PICK c \in ConfigKind \ {"none"} : <<"config", p, c>> \in always
    BY DEF Standing, Configured
  <1>2. <<"config", p, c>> \in Facts(tree)
    BY <1>1 DEF WInv, Remembered
  <1>3. UsableIn(tree, p) /\ tree[p].config = c
    BY <1>2, ConfigFact, WalkPaths
  <1> QED BY <1>3 DEF HasConfig, Usable

\* The directories above it hold no vault and can be entered.
LEMMA StandingAbove ==
  ASSUME WInv, place \notin {"root", "done", "failed"}, NEW p \in Path, Standing(p),
         NEW d \in Path, IsPrefix(Root, d), IsPrefix(d, p), d # p
  PROVE  /\ ~HasConfig(d) /\ UsableIn(tree, d) /\ Depth(d) < MaxDepth
         /\ Toward(d, p) \in Children(d)
         /\ EntryIn(tree, Toward(d, p)) /\ tree[Toward(d, p)].kind = "dir"
         /\ tree[Toward(d, p)].dev = rootDev
  <1>0. /\ Root \in Path /\ Len(Root) \in Nat /\ tree \in [Path -> Node]
    BY WalkPaths
  <1>1. /\ Toward(d, p) \in Children(d) /\ IsPrefix(Toward(d, p), p)
        /\ Len(p) > Len(d) /\ Len(Toward(d, p)) = Len(d) + 1
    BY TowardChild
  <1>2. ~HasConfig(d)
    <2>1. d \in (Way(p) \cup {Root}) \ {p}
      BY <1>0, OnTheWay
    <2>2. <<"config", d, "none">> \in always
      BY <2>1 DEF Standing, Root
    <2>3. <<"config", d, "none">> \in Facts(tree)
      BY <2>2 DEF WInv, Remembered
    <2>4. tree[d].config = "none"
      BY <1>0, <2>3, ConfigFact
    <2> QED BY <2>4 DEF HasConfig
  <1>3. UsableIn(tree, d)
    BY <1>0, StandingHas, UsableAbove
  <1>4. Depth(d) < MaxDepth
    <2>1. Depth(p) <= MaxDepth
      BY DEF Standing
    <2>2. Len(p) \in Nat /\ Len(d) \in Nat /\ MaxDepth \in Nat
      BY PathSeq, VaultListAssumption
    <2> QED BY <1>0, <1>1, <2>1, <2>2 DEF Depth, Root
  <1>5. <<"dir", Toward(d, p), rootDev>> \in Facts(tree)
    <2> DEFINE c == Toward(d, p)
    <2>1. c \in Path /\ Len(c) = Len(d) + 1 /\ \A i \in 1..Len(d) : c[i] = d[i]
      BY <1>1, ChildCells
    <2> HIDE DEF c
    <2>2. IsPrefix(d, c)
      BY <2>1, PathSeq, PrefixCells, SMTT(30)
    <2>3. IsPrefix(Root, c) /\ c # Root
      <3>1. IsPrefix(Root, c)
        BY <1>0, <2>1, <2>2, PrefixTransitive
      <3>2. Len(Root) <= Len(d) /\ Len(d) \in Nat
        BY <1>0, PathSeq, PrefixCells
      <3> QED BY <1>0, <2>1, <3>1, <3>2
    <2>4. c \in Way(p)
      BY <1>0, <1>1, <2>1, <2>3, OnTheWay DEF c
    <2>5. <<"dir", c, rootDev>> \in always
      BY <2>4 DEF Standing
    <2> QED BY <2>5 DEF c, WInv, Remembered
  <1>6. Toward(d, p) \in Path
    BY <1>1 DEF Children
  <1>7. /\ EntryIn(tree, Toward(d, p)) /\ tree[Toward(d, p)].kind = "dir"
        /\ tree[Toward(d, p)].dev = rootDev
    BY <1>0, <1>5, <1>6, DirFact
  <1> QED BY <1>1, <1>2, <1>3, <1>4, <1>7

-----------------------------------------------------------------------------
(* What a step leaves alone stays true. *)

\* Directories in order are not one above the other: the rest of the types.
LEMMA WInvTypes ==
  ASSUME WInv PROVE WalkTypeOK
  <1>1. stack \in Seq(Path)
    BY DEF WInv, Types
  <1>2. ASSUME NEW i \in DOMAIN stack, NEW j \in DOMAIN stack, i # j
        PROVE  ~IsPrefix(stack[i], stack[j])
    <2>1. stack[i] \in Path /\ stack[j] \in Path /\ i \in Nat /\ j \in Nat
      BY <1>1
    <2>2. CASE i < j
      <3>1. Precedes(stack[i], stack[j])
        BY <2>2 DEF WInv, InOrder
      <3> QED BY <2>1, <3>1, OrderIsNoPrefix
    <2>3. CASE j < i
      <3>1. Precedes(stack[j], stack[i])
        BY <2>3 DEF WInv, InOrder
      <3> QED BY <2>1, <3>1, OrderIsNoPrefix
    <2> QED BY <1>2, <2>1, <2>2, <2>3
  <1> QED BY <1>2 DEF WInv, Types, WalkTypeOK

LEMMA KeepRemembered ==
  ASSUME WInv, UNCHANGED reading PROVE Remembered'
  BY DEF WInv, Remembered, reading

LEMMA KeepRows ==
  ASSUME WInv, UNCHANGED <<reading, vaultRows>>, place' \notin {"open", "blocked"}
  PROVE  (Opened /\ RowsTrue /\ BlockedBySwapOnly)'
  <1>1. RowsTrue'
    BY DEF WInv, RowsTrue, reading
  <1>2. Opened' /\ BlockedBySwapOnly'
    BY DEF Opened, BlockedBySwapOnly
  <1> QED BY <1>1, <1>2

LEMMA KeepOrder ==
  ASSUME WInv, UNCHANGED <<roots, stack, found>>
  PROVE  InOrder' /\ FoundInBounds'
  <1>1. InOrder'
    BY DEF WInv, InOrder, Below, Root, Depth
  <1>2. FoundInBounds'
    BY DEF WInv, FoundInBounds, Depth
  <1> QED BY <1>1, <1>2

LEMMA KeepWays ==
  ASSUME WInv, UNCHANGED <<roots, rootDev, stack, kids, found, sometime>>
  PROVE  Ways' /\ FoundOverDirs'
  <1>1. Ways'
    BY DEF WInv, Ways, OverDirs, Way
  <1>2. FoundOverDirs'
    BY DEF WInv, FoundOverDirs, Way, Configured
  <1> QED BY <1>1, <1>2

LEMMA NothingYet ==
  ASSUME stack' = <<>>, found' = <<>>, kids' = {}
  PROVE  InOrder' /\ FoundInBounds' /\ Ways' /\ FoundOverDirs'
  <1>1. DOMAIN stack' = {} /\ DOMAIN found' = {}
    OBVIOUS
  <1> QED BY <1>1 DEF InOrder, FoundInBounds, Ways, FoundOverDirs

LEMMA KeepStanding ==
  ASSUME UNCHANGED <<roots, rootDev, always>>, NEW p, Standing(p)'
  PROVE  Standing(p)
  BY DEF Standing, Configured, Way, Depth

LEMMA KeepFound ==
  ASSUME UNCHANGED found, NEW p, InFound(p) PROVE InFound(p)'
  BY DEF InFound

-----------------------------------------------------------------------------
(* The steps. *)

LEMMA InitWInv ==
  ASSUME WalkInit PROVE WInv
  <1>1. Types
    <2>1. tree \in [Path -> Node] /\ roots \in Seq(Path) /\ 0 \in 0..MaxChanges
      BY VaultListAssumption DEF WalkInit
    <2> QED BY <2>1 DEF WalkInit, Types
  <1>2. Routed /\ Remembered
    BY DEF WalkInit, Routed, Remembered
  <1>3. DOMAIN stack = {} /\ DOMAIN found = {} /\ DOMAIN vaultRows = {}
    BY DEF WalkInit
  <1>4. InOrder /\ FoundInBounds /\ Ways /\ FoundOverDirs
    BY <1>3 DEF WalkInit, InOrder, FoundInBounds, Ways, FoundOverDirs
  <1>5. Covered /\ Opened /\ BlockedBySwapOnly
    BY DEF WalkInit, Covered, Opened, BlockedBySwapOnly
  <1>6. RowsTrue
    BY <1>3 DEF RowsTrue
  <1> QED BY <1>1, <1>2, <1>4, <1>5, <1>6 DEF WInv

LEMMA CanonicalizeWInv ==
  ASSUME WInv, Canonicalize PROVE WInv'
  <1>0. /\ place = "root" /\ place' \in {"failed", "root", "enter"}
        /\ UNCHANGED <<reading, rootDev, stack, look, kids, found, unread, vaultRows>>
        /\ (roots' = roots \/ (roots' = Tail(roots) /\ place' = "root")) /\ roots # <<>>
    BY DEF Canonicalize
  <1>1. stack = <<>> /\ found = <<>> /\ kids = {} /\ look = {}
    BY <1>0 DEF WInv, Routed
  <1>2. Types'
    <2>1. roots \in Seq(Path)
      BY DEF WInv, Types
    <2>2. roots' \in Seq(Path)
      BY <1>0, <2>1, TailPaths
    <2> QED BY <1>0, <2>2 DEF WInv, Types, reading
  <1>3. Routed'
    BY <1>0, <1>1 DEF Routed
  <1>4. Covered'
    BY <1>0 DEF Covered
  <1>5. (Opened /\ RowsTrue /\ BlockedBySwapOnly)'
    BY <1>0, KeepRows
  <1>6. Remembered'
    BY <1>0, KeepRemembered
  <1>7. InOrder' /\ FoundInBounds' /\ Ways' /\ FoundOverDirs'
    BY <1>0, <1>1, NothingYet
  <1> QED BY <1>2, <1>3, <1>4, <1>5, <1>6, <1>7 DEF WInv

LEMMA EnterWInv ==
  ASSUME WInv, Enter PROVE WInv'
  <1>0. /\ place = "enter" /\ place' = "check"
        /\ UNCHANGED <<reading, roots, look, kids, found, unread, vaultRows>>
        /\ \/ EntryIn(tree, Root) /\ rootDev' = tree[Root].dev /\ stack' = <<Root>>
           \/ ~EntryIn(tree, Root) /\ rootDev' = rootDev /\ stack' = <<>>
    BY DEF Enter, Root
  <1>1. /\ stack = <<>> /\ found = <<>> /\ kids = {} /\ look = {} /\ roots # <<>>
        /\ Root \in Path /\ Len(Root) \in Nat /\ tree \in [Path -> Node] /\ Root' = Root
    BY <1>0, WalkPaths DEF WInv, Routed, Root
  <1>2. Types'
    <2>1. tree[Root].dev \in {1, 2}
      BY <1>1 DEF Node
    <2>2. rootDev' \in {1, 2}
      BY <1>0, <2>1 DEF WInv, Types
    <2>3. stack' \in Seq(Path)
      <3>1. <<Root>> \in Seq(Path) /\ <<>> \in Seq(Path)
        BY <1>1
      <3> QED BY <1>0, <3>1
    <2> QED BY <1>0, <2>2, <2>3 DEF WInv, Types, reading
  <1>3. Routed'
    BY <1>0, <1>1 DEF Routed
  <1>4. DOMAIN stack' \subseteq {1} /\ \A i \in DOMAIN stack' : stack'[i] = Root
    BY <1>0
  <1>5. InOrder' /\ FoundInBounds'
    <2>1. Below(Root)'
      <3>1. IsPrefix(Root, Root)
        BY <1>1, PrefixOfSelf
      <3>2. Len(Root) - Len(Root) <= MaxDepth
        BY <1>1, VaultListAssumption
      <3> QED BY <1>0, <1>1, <3>1, <3>2 DEF Below, Depth, Root
    <2>2. DOMAIN found' = {}
      BY <1>0, <1>1
    <2>3. \A i, j \in DOMAIN stack' : ~(i < j)
      BY <1>4
    <2> QED BY <1>0, <1>1, <1>4, <2>1, <2>2, <2>3 DEF InOrder, FoundInBounds, Below, Depth, Root
  <1>6. Ways' /\ FoundOverDirs'
    <2>1. Way(Root)' = {}
      BY <1>0, <1>1 DEF Way, Root
    <2>2. OverDirs(Root)'
      BY <2>1 DEF OverDirs
    <2>3. DOMAIN found' = {} /\ kids' = {}
      BY <1>0, <1>1
    <2> QED BY <1>1, <1>4, <2>2, <2>3 DEF Ways, FoundOverDirs, OverDirs
  <1>7. Covered'
    <2> SUFFICES ASSUME NEW p \in Path, Standing(p)' PROVE \E i \in DOMAIN stack' : Leads(i, p)'
      BY <1>0 DEF Covered
    <2>1. IsPrefix(Root, p) /\ Configured(p, always)
      BY <1>0 DEF Standing, Configured, Root, reading
    <2>2. UsableIn(tree, p)
      BY <1>1, <2>1, ConfigFact DEF Configured, WInv, Remembered
    <2>3. EntryIn(tree, Root)
      BY <1>1, <2>1, <2>2, UsableAbove
    <2> QED BY <1>0, <1>1, <2>1, <2>3 DEF Leads
  <1>8. (Opened /\ RowsTrue /\ BlockedBySwapOnly)'
    BY <1>0, KeepRows
  <1>9. Remembered'
    BY <1>0, KeepRemembered
  <1> QED BY <1>2, <1>3, <1>5, <1>6, <1>7, <1>8, <1>9 DEF WInv

\* The first directory is dropped from the stack.
LEMMA Dropped ==
  ASSUME WInv, stack # <<>>, stack' = Tail(stack)
  PROVE  /\ stack' \in Seq(Path)
         /\ \A i \in DOMAIN stack' : i \in Nat /\ i + 1 \in DOMAIN stack /\ stack'[i] = stack[i + 1]
         /\ \A i \in DOMAIN stack : i # 1 => i - 1 \in DOMAIN stack' /\ stack'[i - 1] = stack[i]
         /\ 1 \in DOMAIN stack /\ Head(stack) \in Path /\ Head(stack) = stack[1]
  <1>1. stack \in Seq(Path)
    BY DEF WInv, Types
  <1>2. /\ Tail(stack) \in Seq(Path) /\ Len(stack) \in Nat \ {0} /\ Len(Tail(stack)) = Len(stack) - 1
        /\ \A i \in 1..Len(stack) - 1 : Tail(stack)[i] = stack[i + 1]
        /\ Head(stack) \in Path /\ Head(stack) = stack[1]
    BY <1>1, TailPaths
  <1>3. DOMAIN stack = 1..Len(stack) /\ DOMAIN stack' = 1..Len(stack) - 1
    BY <1>1, <1>2
  <1>4. \A i \in DOMAIN stack' : i \in Nat /\ i + 1 \in DOMAIN stack /\ stack'[i] = stack[i + 1]
    BY <1>2, <1>3
  <1>5. \A i \in DOMAIN stack : i # 1 => i - 1 \in DOMAIN stack' /\ stack'[i - 1] = stack[i]
    BY <1>2, <1>3
  <1>6. 1 \in DOMAIN stack
    BY <1>2, <1>3
  <1> QED BY <1>2, <1>4, <1>5, <1>6

LEMMA DropOrder ==
  ASSUME WInv, stack # <<>>, stack' = Tail(stack), UNCHANGED roots
  PROVE  /\ \A i \in DOMAIN stack' : Below(stack[i])' /\ Precedes(stack[1], stack'[i])
         /\ \A i, j \in DOMAIN stack' : i < j => Precedes(stack'[i], stack'[j])
         /\ \A i \in DOMAIN found, j \in DOMAIN stack' : Precedes(found[i], stack'[j])
  <1>1. /\ \A i \in DOMAIN stack' : i \in Nat /\ i + 1 \in DOMAIN stack /\ stack'[i] = stack[i + 1]
        /\ 1 \in DOMAIN stack
    BY Dropped
  <1>2. DOMAIN stack' \subseteq Nat \ {0}
    BY Dropped
  <1>3. \A i \in DOMAIN stack' : Below(stack[i + 1]) /\ Precedes(stack[1], stack[i + 1])
    <2> TAKE i \in DOMAIN stack'
    <2>1. i + 1 \in DOMAIN stack /\ 1 < i + 1
      BY <1>1, <1>2
    <2> QED BY <1>1, <2>1 DEF WInv, InOrder
  <1>4. \A i \in DOMAIN stack' : Below(stack[i])' /\ Precedes(stack[1], stack'[i])
    BY <1>1, <1>3 DEF Below, Root, Depth
  <1>5. \A i, j \in DOMAIN stack' : i < j => Precedes(stack'[i], stack'[j])
    <2> TAKE i, j \in DOMAIN stack'
    <2> HAVE i < j
    <2>1. i + 1 \in DOMAIN stack /\ j + 1 \in DOMAIN stack /\ i + 1 < j + 1
      BY <1>1
    <2>2. Precedes(stack[i + 1], stack[j + 1])
      BY <2>1 DEF WInv, InOrder
    <2> QED BY <1>1, <2>2
  <1>6. \A i \in DOMAIN found, j \in DOMAIN stack' : Precedes(found[i], stack'[j])
    BY <1>1 DEF WInv, InOrder
  <1> QED BY <1>4, <1>5, <1>6

LEMMA DropWays ==
  ASSUME WInv, stack # <<>>, stack' = Tail(stack), UNCHANGED <<roots, rootDev, sometime>>
  PROVE  \A i \in DOMAIN stack' : OverDirs(stack[i])'
  <1>1. \A i \in DOMAIN stack' : i + 1 \in DOMAIN stack /\ stack'[i] = stack[i + 1]
    BY Dropped
  <1>2. \A i \in DOMAIN stack' : OverDirs(stack[i + 1])
    BY <1>1 DEF WInv, Ways
  <1> QED BY <1>1, <1>2 DEF OverDirs, Way

\* A directory below which nothing stands is given up.
LEMMA GiveUp ==
  ASSUME WInv, place \in {"check", "list"}, place' = "check", stack # <<>>, stack' = Tail(stack),
         UNCHANGED <<reading, roots, rootDev, look, kids, found, unread, vaultRows>>,
         \A p \in Path : Standing(p) => ~IsPrefix(Head(stack), p)
  PROVE  WInv'
  <1>0. kids = {} /\ look = {} /\ roots # <<>>
    BY DEF WInv, Routed
  <1>1. Types'
    BY Dropped DEF WInv, Types, reading
  <1>2. Routed'
    BY <1>0 DEF Routed
  <1>3. Remembered'
    BY KeepRemembered
  <1>4. InOrder'
    BY DropOrder DEF InOrder
  <1>5. FoundInBounds'
    BY DEF WInv, FoundInBounds, Depth
  <1>6. Ways'
    BY <1>0, DropWays DEF Ways, reading
  <1>7. FoundOverDirs'
    BY ZenonT(30) DEF WInv, FoundOverDirs, Way, Configured, reading
  <1>8. Covered'
    <2> SUFFICES ASSUME NEW p \in Path, Standing(p)'
                 PROVE  InFound(p)' \/ \E i \in DOMAIN stack' : Leads(i, p)'
      BY DEF Covered
    <2>1. Standing(p)
      BY KeepStanding DEF reading
    <2>2. InFound(p) \/ \E i \in DOMAIN stack : Leads(i, p)
      BY <2>1 DEF WInv, Covered
    <2>3. CASE InFound(p)
      BY <2>3, KeepFound
    <2>4. ASSUME NEW i \in DOMAIN stack, Leads(i, p)
          PROVE  \E k \in DOMAIN stack' : Leads(k, p)'
      <3>1. IsPrefix(stack[i], p)
        BY <2>4 DEF Leads
      <3>2. i # 1
        BY <2>1, <3>1, Dropped
      <3>3. i - 1 \in DOMAIN stack' /\ stack'[i - 1] = stack[i]
        BY <3>2, Dropped
      <3> QED BY <3>1, <3>3 DEF Leads
    <2> QED BY <2>2, <2>3, <2>4
  <1>9. (Opened /\ RowsTrue /\ BlockedBySwapOnly)'
    BY KeepRows
  <1> QED BY <1>1, <1>2, <1>3, <1>4, <1>5, <1>6, <1>7, <1>8, <1>9 DEF WInv

\* A directory with a vault.config is found: no other vault that stands is below it.
LEMMA CheckFound ==
  ASSUME WInv, Check, HasConfig(Head(stack)) PROVE WInv'
  <1>0. /\ place = "check" /\ place' = "check" /\ stack # <<>> /\ stack' = Tail(stack)
        /\ found' = Append(found, stack[1])
        /\ UNCHANGED <<reading, roots, rootDev, look, kids, unread, vaultRows>>
    BY Dropped DEF Check
  <1>1. /\ kids = {} /\ look = {} /\ roots # <<>> /\ Root \in Path /\ tree \in [Path -> Node]
        /\ stack[1] \in Path /\ 1 \in DOMAIN stack /\ Head(stack) = stack[1]
    BY <1>0, Dropped, WalkPaths DEF WInv, Routed
  <1>2. found \in Seq(Path)
    BY DEF WInv, Types
  <1>3. /\ found' \in Seq(Path) /\ DOMAIN found = 1..Len(found) /\ Len(found) \in Nat
        /\ DOMAIN found' = 1..Len(found) + 1 /\ found'[Len(found) + 1] = stack[1]
        /\ \A i \in DOMAIN found : found'[i] = found[i]
    BY <1>0, <1>1, <1>2
  <1>4. Types'
    BY <1>0, <1>3, Dropped DEF WInv, Types, reading
  <1>5. Routed'
    BY <1>0, <1>1 DEF Routed
  <1>6. Remembered'
    BY <1>0, KeepRemembered
  <1>7. \A i \in DOMAIN found' : i \in DOMAIN found \/ found'[i] = stack[1]
    BY <1>3
  <1>8. InOrder'
    <2>1. \A i \in DOMAIN found', j \in DOMAIN stack' : Precedes(found'[i], stack'[j])
      BY <1>0, <1>3, <1>7, DropOrder
    <2> QED BY <1>0, <2>1, DropOrder DEF InOrder
  <1>9. FoundInBounds'
    <2>1. IsPrefix(Root, stack[1]) /\ Depth(stack[1]) <= MaxDepth
      BY <1>1 DEF WInv, InOrder, Below
    <2>2. \A i \in DOMAIN found' : IsPrefix(Root, found'[i]) /\ Depth(found'[i]) <= MaxDepth
      BY <1>3, <1>7, <2>1 DEF WInv, FoundInBounds, Root
    <2>3. \A i, j \in DOMAIN found' : i < j => Precedes(found'[i], found'[j])
      <3> TAKE i, j \in DOMAIN found'
      <3> HAVE i < j
      <3>1. i \in DOMAIN found
        BY <1>3
      <3>2. CASE j \in DOMAIN found
        BY <1>3, <3>1, <3>2 DEF WInv, FoundInBounds
      <3>3. CASE j = Len(found) + 1
        BY <1>1, <1>3, <3>1, <3>3 DEF WInv, InOrder
      <3> QED BY <1>3, <3>2, <3>3
    <2> QED BY <1>0, <2>2, <2>3 DEF FoundInBounds, Root, Depth
  <1>10. Ways'
    <2>1. \A i \in DOMAIN stack' : OverDirs(stack[i])'
      BY <1>0, DropWays DEF reading
    <2> QED BY <1>0, <1>1, <2>1 DEF Ways
  <1>11. FoundOverDirs'
    <2>1. OverDirs(stack[1])
      BY <1>1 DEF WInv, Ways
    <2>2. Configured(stack[1], sometime)
      <3>1. UsableIn(tree, stack[1]) /\ tree[stack[1]].config # "none"
        BY <1>1 DEF HasConfig, Usable
      <3>2. tree[stack[1]].config \in ConfigKind \ {"none"}
        BY <1>1, <3>1 DEF Node
      <3>3. <<"config", stack[1], tree[stack[1]].config>> \in Facts(tree)
        BY <1>1, <3>1, ConfigFact
      <3> QED BY <3>2, <3>3 DEF Configured, WInv, Remembered
    <2>3. \A i \in DOMAIN found' : OverDirs(found'[i]) /\ Configured(found'[i], sometime)
      BY <1>3, <1>7, <2>1, <2>2 DEF WInv, FoundOverDirs, OverDirs
    <2> QED BY <1>0, <2>3 DEF FoundOverDirs, OverDirs, Way, Configured, reading
  <1>12. Covered'
    <2> SUFFICES ASSUME NEW p \in Path, Standing(p)'
                 PROVE  InFound(p)' \/ \E i \in DOMAIN stack' : Leads(i, p)'
      BY <1>0 DEF Covered
    <2>1. Standing(p)
      BY <1>0, KeepStanding DEF reading
    <2>2. InFound(p) \/ \E i \in DOMAIN stack : Leads(i, p)
      BY <1>0, <2>1 DEF WInv, Covered
    <2>3. CASE InFound(p)
      BY <1>3, <2>3 DEF InFound
    <2>4. ASSUME NEW i \in DOMAIN stack, Leads(i, p)
          PROVE  InFound(p)' \/ \E k \in DOMAIN stack' : Leads(k, p)'
      <3>1. IsPrefix(stack[i], p)
        BY <2>4 DEF Leads
      <3>2. CASE i = 1
        <4>1. IsPrefix(Root, stack[1])
          BY <1>1 DEF WInv, InOrder, Below
        <4>2. stack[1] = p
          BY <1>0, <1>1, <2>1, <3>1, <3>2, <4>1, StandingAbove
        <4> QED BY <1>3, <4>2 DEF InFound
      <3>3. CASE i # 1
        <4>1. i - 1 \in DOMAIN stack' /\ stack'[i - 1] = stack[i]
          BY <1>0, <3>3, Dropped
        <4> QED BY <1>0, <3>1, <4>1 DEF Leads
      <3> QED BY <3>2, <3>3
    <2> QED BY <2>2, <2>3, <2>4
  <1>13. (Opened /\ RowsTrue /\ BlockedBySwapOnly)'
    BY <1>0, KeepRows
  <1> QED BY <1>4, <1>5, <1>6, <1>8, <1>9, <1>10, <1>11, <1>12, <1>13 DEF WInv

\* A directory of the walk that a vault stands below.
LEMMA AboveStanding ==
  ASSUME WInv, place \in {"check", "list", "stat"}, stack # <<>>,
         NEW p \in Path, Standing(p), IsPrefix(stack[1], p), stack[1] # p
  PROVE  /\ ~HasConfig(stack[1]) /\ UsableIn(tree, stack[1]) /\ Depth(stack[1]) < MaxDepth
         /\ Toward(stack[1], p) \in Children(stack[1])
         /\ EntryIn(tree, Toward(stack[1], p)) /\ tree[Toward(stack[1], p)].kind = "dir"
         /\ tree[Toward(stack[1], p)].dev = rootDev
  <1>1. stack[1] \in Path /\ 1 \in DOMAIN stack
    <2>1. stack \in Seq(Path)
      BY DEF WInv, Types
    <2> QED BY <2>1, TailPaths
  <1>2. IsPrefix(Root, stack[1])
    BY <1>1 DEF WInv, InOrder, Below
  <1> QED BY <1>1, <1>2, StandingAbove

LEMMA CheckWInv ==
  ASSUME WInv, Check PROVE WInv'
  <1>0. place = "check" /\ stack # <<>>
    BY DEF Check
  <1>1. /\ kids = {} /\ look = {} /\ roots # <<>> /\ MaxDepth \in Nat
        /\ Head(stack) \in Path /\ Head(stack) = stack[1]
    <2>1. stack \in Seq(Path)
      BY DEF WInv, Types
    <2> QED BY <1>0, <2>1, TailPaths, VaultListAssumption DEF WInv, Routed
  <1>2. Depth(stack[1]) \in Int
    BY <1>0, <1>1, PathSeq, WalkPaths DEF Depth, Root
  <1>3. CASE ~HasConfig(Head(stack)) /\ Depth(Head(stack)) >= MaxDepth
    <2>1. \A p \in Path : Standing(p) => ~IsPrefix(Head(stack), p)
      <3> SUFFICES ASSUME NEW p \in Path, Standing(p), IsPrefix(stack[1], p) PROVE FALSE
        BY <1>1
      <3>1. CASE stack[1] = p
        BY <1>0, <1>1, <1>3, <3>1, StandingHas
      <3>2. CASE stack[1] # p
        <4>1. Depth(stack[1]) < MaxDepth
          BY <1>0, <3>2, AboveStanding
        <4> QED BY <1>1, <1>2, <1>3, <4>1
      <3> QED BY <3>1, <3>2
    <2>2. /\ place' = "check" /\ stack' = Tail(stack)
          /\ UNCHANGED <<reading, roots, rootDev, look, kids, found, unread, vaultRows>>
      BY <1>0, <1>3 DEF Check
    <2> QED BY <1>0, <2>1, <2>2, GiveUp
  <1>4. CASE ~HasConfig(Head(stack)) /\ ~(Depth(Head(stack)) >= MaxDepth)
    <2>0. /\ place' = "list"
          /\ UNCHANGED <<reading, roots, rootDev, stack, look, kids, found, unread, vaultRows>>
      BY <1>4 DEF Check
    <2>1. Types'
      BY <2>0 DEF WInv, Types, reading
    <2>2. Routed'
      <3>1. Depth(Head(stack)) < MaxDepth
        BY <1>1, <1>2, <1>4
      <3>2. (Depth(Head(stack)) < MaxDepth)'
        BY <2>0, <3>1 DEF Depth
      <3> QED BY <1>0, <1>1, <2>0, <3>2 DEF Routed
    <2>3. Remembered'
      BY <2>0, KeepRemembered
    <2>4. InOrder' /\ FoundInBounds'
      BY <2>0, KeepOrder
    <2>5. Ways' /\ FoundOverDirs'
      BY <2>0, KeepWays DEF reading
    <2>6. Covered'
      <3> SUFFICES ASSUME NEW p \in Path, Standing(p)'
                   PROVE  InFound(p)' \/ \E i \in DOMAIN stack' : Leads(i, p)'
        BY <2>0 DEF Covered
      <3>1. Standing(p)
        BY <2>0, KeepStanding DEF reading
      <3>2. InFound(p) \/ \E i \in DOMAIN stack : Leads(i, p)
        BY <1>0, <3>1 DEF WInv, Covered
      <3>3. CASE InFound(p)
        BY <2>0, <3>3, KeepFound
      <3>4. p # stack[1]
        BY <1>0, <1>1, <1>4, <3>1, StandingHas
      <3>5. \A i \in DOMAIN stack : Leads(i, p) => Leads(i, p)'
        BY <2>0, <3>4 DEF Leads
      <3> QED BY <2>0, <3>2, <3>3, <3>5
    <2>7. (Opened /\ RowsTrue /\ BlockedBySwapOnly)'
      BY <2>0, KeepRows
    <2> QED BY <2>1, <2>2, <2>3, <2>4, <2>5, <2>6, <2>7 DEF WInv
  <1> QED BY <1>3, <1>4, CheckFound

LEMMA ListWInv ==
  ASSUME WInv, List PROVE WInv'
  <1>0. place = "list"
    BY DEF List
  <1>1. /\ kids = {} /\ look = {} /\ roots # <<>> /\ stack # <<>> /\ Depth(Head(stack)) < MaxDepth
        /\ Head(stack) \in Path /\ Head(stack) = stack[1]
    <2>1. stack \in Seq(Path)
      BY DEF WInv, Types
    <2> QED BY <1>0, <2>1, TailPaths DEF WInv, Routed
  <1>2. CASE ~Usable(Head(stack))
    <2>1. \A p \in Path : Standing(p) => ~IsPrefix(Head(stack), p)
      <3> SUFFICES ASSUME NEW p \in Path, Standing(p), IsPrefix(stack[1], p) PROVE FALSE
        BY <1>1
      <3>1. CASE stack[1] = p
        BY <1>0, <1>1, <1>2, <3>1, StandingHas DEF Usable
      <3>2. CASE stack[1] # p
        BY <1>0, <1>1, <1>2, <3>2, AboveStanding DEF Usable
      <3> QED BY <3>1, <3>2
    <2>2. /\ place' = "check" /\ stack' = Tail(stack)
          /\ UNCHANGED <<reading, roots, rootDev, look, kids, found, unread, vaultRows>>
      BY <1>2 DEF List
    <2> QED BY <1>0, <1>1, <2>1, <2>2, GiveUp
  <1>3. CASE Usable(Head(stack))
    <2>0. /\ place' = "stat"
          /\ look' = {c \in Children(Head(stack)) : tree[c].kind # "none"}
          /\ UNCHANGED <<reading, roots, rootDev, stack, kids, found, unread, vaultRows>>
      BY <1>3 DEF List
    <2>1. Types'
      <3>1. look' \subseteq Path
        BY <2>0 DEF Children
      <3> QED BY <2>0, <3>1 DEF WInv, Types, reading
    <2>2. Routed'
      <3>1. (Depth(Head(stack)) < MaxDepth)'
        BY <1>1, <2>0 DEF Depth
      <3>2. \A c \in (look \cup kids)' : c \in Children(Head(stack'))
        BY <1>1, <2>0
      <3> QED BY <1>0, <1>1, <2>0, <3>1, <3>2 DEF Routed, Children
    <2>3. Remembered'
      BY <2>0, KeepRemembered
    <2>4. InOrder' /\ FoundInBounds'
      BY <2>0, KeepOrder
    <2>5. Ways' /\ FoundOverDirs'
      BY <2>0, KeepWays DEF reading
    <2>6. Covered'
      <3> SUFFICES ASSUME NEW p \in Path, Standing(p)'
                   PROVE  InFound(p)' \/ \E i \in DOMAIN stack' : Leads(i, p)'
        BY <2>0 DEF Covered
      <3>1. Standing(p)
        BY <2>0, KeepStanding DEF reading
      <3>2. InFound(p) \/ \E i \in DOMAIN stack : Leads(i, p)
        BY <1>0, <3>1 DEF WInv, Covered
      <3>3. CASE InFound(p)
        BY <2>0, <3>3, KeepFound
      <3>4. ASSUME NEW i \in DOMAIN stack, Leads(i, p) PROVE Leads(i, p)'
        <4>1. IsPrefix(stack[i], p) /\ (i = 1 => p # stack[1])
          BY <1>0, <3>4 DEF Leads
        <4>2. i = 1 => Toward(stack[1], p) \in look'
          <5> SUFFICES ASSUME i = 1 PROVE Toward(stack[1], p) \in look'
            OBVIOUS
          <5>1. IsPrefix(stack[1], p) /\ stack[1] # p
            BY <4>1
          <5> QED BY <1>0, <1>1, <2>0, <3>1, <5>1, AboveStanding
        <4> QED BY <2>0, <4>1, <4>2 DEF Leads, Toward
      <3> QED BY <2>0, <3>2, <3>3, <3>4
    <2>7. (Opened /\ RowsTrue /\ BlockedBySwapOnly)'
      BY <2>0, KeepRows
    <2> QED BY <2>1, <2>2, <2>3, <2>4, <2>5, <2>6, <2>7 DEF WInv
  <1> QED BY <1>2, <1>3

LEMMA StatWInv ==
  ASSUME WInv, NEW c \in Path, Stat(c) PROVE WInv'
  <1>0. /\ place = "stat" /\ place' = "stat" /\ c \in look /\ look' = look \ {c}
        /\ UNCHANGED <<reading, roots, rootDev, stack, found, unread, vaultRows>>
    BY DEF Stat
  <1>1. /\ kids' = IF EntryIn(tree, c) /\ tree[c].kind = "dir" /\ tree[c].dev = rootDev
                   THEN kids \cup {c} ELSE kids
    BY DEF Stat
  <1>2. /\ roots # <<>> /\ stack # <<>> /\ Depth(Head(stack)) < MaxDepth
        /\ \A k \in look \cup kids : k \in Children(Head(stack))
        /\ Root \in Path /\ tree \in [Path -> Node]
        /\ Head(stack) \in Path /\ Head(stack) = stack[1] /\ 1 \in DOMAIN stack
    <2>1. stack \in Seq(Path)
      BY DEF WInv, Types
    <2> QED BY <1>0, <2>1, TailPaths, WalkPaths DEF WInv, Routed
  <1>3. kids' \subseteq kids \cup {c}
    BY <1>1
  <1>4. Types'
    BY <1>0, <1>3 DEF WInv, Types, reading
  <1>5. Routed'
    <2>1. (Depth(Head(stack)) < MaxDepth)'
      BY <1>0, <1>2 DEF Depth
    <2>2. \A k \in (look \cup kids)' : k \in Children(Head(stack'))
      BY <1>0, <1>2, <1>3
    <2> QED BY <1>0, <1>2, <2>1, <2>2 DEF Routed, Children
  <1>6. Remembered'
    BY <1>0, KeepRemembered
  <1>7. InOrder' /\ FoundInBounds'
    BY <1>0, KeepOrder
  <1>8. Ways'
    <2>1. ASSUME c \in kids' PROVE OverDirs(c)
      <3>1. CASE c \in kids
        BY <3>1 DEF WInv, Ways
      <3>2. CASE c \notin kids
        <4>1. EntryIn(tree, c) /\ tree[c].kind = "dir" /\ tree[c].dev = rootDev
          BY <1>1, <2>1, <3>2
        <4>2. <<"dir", c, rootDev>> \in sometime
          BY <1>2, <4>1, DirFact DEF WInv, Remembered
        <4>3. OverDirs(stack[1])
          BY <1>2 DEF WInv, Ways
        <4> SUFFICES ASSUME NEW q \in Way(c) PROVE <<"dir", q, rootDev>> \in sometime
          BY DEF OverDirs
        <4>4. c \in Children(stack[1])
          BY <1>0, <1>2
        <4>5. q \in Way(stack[1]) \/ q = c
          BY <1>2, <4>4, ChildWay
        <4> QED BY <4>2, <4>3, <4>5 DEF OverDirs
      <3> QED BY <3>1, <3>2
    <2>2. \A k \in kids' : OverDirs(k)
      BY <1>3, <2>1 DEF WInv, Ways
    <2>3. \A i \in DOMAIN stack : OverDirs(stack[i])
      BY DEF WInv, Ways
    <2> QED BY <1>0, <2>2, <2>3 DEF Ways, OverDirs, Way, reading
  <1>9. FoundOverDirs'
    BY <1>0 DEF WInv, FoundOverDirs, Way, Configured, reading
  <1>10. Covered'
    <2> SUFFICES ASSUME NEW p \in Path, Standing(p)'
                 PROVE  InFound(p)' \/ \E i \in DOMAIN stack' : Leads(i, p)'
      BY <1>0 DEF Covered
    <2>1. Standing(p)
      BY <1>0, KeepStanding DEF reading
    <2>2. InFound(p) \/ \E i \in DOMAIN stack : Leads(i, p)
      BY <1>0, <2>1 DEF WInv, Covered
    <2>3. CASE InFound(p)
      BY <1>0, <2>3, KeepFound
    <2>4. ASSUME NEW i \in DOMAIN stack, Leads(i, p) PROVE Leads(i, p)'
      <3>1. /\ IsPrefix(stack[i], p) /\ (i = 1 => p # stack[1])
            /\ i = 1 => Toward(stack[1], p) \in look \cup kids
        BY <1>0, <2>4 DEF Leads
      <3>2. i = 1 => Toward(stack[1], p) \in (look \cup kids)'
        <4> SUFFICES ASSUME i = 1 PROVE Toward(stack[1], p) \in (look \cup kids)'
          OBVIOUS
        <4>1. CASE Toward(stack[1], p) # c
          BY <1>0, <1>1, <3>1, <4>1
        <4>2. CASE Toward(stack[1], p) = c
          <5>1. IsPrefix(stack[1], p) /\ stack[1] # p
            BY <3>1
          <5>2. EntryIn(tree, c) /\ tree[c].kind = "dir" /\ tree[c].dev = rootDev
            BY <1>0, <1>2, <2>1, <4>2, <5>1, AboveStanding
          <5> QED BY <1>1, <4>2, <5>2
        <4> QED BY <4>1, <4>2
      <3> QED BY <1>0, <3>1, <3>2 DEF Leads, Toward
    <2> QED BY <1>0, <2>2, <2>3, <2>4
  <1>11. (Opened /\ RowsTrue /\ BlockedBySwapOnly)'
    BY <1>0, KeepRows
  <1> QED BY <1>4, <1>5, <1>6, <1>7, <1>8, <1>9, <1>10, <1>11 DEF WInv

LEMMA WalkedWInv ==
  ASSUME WInv, Walked PROVE WInv'
  <1>0. /\ place = "check" /\ place' = "read" /\ stack = <<>> /\ unread' = found
        /\ UNCHANGED <<reading, roots, rootDev, stack, look, kids, found, vaultRows>>
    BY DEF Walked
  <1>1. /\ kids = {} /\ look = {} /\ roots # <<>>
    BY <1>0 DEF WInv, Routed
  <1>2. Types'
    BY <1>0 DEF WInv, Types, reading
  <1>3. Routed'
    BY <1>0, <1>1 DEF Routed
  <1>4. Remembered'
    BY <1>0, KeepRemembered
  <1>5. InOrder' /\ FoundInBounds'
    BY <1>0, KeepOrder
  <1>6. Ways' /\ FoundOverDirs'
    BY <1>0, KeepWays DEF reading
  <1>7. Covered'
    <2> SUFFICES ASSUME NEW p \in Path, Standing(p)' PROVE InFound(p)'
      BY <1>0 DEF Covered
    <2>1. Standing(p)
      BY <1>0, KeepStanding DEF reading
    <2>2. InFound(p) \/ \E i \in DOMAIN stack : Leads(i, p)
      BY <1>0, <2>1 DEF WInv, Covered
    <2>3. DOMAIN stack = {}
      BY <1>0
    <2> QED BY <1>0, <2>2, <2>3, KeepFound
  <1>8. (Opened /\ RowsTrue /\ BlockedBySwapOnly)'
    BY <1>0, KeepRows
  <1> QED BY <1>2, <1>3, <1>4, <1>5, <1>6, <1>7, <1>8 DEF WInv

\* The new stack: the sorted children s, then what was below the top.
Stacked(s) ==
  /\ s \in Seq(Path) /\ stack' \in Seq(Path)
  /\ \A i \in 1..Len(s) : s[i] \in kids /\ i \in DOMAIN stack' /\ stack'[i] = s[i]
  /\ \A c \in kids : \E i \in 1..Len(s) : s[i] = c
  /\ \A i, j \in 1..Len(s) : i < j => Last(s[i]) < Last(s[j])
  /\ \A i \in DOMAIN stack' :
       i > Len(s) => /\ i - Len(s) + 1 \in DOMAIN stack
                     /\ stack'[i] = stack[i - Len(s) + 1]
  /\ \A k \in DOMAIN stack :
       k # 1 => /\ Len(s) + k - 1 \in DOMAIN stack'
                /\ stack'[Len(s) + k - 1] = stack[k]

LEMMA Pushed ==
  ASSUME WInv, Push PROVE \E s \in Seq(Path) : Stacked(s)
  <1>0. place = "stat"
    BY DEF Push
  <1>1. /\ stack \in Seq(Path) /\ stack # <<>> /\ kids \subseteq Path
    BY <1>0 DEF WInv, Types, Routed
  <1>2. Cardinality(kids) \in Nat
    <2>1. kids \in SUBSET Path /\ IsFiniteSet(Path)
      BY <1>1, VaultListAssumption
    <2>2. IsFiniteSet(kids)
      BY <2>1, FS_Subset
    <2> QED BY <2>2, FS_CardinalityType
  <1> DEFINE n == Cardinality(kids)
  <1>3. PICK s \in Sortings(kids) : stack' = s \o Tail(stack)
    BY DEF Push
  <1>4. /\ s \in [1..n -> kids] /\ kids = {s[i] : i \in 1..n}
        /\ \A i, j \in 1..n : i < j => Last(s[i]) < Last(s[j])
    BY <1>3 DEF Sortings
  <1> DEFINE t == Tail(stack)
  <1>5. /\ t \in Seq(Path) /\ Len(stack) \in Nat \ {0} /\ Len(t) = Len(stack) - 1
        /\ \A i \in 1..Len(stack) - 1 : t[i] = stack[i + 1]
    BY <1>1, TailPaths
  <1>6. stack' = s \o t
    BY <1>3
  <1> HIDE DEF n, t
  <1>7. s \in Seq(Path) /\ Len(s) = n /\ n \in Nat
    <2>1. n \in Nat
      BY <1>2 DEF n
    <2>2. \A i \in 1..n : s[i] \in Path
      BY <1>1, <1>4
    <2>3. s \in [1..n -> Path]
      BY <1>4, <2>2
    <2>4. s \in Seq(Path)
      BY <2>1, <2>3
    <2>5. Len(s) = n
      BY <2>1, <2>3
    <2> QED BY <2>1, <2>4, <2>5
  <1>8. /\ s \o t \in Seq(Path) /\ Len(s \o t) = Len(s) + Len(t)
        /\ \A i \in 1..Len(s) + Len(t) : (s \o t)[i] = IF i <= Len(s) THEN s[i] ELSE t[i - Len(s)]
    BY <1>5, <1>7, ConcatProperties, Zenon
  <1> DEFINE u == stack'
  <1>9. /\ u \in Seq(Path) /\ Len(u) = n + Len(stack) - 1
        /\ \A i \in 1..n + Len(stack) - 1 : u[i] = IF i <= n THEN s[i] ELSE t[i - n]
    <2>1. n + Len(t) = n + Len(stack) - 1
      BY <1>5, <1>7
    <2> QED BY <1>6, <1>7, <1>8, <2>1
  <1> HIDE DEF u
  <1>10. DOMAIN u = 1..n + Len(stack) - 1 /\ DOMAIN stack = 1..Len(stack)
    BY <1>1, <1>9
  <1>11. \A i \in 1..n : s[i] \in kids /\ i \in DOMAIN u /\ u[i] = s[i]
    BY <1>4, <1>5, <1>7, <1>9, <1>10
  <1>12. \A i \in DOMAIN u : i > n => i - n + 1 \in DOMAIN stack /\ u[i] = stack[i - n + 1]
    <2> SUFFICES ASSUME NEW i \in DOMAIN u, i > n
                 PROVE  i - n + 1 \in DOMAIN stack /\ u[i] = stack[i - n + 1]
      OBVIOUS
    <2>1. i \in Nat /\ i - n \in 1..Len(stack) - 1 /\ i - n + 1 \in 1..Len(stack)
      BY <1>5, <1>7, <1>10
    <2>2. u[i] = t[i - n]
      BY <1>7, <1>9, <1>10, <2>1
    <2> QED BY <1>5, <1>10, <2>1, <2>2
  <1>13. \A k \in DOMAIN stack : k # 1 => n + k - 1 \in DOMAIN u /\ u[n + k - 1] = stack[k]
    <2> SUFFICES ASSUME NEW k \in DOMAIN stack, k # 1
                 PROVE  n + k - 1 \in DOMAIN u /\ u[n + k - 1] = stack[k]
      OBVIOUS
    <2> DEFINE m == n + k - 1
    <2>1. /\ k \in Nat /\ k - 1 \in 1..Len(stack) - 1 /\ (k - 1) + 1 = k
          /\ m \in 1..n + Len(stack) - 1 /\ ~(m <= n) /\ m - n = k - 1
      BY <1>5, <1>7, <1>10
    <2> HIDE DEF m
    <2>2. u[m] = t[m - n]
      BY <1>9, <2>1
    <2>3. t[k - 1] = stack[k]
      BY <1>5, <2>1
    <2>4. m \in DOMAIN u /\ u[m] = stack[k]
      BY <1>10, <2>1, <2>2, <2>3
    <2> QED BY <2>4 DEF m
  <1>14. \A c \in kids : \E i \in 1..n : s[i] = c
    BY <1>4 DEF n
  <1>15. \A i, j \in 1..n : i < j => Last(s[i]) < Last(s[j])
    BY <1>4 DEF n
  <1>16. Stacked(s)
    BY <1>7, <1>9, <1>11, <1>12, <1>13, <1>14, <1>15 DEF Stacked, u
  <1> QED BY <1>7, <1>16

\* The children lie where their directory lay.
LEMMA ChildrenInOrder ==
  ASSUME WInv, place = "stat", NEW c \in kids
  PROVE  /\ c \in Path /\ Below(c) /\ OverDirs(c)
         /\ \A k \in DOMAIN stack : k # 1 => Precedes(c, stack[k])
         /\ \A i \in DOMAIN found : Precedes(found[i], c)
  <1>1. /\ stack[1] \in Path /\ 1 \in DOMAIN stack /\ c \in Children(stack[1])
        /\ Depth(stack[1]) < MaxDepth /\ Root \in Path
    <2>1. stack \in Seq(Path) /\ stack # <<>>
      BY DEF WInv, Types, Routed
    <2> QED BY <2>1, TailPaths, WalkPaths DEF WInv, Routed
  <1>2. c \in Path /\ Len(c) = Len(stack[1]) + 1 /\ \A i \in 1..Len(stack[1]) : c[i] = stack[1][i]
    BY <1>1, ChildCells
  <1>3. Below(c)
    <2>1. IsPrefix(Root, stack[1])
      BY <1>1 DEF WInv, InOrder, Below
    <2>2. IsPrefix(stack[1], c)
      <3>1. c \in Seq(Nat) /\ stack[1] \in Seq(Nat) /\ Len(stack[1]) <= Len(c)
        BY <1>1, <1>2, PathSeq
      <3> QED BY <1>2, <3>1, PrefixCells
    <2>3. IsPrefix(Root, c)
      BY <1>1, <1>2, <2>1, <2>2, PrefixTransitive
    <2>4. Depth(c) <= MaxDepth
      <3>1. Len(stack[1]) \in Nat /\ Len(Root) \in Nat /\ MaxDepth \in Nat
        BY <1>1, PathSeq, VaultListAssumption
      <3> QED BY <1>1, <1>2, <3>1 DEF Depth, Root
    <2> QED BY <2>3, <2>4 DEF Below
  <1>4. OverDirs(c)
    BY DEF WInv, Ways
  <1>5. ASSUME NEW k \in DOMAIN stack, k # 1 PROVE Precedes(c, stack[k])
    <2>1. stack \in Seq(Path)
      BY DEF WInv, Types
    <2>2. 1 < k /\ stack[k] \in Path
      BY <1>5, <2>1
    <2>3. Precedes(stack[1], stack[k])
      BY <1>1, <2>2 DEF WInv, InOrder
    <2> QED BY <1>1, <2>2, <2>3, ChildOrder
  <1>6. ASSUME NEW i \in DOMAIN found PROVE Precedes(found[i], c)
    <2>1. Precedes(found[i], stack[1])
      BY <1>1 DEF WInv, InOrder
    <2>2. found[i] \in Path
      <3>1. found \in Seq(Path)
        BY DEF WInv, Types
      <3> QED BY <3>1
    <2> QED BY <1>1, <2>1, <2>2, ChildOrder
  <1> QED BY <1>2, <1>3, <1>4, <1>5, <1>6

LEMMA PushOrder ==
  ASSUME WInv, place = "stat", NEW s \in Seq(Path), Stacked(s), UNCHANGED <<roots, found>>
  PROVE  InOrder'
  <1> DEFINE n == Len(s)
  <1>0. /\ n \in Nat /\ DOMAIN stack' \subseteq Nat \ {0} /\ stack \in Seq(Path) /\ stack[1] \in Path
        /\ \A k \in kids : k \in Children(stack[1])
    <2>1. stack \in Seq(Path) /\ stack' \in Seq(Path) /\ stack # <<>>
      BY DEF WInv, Types, Stacked, Routed
    <2> QED BY <2>1, TailPaths DEF WInv, Routed
  <1>1. \A i \in DOMAIN stack' : i <= n => i \in 1..n /\ s[i] \in kids /\ stack'[i] = s[i]
    BY <1>0 DEF Stacked
  <1>2. \A i \in DOMAIN stack' :
          i > n => i - n + 1 \in DOMAIN stack /\ i - n + 1 # 1 /\ stack'[i] = stack[i - n + 1]
    BY <1>0 DEF Stacked
  <1>3. \A i, j \in 1..n : i < j => Last(s[i]) < Last(s[j])
    BY DEF Stacked
  <1> HIDE DEF n
  <1>4. ASSUME NEW i \in DOMAIN stack' PROVE Below(stack'[i])
    <2>1. CASE i <= n
      BY <1>1, <2>1, ChildrenInOrder
    <2>2. CASE i > n
      BY <1>2, <2>2 DEF WInv, InOrder
    <2> QED BY <1>0, <2>1, <2>2
  <1>5. ASSUME NEW i \in DOMAIN stack', NEW j \in DOMAIN stack', i < j
        PROVE  Precedes(stack'[i], stack'[j])
    <2>1. CASE j <= n
      <3>1. i <= n
        BY <1>0, <1>5, <2>1
      <3>2. Last(s[i]) < Last(s[j]) /\ s[i] \in Children(stack[1]) /\ s[j] \in Children(stack[1])
        BY <1>0, <1>1, <1>3, <1>5, <2>1, <3>1
      <3> QED BY <1>0, <1>1, <2>1, <3>1, <3>2, SiblingOrder
    <2>2. CASE i <= n /\ j > n
      BY <1>1, <1>2, <2>2, ChildrenInOrder
    <2>3. CASE i > n
      <3>1. j > n /\ i - n + 1 < j - n + 1
        BY <1>0, <1>5, <2>3
      <3>2. i - n + 1 \in DOMAIN stack /\ j - n + 1 \in DOMAIN stack
        BY <1>2, <2>3, <3>1
      <3>3. Precedes(stack[i - n + 1], stack[j - n + 1])
        BY <3>1, <3>2 DEF WInv, InOrder
      <3> QED BY <1>2, <2>3, <3>1, <3>3
    <2> QED BY <1>0, <2>1, <2>2, <2>3
  <1>6. ASSUME NEW i \in DOMAIN found, NEW j \in DOMAIN stack' PROVE Precedes(found[i], stack'[j])
    <2>1. CASE j <= n
      BY <1>1, <2>1, ChildrenInOrder
    <2>2. CASE j > n
      BY <1>2, <2>2 DEF WInv, InOrder
    <2> QED BY <1>0, <2>1, <2>2
  <1> QED BY <1>4, <1>5, <1>6 DEF InOrder, Below, Root, Depth

LEMMA PushWInv ==
  ASSUME WInv, Push PROVE WInv'
  <1>0. /\ place = "stat" /\ look = {} /\ place' = "check" /\ kids' = {}
        /\ UNCHANGED <<reading, roots, rootDev, look, found, unread, vaultRows>>
    BY DEF Push
  <1>1. PICK s \in Seq(Path) : Stacked(s)
    BY Pushed
  <1>2. /\ roots # <<>> /\ stack \in Seq(Path) /\ stack # <<>> /\ stack[1] \in Path /\ Len(s) \in Nat
        /\ 1 \in DOMAIN stack
    <2>1. stack \in Seq(Path) /\ stack # <<>>
      BY <1>0 DEF WInv, Types, Routed
    <2> QED BY <1>0, <2>1, TailPaths DEF WInv, Routed
  <1>3. Types'
    BY <1>0, <1>1 DEF WInv, Types, Stacked, reading
  <1>4. Routed'
    BY <1>0, <1>2 DEF Routed
  <1>5. Remembered'
    BY <1>0, KeepRemembered
  <1>6. InOrder'
    BY <1>0, <1>1, PushOrder
  <1>7. FoundInBounds'
    BY <1>0 DEF WInv, FoundInBounds, Depth
  <1>8. Ways'
    <2>1. ASSUME NEW i \in DOMAIN stack' PROVE OverDirs(stack'[i])
      <3>1. i \in Nat \ {0}
        BY <1>1 DEF Stacked
      <3>2. CASE i <= Len(s)
        <4>1. i \in 1..Len(s)
          BY <1>2, <3>1, <3>2
        <4>2. s[i] \in kids /\ stack'[i] = s[i]
          BY <1>1, <4>1 DEF Stacked
        <4> QED BY <4>2 DEF WInv, Ways
      <3>3. CASE i > Len(s)
        BY <1>1, <3>3 DEF WInv, Ways, Stacked
      <3> QED BY <1>2, <3>1, <3>2, <3>3
    <2> QED BY <1>0, <2>1 DEF Ways, OverDirs, Way, reading
  <1>9. FoundOverDirs'
    BY <1>0 DEF WInv, FoundOverDirs, Way, Configured, reading
  <1>10. Covered'
    <2> SUFFICES ASSUME NEW p \in Path, Standing(p)'
                 PROVE  InFound(p)' \/ \E i \in DOMAIN stack' : Leads(i, p)'
      BY <1>0 DEF Covered
    <2>1. Standing(p)
      BY <1>0, KeepStanding DEF reading
    <2>2. InFound(p) \/ \E i \in DOMAIN stack : Leads(i, p)
      BY <1>0, <2>1 DEF WInv, Covered
    <2>3. CASE InFound(p)
      BY <1>0, <2>3, KeepFound
    <2>4. ASSUME NEW k \in DOMAIN stack, Leads(k, p) PROVE \E i \in DOMAIN stack' : Leads(i, p)'
      <3>1. IsPrefix(stack[k], p)
        BY <2>4 DEF Leads
      <3>2. CASE k = 1
        <4>1. stack[1] # p /\ Toward(stack[1], p) \in kids
          BY <1>0, <2>4, <3>2 DEF Leads
        <4>2. IsPrefix(Toward(stack[1], p), p)
          BY <1>2, <3>1, <3>2, <4>1, TowardChild
        <4>3. PICK i \in 1..Len(s) : s[i] = Toward(stack[1], p)
          BY <1>1, <4>1 DEF Stacked
        <4>4. i \in DOMAIN stack' /\ stack'[i] = s[i]
          BY <1>1 DEF Stacked
        <4>5. IsPrefix(stack'[i], p)
          BY <4>2, <4>3, <4>4
        <4> QED BY <1>0, <4>4, <4>5 DEF Leads
      <3>3. CASE k # 1
        <4>1. Len(s) + k - 1 \in DOMAIN stack' /\ stack'[Len(s) + k - 1] = stack[k]
          BY <1>1, <3>3 DEF Stacked
        <4> QED BY <1>0, <3>1, <4>1 DEF Leads
      <3> QED BY <3>2, <3>3
    <2> QED BY <2>2, <2>3, <2>4
  <1>11. (Opened /\ RowsTrue /\ BlockedBySwapOnly)'
    BY <1>0, KeepRows
  <1> QED BY <1>3, <1>4, <1>5, <1>6, <1>7, <1>8, <1>9, <1>10, <1>11 DEF WInv

\* A row that is true is added.
LEMMA ReportWInv ==
  ASSUME WInv, place \in {"read", "open"}, unread # <<>>, NEW ok \in BOOLEAN, Report(ok),
         UNCHANGED <<reading, roots, rootDev, stack, look, kids, found>>,
         <<"config", Head(unread), "good">> \in always => ok,
         <<"config", Head(unread), "link">> \in always => ~ok,
         ok => {<<"config", Head(unread), "good">>, <<"config", Head(unread), "link">>} \cap sometime # {}
  PROVE  WInv'
  <1> DEFINE row == [dir |-> Head(unread), ok |-> ok]
  <1>0. place' = "read" /\ unread' = Tail(unread) /\ vaultRows' = Append(vaultRows, row)
    BY DEF Report
  <1>1. /\ unread' \in Seq(Path) /\ Head(unread) \in Path /\ vaultRows \in Seq([dir : Path, ok : BOOLEAN])
        /\ stack = <<>> /\ kids = {} /\ look = {} /\ roots # <<>>
    <2>1. unread \in Seq(Path)
      BY DEF WInv, Types
    <2> QED BY <1>0, <2>1, TailPaths DEF WInv, Types, Routed
  <1>2. row \in [dir : Path, ok : BOOLEAN] /\ row.dir = Head(unread) /\ row.ok = ok
    BY <1>1
  <1> HIDE DEF row
  <1>3. /\ vaultRows' \in Seq([dir : Path, ok : BOOLEAN])
        /\ \A i \in DOMAIN vaultRows' : (i \in DOMAIN vaultRows /\ vaultRows'[i] = vaultRows[i])
                                        \/ vaultRows'[i] = row
    BY <1>0, <1>1, <1>2
  <1>4. Types'
    BY <1>0, <1>1, <1>3 DEF WInv, Types, reading
  <1>5. Routed'
    BY <1>0, <1>1 DEF Routed
  <1>6. Remembered'
    BY KeepRemembered
  <1>7. InOrder' /\ FoundInBounds'
    BY KeepOrder
  <1>8. Ways' /\ FoundOverDirs'
    BY KeepWays DEF reading
  <1>9. Covered'
    <2> SUFFICES ASSUME NEW p \in Path, Standing(p)' PROVE InFound(p)'
      BY <1>0 DEF Covered
    <2>1. Standing(p)
      BY KeepStanding DEF reading
    <2>2. InFound(p)
      BY <2>1 DEF WInv, Covered
    <2> QED BY <2>2, KeepFound
  <1>10. Opened' /\ BlockedBySwapOnly'
    BY <1>0 DEF Opened, BlockedBySwapOnly
  <1>11. RowsTrue'
    BY <1>2, <1>3 DEF WInv, RowsTrue, reading
  <1> QED BY <1>4, <1>5, <1>6, <1>7, <1>8, <1>9, <1>10, <1>11 DEF WInv

LEMMA LstatConfigWInv ==
  ASSUME WInv, LstatConfig PROVE WInv'
  <1>0. /\ place = "read" /\ unread # <<>>
        /\ UNCHANGED <<reading, roots, rootDev, stack, look, kids, found>>
    BY DEF LstatConfig
  <1> DEFINE d == Head(unread)
  <1>1. /\ d \in Path /\ tree \in [Path -> Node] /\ always \subseteq Facts(tree)
        /\ stack = <<>> /\ kids = {} /\ look = {} /\ roots # <<>>
    <2>1. unread \in Seq(Path)
      BY DEF WInv, Types
    <2> QED BY <1>0, <2>1, TailPaths DEF WInv, Types, Routed, Remembered
  <1> HIDE DEF d
  <1>2. \A c : <<"config", d, c>> \in always => UsableIn(tree, d) /\ tree[d].config = c
    BY <1>1, ConfigFact
  <1>3. CASE HasConfig(d) /\ tree[d].config \in {"good", "bad"}
    <2>0. place' = "open" /\ UNCHANGED <<vaultRows, unread>>
      BY <1>3 DEF LstatConfig, d
    <2>1. Types'
      BY <1>0, <2>0 DEF WInv, Types, reading
    <2>2. Routed'
      BY <1>0, <1>1, <2>0 DEF Routed
    <2>3. Remembered'
      BY <1>0, KeepRemembered
    <2>4. InOrder' /\ FoundInBounds'
      BY <1>0, KeepOrder
    <2>5. Ways' /\ FoundOverDirs'
      BY <1>0, KeepWays DEF reading
    <2>6. Covered'
      <3> SUFFICES ASSUME NEW p \in Path, Standing(p)' PROVE InFound(p)'
        BY <2>0 DEF Covered
      <3>1. Standing(p)
        BY <1>0, KeepStanding DEF reading
      <3>2. InFound(p)
        BY <1>0, <3>1 DEF WInv, Covered
      <3> QED BY <1>0, <3>2, KeepFound
    <2>7. Opened'
      BY <1>0, <1>2, <1>3, <2>0 DEF Opened, d, reading
    <2>8. RowsTrue' /\ BlockedBySwapOnly'
      <3>1. RowsTrue'
        BY <1>0, <2>0 DEF WInv, RowsTrue, reading
      <3> QED BY <2>0, <3>1 DEF BlockedBySwapOnly
    <2> QED BY <2>1, <2>2, <2>3, <2>4, <2>5, <2>6, <2>7, <2>8 DEF WInv
  <1>4. CASE ~(HasConfig(d) /\ tree[d].config \in {"good", "bad"})
    <2>1. Report(FALSE)
      BY <1>4 DEF LstatConfig, d
    <2>2. <<"config", d, "good">> \notin always
      BY <1>2, <1>4 DEF HasConfig, Usable
    <2> QED BY <1>0, <2>1, <2>2, ReportWInv DEF d
  <1> QED BY <1>3, <1>4

LEMMA OpenConfigWInv ==
  ASSUME WInv, OpenConfig PROVE WInv'
  <1>0. /\ place = "open" /\ UNCHANGED <<reading, roots, rootDev, stack, look, kids, found>>
    BY DEF OpenConfig
  <1> DEFINE d == Head(unread)
  <1>1. /\ d \in Path /\ tree \in [Path -> Node] /\ unread # <<>>
        /\ always \subseteq Facts(tree) /\ Facts(tree) \subseteq sometime
        /\ stack = <<>> /\ kids = {} /\ look = {} /\ roots # <<>>
    <2>1. unread \in Seq(Path) /\ unread # <<>>
      BY <1>0 DEF WInv, Types, Routed
    <2> QED BY <1>0, <2>1, TailPaths DEF WInv, Types, Routed, Remembered
  <1>2. <<"config", d, "link">> \notin always /\ <<"config", d, "fifo">> \notin always
    BY <1>0 DEF WInv, Opened
  <1> HIDE DEF d
  <1>3. \A c : <<"config", d, c>> \in always => UsableIn(tree, d) /\ tree[d].config = c
    BY <1>1, ConfigFact
  <1>4. HasConfig(d) => <<"config", d, tree[d].config>> \in sometime
    BY <1>1, ConfigFact DEF HasConfig, Usable
  <1>5. CASE HasConfig(d) /\ tree[d].config = "fifo"
    <2>0. place' = "blocked" /\ UNCHANGED <<vaultRows, unread>>
      BY <1>5 DEF OpenConfig, d
    <2>1. Types'
      BY <1>0, <2>0 DEF WInv, Types, reading
    <2>2. Routed'
      BY <1>0, <1>1, <2>0 DEF Routed
    <2>3. Remembered'
      BY <1>0, KeepRemembered
    <2>4. InOrder' /\ FoundInBounds'
      BY <1>0, KeepOrder
    <2>5. Ways' /\ FoundOverDirs'
      BY <1>0, KeepWays DEF reading
    <2>6. Covered' /\ Opened'
      BY <2>0 DEF Covered, Opened
    <2>7. RowsTrue'
      BY <1>0, <2>0 DEF WInv, RowsTrue, reading
    <2>8. BlockedBySwapOnly'
      BY <1>0, <1>2, <1>4, <1>5, <2>0 DEF BlockedBySwapOnly, d, reading
    <2> QED BY <2>1, <2>2, <2>3, <2>4, <2>5, <2>6, <2>7, <2>8 DEF WInv
  <1>6. CASE ~(HasConfig(d) /\ tree[d].config = "fifo")
    <2> DEFINE ok == HasConfig(d) /\ tree[d].config \in {"good", "link"}
    <2>1. Report(ok)
      BY <1>6 DEF OpenConfig, d
    <2>2. <<"config", d, "good">> \in always => ok
      BY <1>3 DEF HasConfig, Usable
    <2>3. ok => {<<"config", d, "good">>, <<"config", d, "link">>} \cap sometime # {}
      BY <1>4
    <2>4. ok \in BOOLEAN
      OBVIOUS
    <2> HIDE DEF ok
    <2> QED BY <1>0, <1>1, <1>2, <2>1, <2>2, <2>3, <2>4, ReportWInv DEF d
  <1> QED BY <1>5, <1>6

LEMMA RootDoneWInv ==
  ASSUME WInv, RootDone PROVE WInv'
  <1>0. /\ place = "read" /\ place' = "root" /\ roots' = Tail(roots) /\ found' = <<>>
        /\ UNCHANGED <<reading, rootDev, stack, look, kids, unread, vaultRows>>
    BY DEF RootDone
  <1>1. stack = <<>> /\ kids = {} /\ look = {} /\ roots' \in Seq(Path)
    <2>1. roots \in Seq(Path) /\ roots # <<>>
      BY <1>0 DEF WInv, Types, Routed
    <2> QED BY <1>0, <2>1, TailPaths DEF WInv, Routed
  <1>2. Types'
    <2>1. found' \in Seq(Path)
      BY <1>0
    <2> QED BY <1>0, <1>1, <2>1 DEF WInv, Types, reading
  <1>3. Routed'
    BY <1>0, <1>1 DEF Routed
  <1>4. Remembered'
    BY <1>0, KeepRemembered
  <1>5. InOrder' /\ FoundInBounds' /\ Ways' /\ FoundOverDirs'
    BY <1>0, <1>1, NothingYet
  <1>6. Covered'
    BY <1>0 DEF Covered
  <1>7. (Opened /\ RowsTrue /\ BlockedBySwapOnly)'
    BY <1>0, KeepRows
  <1> QED BY <1>2, <1>3, <1>4, <1>5, <1>6, <1>7 DEF WInv

LEMMA PrintRowsWInv ==
  ASSUME WInv, PrintRows PROVE WInv'
  <1>0. /\ place = "root" /\ place' = "done"
        /\ UNCHANGED <<reading, roots, rootDev, stack, look, kids, found, unread, vaultRows>>
    BY DEF PrintRows
  <1>1. Types'
    BY <1>0 DEF WInv, Types, reading
  <1>2. Routed'
    BY <1>0 DEF WInv, Routed
  <1>3. Remembered'
    BY <1>0, KeepRemembered
  <1>4. InOrder' /\ FoundInBounds'
    BY <1>0, KeepOrder
  <1>5. Ways' /\ FoundOverDirs'
    BY <1>0, KeepWays DEF reading
  <1>6. Covered'
    BY <1>0 DEF Covered
  <1>7. (Opened /\ RowsTrue /\ BlockedBySwapOnly)'
    BY <1>0, KeepRows
  <1> QED BY <1>1, <1>2, <1>3, <1>4, <1>5, <1>6, <1>7 DEF WInv

\* What stands after a change stood before it; what was true stays so.
LEMMA ChangeWInv ==
  ASSUME WInv, NEW p \in Path, NEW n \in Nodes, Change(p, n) PROVE WInv'
  <1>0. /\ tree' = [tree EXCEPT ![p] = n] /\ changes' = changes + 1 /\ changes < MaxChanges
        /\ always' = always \cap Facts(tree)' /\ sometime' = sometime \cup Facts(tree)'
        /\ place # "blocked"
        /\ UNCHANGED <<place, roots, rootDev, stack, look, kids, found, unread, vaultRows>>
    BY DEF Change
  <1>1. always' \subseteq always /\ sometime \subseteq sometime'
    BY <1>0
  <1>2. Types'
    <2>1. tree' \in [Path -> Node]
      BY <1>0, VaultListAssumption DEF WInv, Types
    <2>2. changes' \in 0..MaxChanges
      BY <1>0, VaultListAssumption DEF WInv, Types
    <2> QED BY <1>0, <2>1, <2>2 DEF WInv, Types
  <1>3. Routed'
    BY <1>0 DEF WInv, Routed, Depth, Children
  <1>4. Remembered'
    BY <1>0 DEF Remembered
  <1>5. InOrder' /\ FoundInBounds'
    BY <1>0, KeepOrder
  <1>6. Ways'
    BY <1>0, <1>1 DEF WInv, Ways, OverDirs, Way
  <1>7. FoundOverDirs'
    BY <1>0, <1>1 DEF WInv, FoundOverDirs, Way, Configured
  <1>8. ASSUME NEW q \in Path, Standing(q)' PROVE Standing(q)
    BY <1>0, <1>1, <1>8 DEF Standing, Configured, Way, Depth
  <1>9. Covered'
    <2>1. ASSUME place \in {"check", "list", "stat"}, NEW q \in Path, Standing(q)'
          PROVE  InFound(q)' \/ \E i \in DOMAIN stack' : Leads(i, q)'
      <3>1. InFound(q) \/ \E i \in DOMAIN stack : Leads(i, q)
        BY <1>8, <2>1 DEF WInv, Covered
      <3>2. \A i \in DOMAIN stack : Leads(i, q) => Leads(i, q)'
        BY <1>0 DEF Leads, Toward
      <3> QED BY <1>0, <3>1, <3>2, KeepFound
    <2>2. ASSUME place \in {"read", "open"}, NEW q \in Path, Standing(q)' PROVE InFound(q)'
      <3>1. InFound(q)
        BY <1>8, <2>2 DEF WInv, Covered
      <3> QED BY <1>0, <3>1, KeepFound
    <2> QED BY <1>0, <2>1, <2>2 DEF Covered
  <1>10. Opened' /\ BlockedBySwapOnly'
    BY <1>0, <1>1 DEF WInv, Opened, BlockedBySwapOnly
  <1>11. RowsTrue'
    BY <1>0, <1>1 DEF WInv, RowsTrue
  <1> QED BY <1>2, <1>3, <1>4, <1>5, <1>6, <1>7, <1>9, <1>10, <1>11 DEF WInv

LEMMA StepWInv ==
  ASSUME WInv, [WalkNext]_walkVars PROVE WInv'
  <1>1. CASE Canonicalize
    BY <1>1, CanonicalizeWInv
  <1>2. CASE Enter
    BY <1>2, EnterWInv
  <1>3. CASE Check
    BY <1>3, CheckWInv
  <1>4. CASE List
    BY <1>4, ListWInv
  <1>5. CASE Push
    BY <1>5, PushWInv
  <1>6. CASE Walked
    BY <1>6, WalkedWInv
  <1>7. CASE \E c \in Path : Stat(c)
    BY <1>7, StatWInv
  <1>8. CASE LstatConfig
    BY <1>8, LstatConfigWInv
  <1>9. CASE OpenConfig
    BY <1>9, OpenConfigWInv
  <1>10. CASE RootDone
    BY <1>10, RootDoneWInv
  <1>11. CASE PrintRows
    BY <1>11, PrintRowsWInv
  <1>12. CASE \E p \in Path \ {<<>>}, n \in Nodes : Change(p, n)
    BY <1>12, ChangeWInv
  <1>13. CASE UNCHANGED walkVars
    <2>0. UNCHANGED <<reading, place, roots, rootDev, stack, look, kids, found, unread, vaultRows>>
      BY <1>13 DEF walkVars, reading
    <2>1. Types' /\ Routed'
      BY <2>0 DEF WInv, Types, Routed, reading, Depth, Children
    <2>2. Remembered'
      BY <2>0, KeepRemembered
    <2>3. InOrder' /\ FoundInBounds'
      BY <2>0, KeepOrder
    <2>4. Ways' /\ FoundOverDirs'
      BY <2>0, KeepWays DEF reading
    <2>5. Covered'
      BY <2>0 DEF WInv, Covered, Standing, Configured, Way, Depth, InFound, Leads, Toward, reading
    <2>6. Opened' /\ BlockedBySwapOnly'
      BY <2>0 DEF WInv, Opened, BlockedBySwapOnly, reading
    <2>7. RowsTrue'
      BY <2>0 DEF WInv, RowsTrue, reading
    <2> QED BY <2>1, <2>2, <2>3, <2>4, <2>5, <2>6, <2>7 DEF WInv
  <1> QED
    BY <1>1, <1>2, <1>3, <1>4, <1>5, <1>6, <1>7, <1>8, <1>9, <1>10, <1>11, <1>12, <1>13 DEF WalkNext

LEMMA AlwaysWInv == WalkSpec => []WInv
  BY InitWInv, StepWInv, PTL DEF WalkSpec

-----------------------------------------------------------------------------
(* The theorems. *)

\* Every variable keeps its type, and no directory waits to be visited below
\* another that waits.
THEOREM WalkTypes == WalkSpec => []WalkTypeOK
  BY AlwaysWInv, WInvTypes, PTL

\* What `vault list` finds lies within the depth, in the order of the walk, and
\* no vault inside another, however the tree changes meanwhile.
THEOREM WalkStaysInReach == WalkSpec => []FoundInReach
  <1>1. WInv => FoundInReach
    BY DEF WInv, FoundInReach
  <1> QED BY <1>1, AlwaysWInv, PTL

\* Every vault that stands while the command runs is found, whatever changes
\* around it.
THEOREM WalkMissesNothing == WalkSpec => []StandingFound
  <1>1. WInv => StandingFound
    BY DEF WInv, Covered, StandingFound, InFound
  <1> QED BY <1>1, AlwaysWInv, PTL

\* A row never says of a file what it was at no time, lstat and open being two
\* steps or not.
THEOREM RowsTell == WalkSpec => []RowsTrue
  <1>1. WInv => RowsTrue
    BY DEF WInv
  <1> QED BY <1>1, AlwaysWInv, PTL

\* Only a pipe put in place between lstat and open blocks the command.
THEOREM OnlySwapsBlockTheWalk == WalkSpec => []BlockedBySwapOnly
  <1>1. WInv => BlockedBySwapOnly
    BY DEF WInv
  <1> QED BY <1>1, AlwaysWInv, PTL
=============================================================================
