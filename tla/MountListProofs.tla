-------------------------- MODULE MountListProofs --------------------------
(***************************************************************************)
(* Theorems about MountList, for any finitely many processes and mounts.   *)
(*                                                                         *)
(* What makes them hold is how a process comes to its row: it is one that  *)
(* the listing has not come to, or a claim not looked at, or a fuse claim  *)
(* that waits, or a row, and never two of these (OneState); and every row  *)
(* with a mount point is one entry of the mount table (Entries).           *)
(***************************************************************************)
EXTENDS MountList, FiniteSetTheorems, SequenceTheorems, TLAPS

\* No process and no other program has two mounts; a process mounts what it
\* was asked to.
TableInv ==
  /\ \A i, j \in 1..Len(table) : table[i].by = table[j].by => i = j
  /\ \A i \in 1..Len(table) : table[i].by \in Proc =>
       LET p == table[i].by
       IN  /\ state[p] \in {"serving", "gone"}
           /\ arg[p].kind = "fuse" /\ table[i].at = arg[p].at

\* What is steady is there, and what is there has been seen.
RememberedMounts ==
  /\ at # "idle" => steady \subseteq Things /\ Things \subseteq ever
  /\ \A t \in steady \cup ever : t[1] = "mount" => t = <<"mount", t[2], t[3]>>

Running(p) == <<"run", p>>
Listen(p) == <<"listen", p>>

\* Where a process is on its way to a row.
Ahead(p) == p \in todo
Claims(p) ==
  /\ at \in {"scan", "cwd", "fds", "tcp"}
  /\ \E i \in 1..Len(claims) : next <= i /\ claims[i].pid = p
Waits(p) == \E i \in waiting : claims[i].pid = p
HasRow(p) == \E i \in 1..Len(rows) : rows[i].pid = p

\* The claims are of different processes of the user, and say what these were
\* asked for, as far as it can be told.
ClaimInv ==
  /\ \A i, j \in 1..Len(claims) : claims[i].pid = claims[j].pid => i = j
  /\ \A i \in 1..Len(claims) :
       LET p == claims[i].pid
       IN  /\ p \notin todo
           /\ Running(p) \in ever /\ arg[p].mine
           /\ claims[i].kind = arg[p].kind
           /\ claims[i].names \in {arg[p].at, NoPoint}
           /\ \/ arg[p].spelled = "canonical"
              \/ arg[p].spelled = "relative" /\ Running(p) \in steady
              => claims[i].names = arg[p].at
  /\ \A i \in waiting : claims[i].kind = "fuse"
  /\ at \in {"fds", "tcp"} => \A i \in waiting : i < next

\* At most one of the four, for every process that has to be listed one.
OneState ==
  /\ \A i, j \in 1..Len(rows) : rows[i].pid = rows[j].pid /\ rows[i].pid # NoPid => i = j
  /\ \A p \in Proc : HasRow(p) => ~Ahead(p) /\ ~Claims(p) /\ ~Waits(p)
  /\ \A p \in Proc : Running(p) \in steady /\ arg[p].mine /\ Listed(p)
       => Ahead(p) \/ Claims(p) \/ Waits(p) \/ HasRow(p)

\* What rows say of processes.
RowInv ==
  \A i \in 1..Len(rows) :
    /\ rows[i].pid # NoPid => Running(rows[i].pid) \in ever /\ arg[rows[i].pid].mine
    /\ rows[i].kind = "webdav" =>
         /\ rows[i].pid # NoPid /\ arg[rows[i].pid].kind = "webdav"
         /\ rows[i].at = NoPoint
         /\ Listen(rows[i].pid) \in steady => rows[i].state = "listening"
         /\ rows[i].state = "listening" => Listen(rows[i].pid) \in ever

\* The places of the listing.
StageInv ==
  /\ at = "idle" =>
       todo = {} /\ claims = <<>> /\ next = 1 /\ waiting = {} /\ rows = <<>> /\ steady = {}
  /\ at \in {"scan", "cwd"} => next = 1
  /\ os = "linux" /\ at = "cwd" => \E p \in todo : Least(p) /\ Running(p) \in ever /\ arg[p].mine
  /\ at = "scan" => os = "linux"
  /\ os = "linux" /\ at \notin {"scan", "cwd"} => todo = {}
  /\ os = "macos" =>
       /\ claims = <<>> /\ waiting = {} /\ next = 1
       /\ at \notin {"tcp", "match"}
       /\ at = "fds" => \A p \in todo : Running(p) \in ever /\ arg[p].mine /\ arg[p].kind = "webdav"
  /\ at = "tcp" =>
       /\ next <= Len(claims) /\ claims[next].kind = "webdav"
       /\ Listen(claims[next].pid) \in steady => socket
  /\ at \in {"scan", "cwd"} => waiting = {} /\ rows = <<>>
  /\ at \in {"scan", "cwd", "fds", "tcp"} => \A i \in 1..Len(rows) : rows[i].kind = "webdav"
  /\ at = "done" => todo = {} /\ waiting = {} /\ (os = "linux" => next = Len(mounts) + 1)

Placing == os = "linux" /\ at \in {"match", "done"}

\* The table that was read: no mount twice, none that never was, and every steady
\* one unless it could not be read.
ReadInv ==
  Placing =>
    /\ \A i, j \in 1..Len(mounts) : mounts[i].by = mounts[j].by => i = j
    /\ \A i \in 1..Len(mounts) : <<"mount", mounts[i].by, mounts[i].at>> \in ever
    /\ \A x \in Proc \cup Alien, point \in Point : ~blank /\ <<"mount", x, point>> \in steady =>
         \E i \in 1..Len(mounts) : mounts[i].by = x /\ mounts[i].at = point

\* f takes every row with a mount point to its mount.
Tells(f) ==
  /\ \A i \in 1..Len(rows) : rows[i].at # NoPoint =>
       /\ f[i] < next /\ mounts[f[i]].at = rows[i].at
       /\ rows[i].state = "unidentified" => mounts[f[i]].by \in Alien /\ rows[i].at \in Home
       /\ \A j \in 1..Len(rows) : rows[j].at # NoPoint /\ f[i] = f[j] => i = j
  /\ \A k \in 1..Len(mounts) : k < next /\ mounts[k].by \in Proc =>
       \E i \in 1..Len(rows) : rows[i].at # NoPoint /\ f[i] = k

Entries == Placing => \E f \in [1..Len(rows) -> 1..Len(mounts) + 1] : Tells(f)

\* A mounted process that alone asks for its point.
Sole(p) ==
  /\ {Running(p), <<"mount", p, arg[p].at>>} \subseteq steady
  /\ arg[p].mine /\ arg[p].spelled # "odd"
  /\ \A q \in Proc \ {p} : Running(q) \in ever => ~arg[q].mine \/ arg[q].at # arg[p].at

\* It waits for its mount or has been given one.
OwnerInv ==
  Placing /\ ~blank => \A p \in Proc : Sole(p) =>
    \/ \E i \in 1..Len(rows) : rows[i] = FuseRow(p, arg[p].at, "mounted")
    \/ /\ Waits(p)
       /\ \E k \in 1..Len(mounts) : next <= k /\ mounts[k].by = p /\ mounts[k].at = arg[p].at

World == LifeTypeOK /\ TableInv /\ RememberedMounts
Underway == at # "failed" => ClaimInv /\ OneState /\ RowInv /\ StageInv
LInv == World /\ TypeOK /\ Underway /\ ReadInv /\ Entries /\ OwnerInv

-----------------------------------------------------------------------------
(* The world. *)

LEMMA ThingRun == \A p \in Proc : Running(p) \in Things <=> Alive(p)
  BY SMTT(30) DEF Things, Running

LEMMA ThingListen == \A p \in Proc : Listen(p) \in Things <=> Listens(p)
  BY SMTT(30) DEF Things, Listen

LEMMA ThingMount ==
  \A x, point : <<"mount", x, point>> \in Things <=>
    \E i \in 1..Len(table) : table[i].by = x /\ table[i].at = point
  BY SMTT(30) DEF Things

LEMMA ThingShape == \A t \in Things : t[1] = "mount" => t = <<"mount", t[2], t[3]>>
  <1>1. \A p : Running(p)[1] # "mount" /\ Listen(p)[1] # "mount"
    BY DEF Running, Listen
  <1>2. \A x, point : LET t == <<"mount", x, point>> IN t = <<"mount", t[2], t[3]>>
    OBVIOUS
  <1> QED BY <1>1, <1>2 DEF Things, Running, Listen

LEMMA ThingShapeNext == (\A t \in Things : t[1] = "mount" => t = <<"mount", t[2], t[3]>>)'
  BY ThingShape, PTL

\* What is left of a sequence keeps its elements, each from a place of its own.
LEMMA Removed ==
  ASSUME NEW S, NEW t \in Seq(S), NEW i \in 1..Len(t)
  PROVE  /\ RemoveAt(t, i) \in Seq(S)
         /\ \E h \in [1..Len(RemoveAt(t, i)) -> 1..Len(t)] :
              /\ \A j \in 1..Len(RemoveAt(t, i)) : RemoveAt(t, i)[j] = t[h[j]]
              /\ \A j, k \in 1..Len(RemoveAt(t, i)) : h[j] = h[k] => j = k
  <1> DEFINE a == SubSeq(t, 1, i - 1)
             b == SubSeq(t, i + 1, Len(t))
             h == [j \in 1..Len(t) - 1 |-> IF j < i THEN j ELSE j + 1]
  <1>0. Len(t) \in Nat /\ i \in Int /\ 1 <= i /\ i <= Len(t)
    OBVIOUS
  <1>1. a \in Seq(S) /\ Len(a) = i - 1 /\ \A j \in 1..i - 1 : a[j] = t[j]
    OBVIOUS
  <1>2. b \in Seq(S) /\ Len(b) = Len(t) - i /\ \A j \in 1..Len(t) - i : b[j] = t[j + i]
    OBVIOUS
  <1> HIDE DEF a, b
  <1>3. RemoveAt(t, i) = a \o b
    BY DEF RemoveAt, a, b
  <1>4. /\ a \o b \in Seq(S) /\ Len(a \o b) = Len(t) - 1
        /\ \A j \in 1..Len(t) - 1 : (a \o b)[j] = IF j <= Len(a) THEN a[j] ELSE b[j - Len(a)]
    <2>1. /\ a \o b \in Seq(S) /\ Len(a \o b) = Len(a) + Len(b)
          /\ \A j \in 1..Len(a) + Len(b) : (a \o b)[j] = IF j <= Len(a) THEN a[j] ELSE b[j - Len(a)]
      BY <1>1, <1>2, ConcatProperties, Zenon
    <2>2. Len(a) + Len(b) = Len(t) - 1
      BY <1>0, <1>1, <1>2
    <2> QED BY <2>1, <2>2
  <1>5. \A j \in 1..Len(t) - 1 : (a \o b)[j] = t[h[j]]
    BY <1>0, <1>1, <1>2, <1>4
  <1>6. h \in [1..Len(t) - 1 -> 1..Len(t)] /\ \A j, k \in 1..Len(t) - 1 : h[j] = h[k] => j = k
    BY <1>0
  <1>7. Len(RemoveAt(t, i)) = Len(t) - 1
    BY <1>3, <1>4
  <1> HIDE DEF h
  <1>8. \A j \in 1..Len(RemoveAt(t, i)) : RemoveAt(t, i)[j] = t[h[j]]
    BY <1>3, <1>5, <1>7
  <1>9. /\ h \in [1..Len(RemoveAt(t, i)) -> 1..Len(t)]
        /\ \A j, k \in 1..Len(RemoveAt(t, i)) : h[j] = h[k] => j = k
    BY <1>6, <1>7
  <1> QED BY <1>3, <1>4, <1>8, <1>9, Zenon

\* A table with some of the mounts that were there, and life goes forward.
LEMMA TableKeeps ==
  ASSUME LifeTypeOK, TableInv, table' \in Seq(Mounting), arg' = arg,
         \A p \in Proc : state[p] \in {"serving", "gone"} => state'[p] \in {"serving", "gone"},
         \E h \in [1..Len(table') -> 1..Len(table)] :
           /\ \A j \in 1..Len(table') : table'[j] = table[h[j]]
           /\ \A j, k \in 1..Len(table') : h[j] = h[k] => j = k
  PROVE  TableInv'
  <1>1. PICK h \in [1..Len(table') -> 1..Len(table)] :
           /\ \A j \in 1..Len(table') : table'[j] = table[h[j]]
           /\ \A j, k \in 1..Len(table') : h[j] = h[k] => j = k
    OBVIOUS
  <1>2. \A j \in 1..Len(table') : h[j] \in 1..Len(table) /\ table'[j] = table[h[j]]
    BY <1>1
  <1>3. ASSUME NEW i \in 1..Len(table'), NEW j \in 1..Len(table'), table'[i].by = table'[j].by
        PROVE  i = j
    <2>1. h[i] = h[j]
      BY <1>2, <1>3 DEF TableInv
    <2> QED BY <1>1, <2>1
  <1>4. ASSUME NEW i \in 1..Len(table'), table'[i].by \in Proc
        PROVE  LET p == table'[i].by
               IN  /\ state'[p] \in {"serving", "gone"}
                   /\ arg[p].kind = "fuse" /\ table'[i].at = arg[p].at
    <2>1. PICK k \in 1..Len(table) : table'[i] = table[k]
      BY <1>2
    <2> QED BY <1>4, <2>1 DEF TableInv
  <1> QED BY <1>3, <1>4 DEF TableInv

LEMMA TakenAway ==
  ASSUME LifeTypeOK, TableInv, TakeAway, arg' = arg,
         \A p \in Proc : state[p] \in {"serving", "gone"} => state'[p] \in {"serving", "gone"}
  PROVE  table' \in Seq(Mounting) /\ TableInv'
  <1>1. PICK i \in 1..Len(table) : table' = RemoveAt(table, i)
    BY DEF TakeAway
  <1>2. table \in Seq(Mounting)
    BY DEF LifeTypeOK
  <1>3. /\ table' \in Seq(Mounting)
        /\ \E h \in [1..Len(table') -> 1..Len(table)] :
              /\ \A j \in 1..Len(table') : table'[j] = table[h[j]]
              /\ \A j, k \in 1..Len(table') : h[j] = h[k] => j = k
    BY <1>1, <1>2, Removed
  <1> QED BY <1>3, TableKeeps, Zenon

\* A mount by something that has none is put on top.
LEMMA PutOnTop ==
  ASSUME LifeTypeOK, TableInv, NEW m \in Mounting, table' = Append(table, m), arg' = arg,
         \A p \in Proc : state[p] \in {"serving", "gone"} => state'[p] \in {"serving", "gone"},
         ~In(table, m.by),
         m.by \in Proc => /\ state'[m.by] = "serving"
                          /\ arg[m.by].kind = "fuse" /\ m.at = arg[m.by].at
  PROVE  table' \in Seq(Mounting) /\ TableInv'
  <1>1. /\ table' \in Seq(Mounting) /\ Len(table') = Len(table) + 1
        /\ Len(table) \in Nat
        /\ \A i \in 1..Len(table) : table'[i] = table[i]
        /\ table'[Len(table) + 1] = m
    BY DEF LifeTypeOK
  <1>2. \A i \in 1..Len(table') : i \in 1..Len(table) \/ i = Len(table) + 1
    BY <1>1
  <1>3. \A i, j \in 1..Len(table') : table'[i].by = table'[j].by => i = j
    BY <1>1, <1>2 DEF TableInv, In
  <1>4. ASSUME NEW i \in 1..Len(table'), table'[i].by \in Proc
        PROVE  LET p == table'[i].by
               IN  /\ state'[p] \in {"serving", "gone"}
                   /\ arg[p].kind = "fuse" /\ table'[i].at = arg[p].at
    <2>1. CASE i \in 1..Len(table)
      BY <1>1, <1>4, <2>1 DEF TableInv
    <2>2. CASE i = Len(table) + 1
      BY <1>1, <1>4, <2>2
    <2> QED BY <1>2, <2>1, <2>2
  <1> QED BY <1>1, <1>3, <1>4 DEF TableInv

LEMMA LifeSteps ==
  ASSUME LifeTypeOK, TableInv, LifeNext
  PROVE  LifeTypeOK' /\ TableInv' /\ arg' = arg
  <1> USE DEF LifeTypeOK
  <1>1. ASSUME NEW p \in Proc, Start(p)
        PROVE  LifeTypeOK' /\ TableInv' /\ arg' = arg
    BY <1>1 DEF Start, TableInv
  <1>2. ASSUME NEW p \in Proc, Serve(p)
        PROVE  LifeTypeOK' /\ TableInv' /\ arg' = arg
    <2>1. /\ state' \in [Proc -> {"idle", "starting", "serving", "gone"}] /\ arg' = arg
          /\ state[p] = "starting" /\ state'[p] = "serving"
          /\ \A q \in Proc : state[q] \in {"serving", "gone"} => state'[q] \in {"serving", "gone"}
      BY <1>2 DEF Serve
    <2>2. CASE arg[p].kind = "fuse"
      <3> DEFINE m == [by |-> p, at |-> arg[p].at]
      <3>1. table' = Append(table, m) /\ m \in Mounting /\ m.by = p /\ m.at = arg[p].at
        BY <1>2, <2>2, MountsAssumption DEF Serve, Mounting, Argument
      <3>2. ~In(table, p)
        BY <2>1 DEF In, TableInv
      <3> HIDE DEF m
      <3>3. table' \in Seq(Mounting) /\ TableInv'
        BY <2>1, <2>2, <3>1, <3>2, PutOnTop
      <3> QED BY <2>1, <3>3
    <2>3. CASE arg[p].kind # "fuse"
      BY <1>2, <2>1, <2>3 DEF Serve, TableInv
    <2> QED BY <2>2, <2>3
  <1>3. ASSUME NEW p \in Proc, End(p)
        PROVE  LifeTypeOK' /\ TableInv' /\ arg' = arg
    <2>1. /\ state' \in [Proc -> {"idle", "starting", "serving", "gone"}] /\ arg' = arg
          /\ \A q \in Proc : state[q] \in {"serving", "gone"} => state'[q] \in {"serving", "gone"}
      BY <1>3 DEF End
    <2>2. CASE UNCHANGED table
      BY <2>1, <2>2 DEF TableInv
    <2>3. CASE TakeAway
      BY <2>1, <2>3, TakenAway
    <2> QED BY <1>3, <2>2, <2>3 DEF End
  <1>4. CASE Unmounted
    BY <1>4, TakenAway DEF Unmounted
  <1>5. ASSUME NEW x \in Alien, NEW point \in Point, AlienMounted(x, point)
        PROVE  LifeTypeOK' /\ TableInv' /\ arg' = arg
    <2> DEFINE m == [by |-> x, at |-> point]
    <2>1. /\ table' = Append(table, m) /\ m \in Mounting /\ m.by = x /\ x \notin Proc
          /\ state' = state /\ arg' = arg /\ ~In(table, x)
      BY <1>5, MountsAssumption DEF AlienMounted, Mounting
    <2> HIDE DEF m
    <2>2. table' \in Seq(Mounting) /\ TableInv'
      BY <2>1, PutOnTop
    <2> QED BY <2>1, <2>2
  <1> QED BY <1>1, <1>2, <1>3, <1>4, <1>5 DEF LifeNext

-----------------------------------------------------------------------------
(* A listing at rest. *)

\* While the listing rests, less is steady and more has been seen: nothing it
\* has found out is made wrong.
LEMMA SoleKeeps ==
  ASSUME arg' = arg, steady' \subseteq steady, ever \subseteq ever'
  PROVE  \A p \in Proc : Sole(p)' => Sole(p)
  BY DEF Sole, Running

LEMMA WayKeeps ==
  ASSUME UNCHANGED listVars, arg' = arg, steady' \subseteq steady, ever \subseteq ever', Underway
  PROVE  Underway'
  <1> USE DEF listVars, Running, Listen
  <1>1. CASE at = "failed"
    BY <1>1 DEF Underway
  <1>2. CASE at # "failed"
    <2>1. ClaimInv'
      BY <1>2 DEF Underway, ClaimInv
    <2>2. OneState'
      BY <1>2 DEF Underway, OneState, Ahead, Claims, Waits, HasRow, Listed
    <2>3. RowInv'
      BY <1>2 DEF Underway, RowInv
    <2>4. StageInv'
      BY <1>2, SMTT(30) DEF Underway, StageInv, Least
    <2> QED BY <2>1, <2>2, <2>3, <2>4 DEF Underway
  <1> QED BY <1>1, <1>2

LEMMA PlacedKeeps ==
  ASSUME UNCHANGED listVars, arg' = arg, steady' \subseteq steady, ever \subseteq ever',
         blank' = blank, TypeOK, ReadInv, Entries, OwnerInv
  PROVE  TypeOK' /\ ReadInv' /\ Entries' /\ OwnerInv'
  <1> USE DEF listVars
  <1>1. TypeOK'
    BY DEF TypeOK
  <1>2. ReadInv'
    BY DEF ReadInv, Placing
  <1>3. Entries'
    BY DEF Entries, Placing, Tells
  <1>4. OwnerInv'
    BY SoleKeeps DEF OwnerInv, Placing, Waits, FuseRow
  <1> QED BY <1>1, <1>2, <1>3, <1>4

LEMMA WorldInv ==
  ASSUME LInv, Looks, LifeNext, Observe, UNCHANGED listVars
  PROVE  LInv'
  <1>1. LifeTypeOK' /\ TableInv' /\ arg' = arg
    BY LifeSteps DEF LInv, World
  <1>2. steady' \subseteq steady /\ ever \subseteq ever' /\ blank' = blank /\ RememberedMounts'
    <2>1. \A t \in Things' : t[1] = "mount" => t = <<"mount", t[2], t[3]>>
      BY ThingShapeNext
    <2>2. \A t \in steady \cup ever : t[1] = "mount" => t = <<"mount", t[2], t[3]>>
      BY DEF LInv, World, RememberedMounts
    <2> QED BY <2>1, <2>2 DEF Observe, RememberedMounts
  <1> QED BY <1>1, <1>2, WayKeeps, PlacedKeeps DEF LInv, World

LEMMA IdleInv ==
  ASSUME LInv, at = "idle", LifeNext, UNCHANGED <<listVars, history>>
  PROVE  LInv'
  <1>1. LifeTypeOK' /\ TableInv' /\ arg' = arg
    BY LifeSteps DEF LInv, World
  <1>2. steady' = steady /\ ever' = ever /\ blank' = blank /\ RememberedMounts'
    <2>1. steady' = steady /\ ever' = ever /\ blank' = blank /\ at' = "idle"
      BY DEF history, listVars
    <2>2. \A t \in steady \cup ever : t[1] = "mount" => t = <<"mount", t[2], t[3]>>
      BY DEF LInv, World, RememberedMounts
    <2> QED BY <2>1, <2>2 DEF RememberedMounts
  <1>3. UNCHANGED listVars
    OBVIOUS
  <1> QED BY <1>1, <1>2, <1>3, WayKeeps, PlacedKeeps DEF LInv, World

LEMMA StutterInv ==
  ASSUME LInv, UNCHANGED vars
  PROVE  LInv'
  <1>1. World'
    BY DEF LInv, World, vars, lifeVars, listVars, history, LifeTypeOK, TableInv, RememberedMounts,
           Things, Alive, Listens
  <1>2. UNCHANGED listVars /\ arg' = arg /\ steady' = steady /\ ever' = ever /\ blank' = blank
    BY DEF vars, lifeVars, history
  <1> QED BY <1>1, <1>2, WayKeeps, PlacedKeeps DEF LInv

-----------------------------------------------------------------------------
(* Up to the mount table. *)

\* A step of the listing leaves the world alone.
LEMMA WorldKept ==
  ASSUME World, at # "idle", UNCHANGED <<lifeVars, steady, ever>>
  PROVE  World' /\ UNCHANGED <<state, arg, table, steady, ever>>
  BY DEF World, lifeVars, LifeTypeOK, TableInv, RememberedMounts, Things, Alive, Listens

LEMMA WorldRests ==
  ASSUME World, at # "idle", UNCHANGED <<lifeVars, history>>
  PROVE  World' /\ UNCHANGED <<state, arg, table, steady, ever, blank>>
  BY WorldKept DEF history

LEMMA InitInv == Init => LInv
  <1> SUFFICES ASSUME Init PROVE LInv
    OBVIOUS
  <1> USE DEF Init, LifeInit
  <1>1. World
    BY DEF World, LifeTypeOK, TableInv, RememberedMounts
  <1>2. TypeOK
    <2>1. Cardinality(Proc) \in Nat
      BY ListAssumption, FS_CardinalityType
    <2>2. <<>> \in Seq(Claim) /\ <<>> \in Seq(Mounting) /\ <<>> \in Seq(Row) /\ Len(<<>>) = 0
      OBVIOUS
    <2>3. Len(claims) <= Cardinality(Proc)
      BY <2>1, <2>2
    <2>4. next \in 1..(IF at \in {"match", "done"} THEN Len(mounts) ELSE Len(claims)) + 1
      BY <2>2
    <2> QED BY <2>2, <2>3, <2>4 DEF TypeOK
  <1>3. Underway
    BY DEF Underway, ClaimInv, OneState, RowInv, StageInv, Ahead, Claims, Waits, HasRow
  <1>4. ReadInv /\ Entries /\ OwnerInv
    BY DEF ReadInv, Entries, OwnerInv, Placing
  <1> QED BY <1>1, <1>2, <1>3, <1>4 DEF LInv

LEMMA BeginInv ==
  ASSUME LInv, Begin
  PROVE  LInv'
  <1> USE DEF LInv, Begin, lifeVars
  <1>1. World'
    BY DEF World, LifeTypeOK, TableInv, RememberedMounts, Things, Alive, Listens
  <1>2. TypeOK'
    BY DEF TypeOK
  <1>3. ClaimInv' /\ RowInv'
    BY DEF Underway, StageInv, ClaimInv, RowInv
  <1>4. OneState'
    BY DEF Underway, StageInv, OneState, Ahead, Claims, Waits, HasRow
  <1>5. StageInv'
    BY DEF Underway, StageInv, TypeOK
  <1>6. ReadInv' /\ Entries' /\ OwnerInv'
    BY DEF ReadInv, Entries, OwnerInv, Placing
  <1> QED BY <1>1, <1>2, <1>3, <1>4, <1>5, <1>6 DEF Underway

\* Claims of different processes are no more than there are processes.
LEMMA ClaimsFit ==
  ASSUME NEW s \in Seq(Claim),
         \A i, j \in 1..Len(s) : s[i].pid = s[j].pid => i = j
  PROVE  Len(s) <= Cardinality(Proc)
  <1> DEFINE f == [i \in 1..Len(s) |-> s[i].pid]
  <1>1. \A i \in 1..Len(s) : s[i].pid \in Proc
    <2>1. \A i \in 1..Len(s) : s[i] \in Claim
      OBVIOUS
    <2> QED BY <2>1 DEF Claim
  <1>2. f \in Injection(1..Len(s), Proc)
    BY <1>1 DEF Injection, IsInjective
  <1>3. Cardinality(1..Len(s)) <= Cardinality(Proc)
    BY <1>2, ListAssumption, FS_Injection
  <1>4. Len(s) \in Nat /\ Cardinality(1..Len(s)) = Len(s)
    BY FS_Interval
  <1> QED BY <1>3, <1>4

\* Nothing has been placed yet, and is not by a step that does not read the table.
LEMMA NotPlaced ==
  ASSUME ~Placing'
  PROVE  ReadInv' /\ Entries' /\ OwnerInv'
  BY DEF ReadInv, Entries, OwnerInv

LEMMA ReadCmdlineInv ==
  ASSUME LInv, NEW p \in Proc, ReadCmdline(p), UNCHANGED <<lifeVars, history>>
  PROVE  LInv'
  <1> USE DEF ReadCmdline
  <1>0. World' /\ UNCHANGED <<state, arg, table, steady, ever, blank>>
    BY WorldRests DEF LInv
  <1>1. TypeOK'
    BY DEF LInv, TypeOK
  <1>2. ClaimInv' /\ RowInv'
    BY <1>0 DEF LInv, Underway, ClaimInv, RowInv
  <1>3. Running(p) \in steady => Alive(p)
    BY ThingRun DEF LInv, World, RememberedMounts
  <1>4. OneState'
    <2>1. ~HasRow(p) /\ at' \in {"scan", "cwd"}
      BY DEF LInv, Underway, OneState, Least, Ahead
    <2>2. \A q \in Proc : HasRow(q)' => ~Ahead(q)' /\ ~Claims(q)' /\ ~Waits(q)'
      BY <1>0, <2>1 DEF LInv, Underway, OneState, Ahead, Claims, Waits, HasRow
    <2>3. ASSUME NEW q \in Proc, (Running(q) \in steady /\ arg[q].mine /\ Listed(q))'
          PROVE  Ahead(q)' \/ Claims(q)' \/ Waits(q)' \/ HasRow(q)'
      <3>1. Ahead(q) \/ Claims(q) \/ Waits(q) \/ HasRow(q)
        BY <1>0, <2>3 DEF LInv, Underway, OneState, Listed, Running
      <3> QED BY <1>0, <1>3, <2>1, <2>3, <3>1 DEF Ahead, Claims, Waits, HasRow, Running
    <2> QED BY <1>0, <2>2, <2>3 DEF LInv, Underway, OneState
  <1>5. StageInv'
    <2>1. Alive(p) => Running(p) \in ever
      BY ThingRun DEF LInv, World, RememberedMounts
    <2> QED BY <1>0, <2>1, SMTT(30) DEF LInv, Underway, StageInv, Least, TypeOK
  <1> QED BY <1>0, <1>1, <1>2, <1>4, <1>5, NotPlaced DEF Underway, Placing, LInv

LEMMA ReadCwdInv ==
  ASSUME LInv, NEW p \in Proc, ReadCwd(p), UNCHANGED <<lifeVars, history>>
  PROVE  LInv'
  <1> DEFINE named == \/ arg[p].spelled = "canonical"
                      \/ arg[p].spelled = "relative" /\ Alive(p)
             c == [pid |-> p, kind |-> arg[p].kind,
                   names |-> IF named THEN arg[p].at ELSE NoPoint]
  <1>0. World' /\ UNCHANGED <<state, arg, table, steady, ever, blank>>
    BY WorldRests DEF LInv, ReadCwd
  <1>1. /\ os = "linux" /\ at = "cwd" /\ next = 1 /\ waiting = {}
        /\ p \in todo /\ Running(p) \in ever /\ arg[p].mine
    <2>1. /\ os = "linux" /\ at = "cwd" /\ Least(p) /\ p \in todo
      BY DEF ReadCwd, Least
    <2>2. next = 1 /\ waiting = {} /\ \E q \in todo : Least(q) /\ Running(q) \in ever /\ arg[q].mine
      BY <2>1 DEF LInv, Underway, StageInv
    <2>3. PICK q \in todo : Least(q) /\ Running(q) \in ever /\ arg[q].mine
      BY <2>2
    <2>4. todo \subseteq Nat
      BY MountsAssumption DEF LInv, TypeOK
    <2>5. p = q
      BY <2>1, <2>3, <2>4 DEF Least
    <2> QED BY <2>1, <2>2, <2>3, <2>5
  <1>2. /\ c \in Claim /\ c.pid = p /\ c.kind = arg[p].kind
        /\ c.names \in {arg[p].at, NoPoint}
        /\ named => c.names = arg[p].at
    BY MountsAssumption DEF LInv, World, LifeTypeOK, Claim, Argument
  <1>3. Running(p) \in steady => Alive(p)
    BY <1>1, ThingRun DEF LInv, World, RememberedMounts
  <1>4. \/ arg[p].spelled = "canonical"
        \/ arg[p].spelled = "relative" /\ Running(p) \in steady
        => c.names = arg[p].at
    BY <1>2, <1>3
  <1>5. /\ claims' = Append(claims, c) /\ todo' = todo \ {p} /\ at' = "scan"
        /\ UNCHANGED <<os, next, socket, waiting, mounts, rows>>
    BY DEF ReadCwd
  <1> HIDE DEF c, named
  <1>6. /\ claims' \in Seq(Claim) /\ Len(claims') = Len(claims) + 1
        /\ Len(claims) \in Nat
        /\ \A i \in 1..Len(claims) : claims'[i] = claims[i]
        /\ claims'[Len(claims) + 1] = c
    BY <1>2, <1>5 DEF LInv, TypeOK
  <1>7. \A i \in 1..Len(claims') : i \in 1..Len(claims) \/ i = Len(claims) + 1
    BY <1>6
  <1>8. \A i \in 1..Len(claims) : claims[i].pid # p
    BY <1>1 DEF LInv, Underway, ClaimInv
  <1>9. \A i, j \in 1..Len(claims') : claims'[i].pid = claims'[j].pid => i = j
    BY <1>1, <1>2, <1>6, <1>7, <1>8 DEF LInv, Underway, ClaimInv
  <1>10. TypeOK'
    <2>1. Len(claims') <= Cardinality(Proc)
      BY <1>6, <1>9, ClaimsFit
    <2> QED BY <1>1, <1>5, <1>6, <2>1 DEF LInv, TypeOK
  <1>11. ClaimInv'
    <2>1. ASSUME NEW i \in 1..Len(claims')
          PROVE  LET q == claims'[i].pid
                 IN  /\ q \notin todo'
                     /\ Running(q) \in ever' /\ arg'[q].mine
                     /\ claims'[i].kind = arg'[q].kind
                     /\ claims'[i].names \in {arg'[q].at, NoPoint}
                     /\ \/ arg'[q].spelled = "canonical"
                        \/ arg'[q].spelled = "relative" /\ Running(q) \in steady'
                        => claims'[i].names = arg'[q].at
      <3>1. CASE i \in 1..Len(claims)
        BY <1>0, <1>1, <1>5, <1>6, <3>1 DEF LInv, Underway, ClaimInv
      <3>2. CASE i = Len(claims) + 1
        BY <1>0, <1>1, <1>2, <1>4, <1>5, <1>6, <3>2
      <3> QED BY <1>7, <3>1, <3>2
    <2> QED BY <1>1, <1>5, <1>9, <2>1 DEF ClaimInv, Running
  <1>12. RowInv'
    BY <1>0, <1>1, <1>5 DEF LInv, Underway, RowInv
  <1>13. OneState'
    <2>1. \A q \in Proc : ~HasRow(q)' /\ ~HasRow(q) /\ ~Waits(q)
      BY <1>1, <1>5 DEF LInv, Underway, StageInv, HasRow, Waits
    <2>2. Claims(p)'
      BY <1>1, <1>2, <1>5, <1>6 DEF Claims
    <2>3. \A q \in Proc : Claims(q) => Claims(q)'
      BY <1>1, <1>5, <1>6 DEF Claims
    <2>4. \A q \in Proc : Ahead(q) => Ahead(q)' \/ q = p
      BY <1>5 DEF Ahead
    <2>5. \A q \in Proc : (Running(q) \in steady /\ arg[q].mine /\ Listed(q))'
            => Running(q) \in steady /\ arg[q].mine /\ Listed(q)
      BY <1>0, <1>5 DEF Listed, Running
    <2>6. \A i, j \in 1..Len(rows') : rows'[i].pid = rows'[j].pid /\ rows'[i].pid # NoPid => i = j
      BY <1>1, <1>5 DEF LInv, Underway, OneState
    <2> QED BY <1>1, <2>1, <2>2, <2>3, <2>4, <2>5, <2>6 DEF LInv, Underway, OneState
  <1>14. StageInv'
    BY <1>1, <1>5 DEF LInv, Underway, StageInv
  <1> QED BY <1>0, <1>5, <1>10, <1>11, <1>12, <1>13, <1>14, NotPlaced DEF Underway, Placing, LInv

LEMMA ScannedInv ==
  ASSUME LInv, Scanned, UNCHANGED <<lifeVars, history>>
  PROVE  LInv'
  <1> USE DEF Scanned
  <1>0. World' /\ UNCHANGED <<state, arg, table, steady, ever, blank>>
    BY WorldRests DEF LInv
  <1>1. TypeOK'
    BY DEF LInv, TypeOK
  <1>2. ClaimInv' /\ RowInv'
    BY <1>0 DEF LInv, Underway, ClaimInv, RowInv, StageInv
  <1>3. OneState'
    BY <1>0 DEF LInv, Underway, OneState, Ahead, Claims, Waits, HasRow, Listed, Running
  <1>4. StageInv'
    BY <1>0 DEF LInv, Underway, StageInv
  <1> QED BY <1>0, <1>1, <1>2, <1>3, <1>4, NotPlaced DEF Underway, Placing, LInv

LEMMA KeepFuseInv ==
  ASSUME LInv, KeepFuse, UNCHANGED <<lifeVars, history>>
  PROVE  LInv'
  <1> USE DEF KeepFuse
  <1>0. World' /\ UNCHANGED <<state, arg, table, steady, ever, blank>>
    BY WorldRests DEF LInv
  <1>1. next \in 1..Len(claims) /\ next \in Nat
    BY DEF LInv, TypeOK
  <1>2. TypeOK'
    BY <1>1 DEF LInv, TypeOK
  <1>3. RowInv'
    BY <1>0 DEF LInv, Underway, RowInv
  <1>4. ClaimInv'
    BY <1>0, <1>1 DEF LInv, Underway, ClaimInv, TypeOK
  <1>5. OneState'
    <2>1. \A q \in Proc : Waits(q)' <=> Waits(q) \/ q = claims[next].pid
      BY <1>1 DEF Waits
    <2>2. \A q \in Proc : Claims(q) => Claims(q)' \/ q = claims[next].pid
      BY <1>1 DEF Claims, LInv, TypeOK
    <2>3. \A q \in Proc : Claims(q)' => Claims(q)
      BY <1>1 DEF Claims, LInv, TypeOK
    <2>4. Claims(claims[next].pid)
      BY <1>1 DEF Claims
    <2>5. \A q \in Proc : /\ HasRow(q)' <=> HasRow(q)
                          /\ Ahead(q)' <=> Ahead(q)
                          /\ Listed(q)' <=> Listed(q)
      BY <1>0 DEF HasRow, Ahead, Listed
    <2> QED BY <1>0, <2>1, <2>2, <2>3, <2>4, <2>5 DEF LInv, Underway, OneState, Running
  <1>6. StageInv'
    BY <1>0, <1>1 DEF LInv, Underway, StageInv
  <1> QED BY <1>0, <1>2, <1>3, <1>4, <1>5, <1>6, NotPlaced DEF Underway, Placing, LInv

LEMMA ReadFdsInv ==
  ASSUME LInv, ReadFds, UNCHANGED <<lifeVars, history>>
  PROVE  LInv'
  <1> USE DEF ReadFds
  <1>0. World' /\ UNCHANGED <<state, arg, table, steady, ever, blank>>
    BY WorldRests DEF LInv
  <1>1. next \in 1..Len(claims) /\ claims[next].pid \in Proc
    <2>1. next \in 1..Len(claims) /\ claims \in Seq(Claim)
      BY DEF LInv, TypeOK
    <2>2. claims[next] \in Claim
      BY <2>1
    <2> QED BY <2>1, <2>2 DEF Claim
  <1>2. TypeOK'
    BY DEF LInv, TypeOK, Listens
  <1>3. ClaimInv' /\ RowInv'
    BY <1>0 DEF LInv, Underway, ClaimInv, RowInv
  <1>4. OneState'
    BY <1>0 DEF LInv, Underway, OneState, Ahead, Claims, Waits, HasRow, Listed, Running
  <1>5. StageInv'
    <2>1. Listen(claims[next].pid) \in steady => Listens(claims[next].pid)
      BY <1>1, ThingListen DEF LInv, World, RememberedMounts
    <2> QED BY <1>0, <2>1 DEF LInv, Underway, StageInv
  <1> QED BY <1>0, <1>2, <1>3, <1>4, <1>5, NotPlaced DEF Underway, Placing, LInv

\* The rows after one more.
LEMMA OneMoreRow ==
  ASSUME rows \in Seq(Row), NEW r \in Row, rows' = Append(rows, r)
  PROVE  /\ rows' \in Seq(Row) /\ Len(rows) \in Nat /\ Len(rows') = Len(rows) + 1
         /\ \A i \in 1..Len(rows) : i \in 1..Len(rows') /\ rows'[i] = rows[i]
         /\ Len(rows) + 1 \in 1..Len(rows') /\ rows'[Len(rows) + 1] = r
         /\ \A i \in 1..Len(rows') : i \in 1..Len(rows) \/ i = Len(rows) + 1
  <1>1. /\ rows' \in Seq(Row) /\ Len(rows) \in Nat /\ Len(rows') = Len(rows) + 1
        /\ \A i \in 1..Len(rows) : rows'[i] = rows[i]
        /\ rows'[Len(rows) + 1] = r
    OBVIOUS
  <1> QED BY <1>1

\* A process that has no row gets one, and is done with.
LEMMA GivenRow ==
  ASSUME TypeOK, OneState, NEW p \in Proc, NEW r \in Row, r.pid = p, rows' = Append(rows, r),
         ~HasRow(p), ~Ahead(p)', ~Claims(p)', ~Waits(p)',
         \A q \in Proc \ {p} : /\ Ahead(q)' <=> Ahead(q)
                               /\ Claims(q)' <=> Claims(q)
                               /\ Waits(q)' <=> Waits(q),
         UNCHANGED <<os, arg, steady>>
  PROVE  OneState'
  <1>1. rows \in Seq(Row)
    BY DEF TypeOK
  <1>2. /\ \A i \in 1..Len(rows) : i \in 1..Len(rows') /\ rows'[i] = rows[i]
        /\ Len(rows) + 1 \in 1..Len(rows') /\ rows'[Len(rows) + 1] = r
        /\ \A i \in 1..Len(rows') : i \in 1..Len(rows) \/ i = Len(rows) + 1
    BY <1>1, OneMoreRow
  <1>3. \A q \in Proc : HasRow(q)' <=> HasRow(q) \/ q = p
    BY <1>2 DEF HasRow
  <1>4. \A i, j \in 1..Len(rows') : rows'[i].pid = rows'[j].pid /\ rows'[i].pid # NoPid => i = j
    BY <1>2 DEF OneState, HasRow
  <1>5. \A q \in Proc : Listed(q)' <=> Listed(q)
    BY DEF Listed
  <1> QED BY <1>3, <1>4, <1>5 DEF OneState, Running

\* The row of a webdav process says what was seen.
LEMMA WebdavRowInv ==
  ASSUME TypeOK, RowInv, NEW p \in Proc, NEW l \in BOOLEAN, rows' = Append(rows, WebdavRow(p, l)),
         UNCHANGED <<arg, steady, ever>>,
         Running(p) \in ever, arg[p].mine, arg[p].kind = "webdav",
         Listen(p) \in steady => l, l => Listen(p) \in ever
  PROVE  RowInv' /\ WebdavRow(p, l) \in Row /\ WebdavRow(p, l).pid = p /\ WebdavRow(p, l).kind = "webdav"
  <1> DEFINE r == WebdavRow(p, l)
  <1>1. /\ r \in Row /\ r.pid = p /\ r.kind = "webdav" /\ r.at = NoPoint
        /\ r.state = IF l THEN "listening" ELSE "starting"
    BY DEF WebdavRow, Row, Kind
  <1>2. p # NoPid
    BY MountsAssumption DEF NoPid
  <1> HIDE DEF r
  <1>3. rows' = Append(rows, r) /\ rows \in Seq(Row)
    BY DEF TypeOK, r
  <1>4. /\ \A i \in 1..Len(rows) : i \in 1..Len(rows') /\ rows'[i] = rows[i]
        /\ Len(rows) + 1 \in 1..Len(rows') /\ rows'[Len(rows) + 1] = r
        /\ \A i \in 1..Len(rows') : i \in 1..Len(rows) \/ i = Len(rows) + 1
    BY <1>1, <1>3, OneMoreRow
  <1>5. RowInv'
    <2>1. ASSUME NEW i \in 1..Len(rows')
          PROVE  /\ rows'[i].pid # NoPid => Running(rows'[i].pid) \in ever /\ arg[rows'[i].pid].mine
                 /\ rows'[i].kind = "webdav" =>
                      /\ rows'[i].pid # NoPid /\ arg[rows'[i].pid].kind = "webdav"
                      /\ rows'[i].at = NoPoint
                      /\ Listen(rows'[i].pid) \in steady => rows'[i].state = "listening"
                      /\ rows'[i].state = "listening" => Listen(rows'[i].pid) \in ever
      <3>1. CASE i \in 1..Len(rows)
        BY <1>4, <3>1 DEF RowInv
      <3>2. CASE i = Len(rows) + 1
        BY <1>1, <1>2, <1>4, <3>2
      <3> QED BY <1>4, <3>1, <3>2
    <2> QED BY <2>1 DEF RowInv, Running, Listen
  <1> QED BY <1>1, <1>5 DEF r

LEMMA ReadTcpInv ==
  ASSUME LInv, ReadTcp, UNCHANGED <<lifeVars, history>>
  PROVE  LInv'
  <1>0. World' /\ UNCHANGED <<state, arg, table, steady, ever, blank>>
    BY WorldRests DEF LInv, ReadTcp
  <1>1. /\ next \in 1..Len(claims) /\ next \in Nat /\ Len(claims) \in Nat /\ os = "linux"
        /\ claims[next].pid \in Proc /\ rows \in Seq(Row)
    <2>1. /\ next \in 1..Len(claims) /\ claims \in Seq(Claim) /\ os = "linux"
          /\ rows \in Seq(Row)
      BY DEF LInv, TypeOK, Underway, StageInv, ReadTcp
    <2>2. claims[next] \in Claim
      BY <2>1
    <2> QED BY <2>1, <2>2 DEF Claim
  <1>2. PICK p \in Proc : p = claims[next].pid
    BY <1>1
  <1>3. PICK l \in BOOLEAN : l = (socket /\ Listens(p))
    BY DEF LInv, TypeOK, Listens
  <1>4. /\ at = "tcp" /\ at' = "fds" /\ next' = next + 1 /\ socket' = FALSE
        /\ rows' = Append(rows, WebdavRow(p, l))
        /\ UNCHANGED <<os, todo, claims, waiting, mounts>>
    BY <1>2, <1>3 DEF ReadTcp
  <1>5. /\ claims[next].kind = "webdav" /\ arg[p].kind = "webdav" /\ arg[p].mine
        /\ Running(p) \in ever /\ p \notin todo
        /\ Listen(p) \in steady => socket
    BY <1>1, <1>2, <1>4 DEF LInv, Underway, StageInv, ClaimInv
  <1>6. /\ Listen(p) \in steady => l
        /\ l => Listen(p) \in ever
    BY <1>3, <1>4, <1>5, ThingListen DEF LInv, World, RememberedMounts
  <1>7. /\ RowInv' /\ WebdavRow(p, l) \in Row /\ WebdavRow(p, l).pid = p
        /\ WebdavRow(p, l).kind = "webdav"
    BY <1>0, <1>4, <1>5, <1>6, WebdavRowInv DEF LInv, Underway
  <1>8. PICK r \in Row : r = WebdavRow(p, l)
    BY <1>7
  <1>9. /\ rows' \in Seq(Row)
        /\ \A i \in 1..Len(rows) : i \in 1..Len(rows') /\ rows'[i] = rows[i]
        /\ Len(rows) + 1 \in 1..Len(rows') /\ rows'[Len(rows) + 1] = r
        /\ \A i \in 1..Len(rows') : i \in 1..Len(rows) \/ i = Len(rows) + 1
    BY <1>1, <1>4, <1>8, OneMoreRow
  <1>10. TypeOK'
    <2>1. next' \in 1..Len(claims) + 1
      BY <1>1, <1>4
    <2> QED BY <1>4, <1>9, <2>1 DEF LInv, TypeOK
  <1>11. ClaimInv'
    <2>1. \A i \in waiting : i < next /\ i \in 1..Len(claims)
      BY <1>4 DEF LInv, Underway, ClaimInv, TypeOK
    <2>2. \A i \in waiting : i < next'
      BY <1>1, <1>4, <2>1
    <2> QED BY <1>0, <1>4, <2>2 DEF LInv, Underway, ClaimInv, Running
  <1>12. OneState'
    <2>1. Claims(p)
      BY <1>1, <1>2, <1>4 DEF Claims
    <2>2. ~HasRow(p)
      BY <1>4, <2>1 DEF LInv, Underway, OneState
    <2>3. ~Ahead(p)'
      BY <1>4, <1>5 DEF Ahead
    <2>4. ~Waits(p)'
      <3>1. \A i \in waiting : i < next /\ i \in 1..Len(claims)
        BY <1>4 DEF LInv, Underway, ClaimInv, TypeOK
      <3>2. \A i \in waiting : claims[i].pid # p
        BY <1>1, <1>2, <1>4, <3>1 DEF LInv, Underway, ClaimInv
      <3> QED BY <1>4, <3>2 DEF Waits
    <2>5. ~Claims(p)'
      <3>1. \A i \in 1..Len(claims) : claims[i].pid = p => i = next
        BY <1>1, <1>2, <1>4 DEF LInv, Underway, ClaimInv
      <3> QED BY <1>1, <1>4, <3>1 DEF Claims
    <2>6. \A q \in Proc \ {p} : /\ Ahead(q)' <=> Ahead(q)
                                /\ Waits(q)' <=> Waits(q)
                                /\ Claims(q)' <=> Claims(q)
      <3>1. \A i \in 1..Len(claims) : next <= i <=> i = next \/ next + 1 <= i
        BY <1>1
      <3> QED BY <1>2, <1>4, <3>1 DEF Ahead, Waits, Claims
    <2> QED BY <1>0, <1>4, <1>7, <1>8, <2>2, <2>3, <2>4, <2>5, <2>6, GivenRow DEF LInv, Underway
  <1>13. StageInv'
    <2>1. \A i \in 1..Len(rows') : rows'[i].kind = "webdav"
      BY <1>4, <1>7, <1>8, <1>9 DEF LInv, Underway, StageInv
    <2> QED BY <1>1, <1>4, <2>1 DEF LInv, Underway, StageInv
  <1> QED BY <1>0, <1>4, <1>7, <1>10, <1>11, <1>12, <1>13, NotPlaced DEF Underway, Placing, LInv

LEMMA PsInv ==
  ASSUME LInv, Ps, UNCHANGED <<lifeVars, history>>
  PROVE  LInv'
  <1> USE DEF Ps
  <1>0. World' /\ UNCHANGED <<state, arg, table, steady, ever, blank>>
    BY WorldRests DEF LInv
  <1>1. TypeOK'
    BY DEF LInv, TypeOK
  <1>2. claims = <<>> /\ waiting = {} /\ rows = <<>> /\ next = 1
    BY DEF LInv, Underway, StageInv
  <1>3. ClaimInv' /\ RowInv'
    BY <1>2 DEF ClaimInv, RowInv
  <1>4. OneState'
    <2>1. \A p \in Proc : Running(p) \in steady => Alive(p)
      BY ThingRun DEF LInv, World, RememberedMounts
    <2> QED BY <1>0, <1>2, <2>1 DEF OneState, HasRow, Ahead, Claims, Waits, Listed, Running
  <1>5. StageInv'
    <2>1. \A p \in todo' : Running(p) \in ever /\ arg[p].mine /\ arg[p].kind = "webdav"
      BY ThingRun DEF LInv, World, RememberedMounts
    <2> QED BY <1>0, <1>2, <2>1 DEF StageInv, Running
  <1> QED BY <1>0, <1>1, <1>3, <1>4, <1>5, NotPlaced DEF Underway, Placing, LInv

LEMMA LsofInv ==
  ASSUME LInv, NEW p \in Proc, Lsof(p), UNCHANGED <<lifeVars, history>>
  PROVE  LInv'
  <1>0. World' /\ UNCHANGED <<state, arg, table, steady, ever, blank>>
    BY WorldRests DEF LInv, Lsof
  <1>1. PICK l \in BOOLEAN : l = Listens(p)
    BY DEF Listens
  <1>2. /\ os = "macos" /\ at = "fds" /\ p \in todo /\ todo' = todo \ {p}
        /\ rows' = Append(rows, WebdavRow(p, l))
        /\ UNCHANGED <<os, at, claims, next, socket, waiting, mounts>>
    BY <1>1 DEF Lsof
  <1>3. Running(p) \in ever /\ arg[p].mine /\ arg[p].kind = "webdav"
    BY <1>2 DEF LInv, Underway, StageInv
  <1>4. /\ Listen(p) \in steady => l
        /\ l => Listen(p) \in ever
    BY <1>1, <1>2, ThingListen DEF LInv, World, RememberedMounts
  <1>5. /\ RowInv' /\ WebdavRow(p, l) \in Row /\ WebdavRow(p, l).pid = p
        /\ WebdavRow(p, l).kind = "webdav"
    BY <1>0, <1>2, <1>3, <1>4, WebdavRowInv DEF LInv, Underway
  <1>6. PICK r \in Row : r = WebdavRow(p, l)
    BY <1>5
  <1>7. /\ rows \in Seq(Row) /\ rows' \in Seq(Row)
        /\ \A i \in 1..Len(rows) : i \in 1..Len(rows') /\ rows'[i] = rows[i]
        /\ rows'[Len(rows) + 1] = r
        /\ \A i \in 1..Len(rows') : i \in 1..Len(rows) \/ i = Len(rows) + 1
    BY <1>2, <1>6, OneMoreRow DEF LInv, TypeOK
  <1>8. TypeOK'
    BY <1>2, <1>7 DEF LInv, TypeOK
  <1>9. ClaimInv'
    BY <1>0, <1>2 DEF LInv, Underway, ClaimInv
  <1>10. OneState'
    <2>1. ~HasRow(p) /\ ~Claims(p)' /\ ~Waits(p)'
      BY <1>2 DEF LInv, Underway, OneState, StageInv, Ahead, Claims, Waits
    <2>2. \A q \in Proc \ {p} : /\ Ahead(q)' <=> Ahead(q)
                                /\ Claims(q)' <=> Claims(q)
                                /\ Waits(q)' <=> Waits(q)
      BY <1>2 DEF Ahead, Claims, Waits
    <2>3. ~Ahead(p)'
      BY <1>2 DEF Ahead
    <2> QED BY <1>0, <1>2, <1>5, <1>6, <2>1, <2>2, <2>3, GivenRow DEF LInv, Underway
  <1>11. StageInv'
    <2>1. \A i \in 1..Len(rows') : rows'[i].kind = "webdav"
      BY <1>2, <1>5, <1>6, <1>7 DEF LInv, Underway, StageInv
    <2> QED BY <1>0, <1>2, <2>1 DEF LInv, Underway, StageInv, Running
  <1> QED BY <1>0, <1>2, <1>5, <1>8, <1>9, <1>10, <1>11, NotPlaced DEF Underway, Placing, LInv

LEMMA ListFailsInv ==
  ASSUME LInv, ListFails, UNCHANGED <<lifeVars, history>>
  PROVE  LInv'
  <1>0. World'
    BY WorldRests DEF LInv, ListFails
  <1>1. TypeOK' /\ at' = "failed"
    BY DEF LInv, TypeOK, ListFails
  <1> QED BY <1>0, <1>1, NotPlaced DEF Underway, Placing, LInv

\* Once read, the table is remembered as it was.
LEMMA ReadTableInv ==
  ASSUME LInv, ReadTable, UNCHANGED <<lifeVars, steady, ever>>
  PROVE  LInv'
  <1> USE DEF ReadTable
  <1>0. World' /\ UNCHANGED <<state, arg, table, steady, ever>>
    BY WorldKept DEF LInv
  <1>1. /\ mounts' \in Seq(Mounting) /\ Len(mounts') \in Nat
        /\ mounts' = table \/ (mounts' = <<>> /\ blank' = TRUE)
    <2>1. table \in Seq(Mounting) /\ <<>> \in Seq(Mounting)
      BY DEF LInv, World, LifeTypeOK
    <2>2. \A s \in Seq(Mounting) : Len(s) \in Nat
      OBVIOUS
    <2> QED BY <2>1, <2>2
  <1>2. TypeOK'
    BY <1>1 DEF LInv, TypeOK
  <1>3. /\ todo = {} /\ at = "fds" /\ os = "linux"
        /\ \A p \in Proc : ~Claims(p)
        /\ \A i \in 1..Len(rows) : rows[i].kind = "webdav"
    BY DEF LInv, Underway, StageInv, Claims, TypeOK
  <1>4. ClaimInv' /\ RowInv'
    BY <1>0, <1>3 DEF LInv, Underway, ClaimInv, RowInv
  <1>5. OneState'
    BY <1>0, <1>3 DEF LInv, Underway, OneState, Ahead, Claims, Waits, HasRow, Listed, Running
  <1>6. StageInv'
    BY <1>0, <1>3 DEF LInv, Underway, StageInv
  <1>7. ReadInv'
    <2>1. /\ \A x, point : <<"mount", x, point>> \in steady =>
               \E i \in 1..Len(table) : table[i].by = x /\ table[i].at = point
          /\ \A i \in 1..Len(table) : <<"mount", table[i].by, table[i].at>> \in ever
      BY ThingMount DEF LInv, World, RememberedMounts
    <2>2. CASE mounts' = table
      BY <1>0, <2>1, <2>2 DEF ReadInv, LInv, World, TableInv
    <2>3. CASE mounts' = <<>> /\ blank' = TRUE
      BY <2>3 DEF ReadInv
    <2> QED BY <1>1, <2>2, <2>3
  <1>8. \A i \in 1..Len(rows) : rows[i].at = NoPoint
    BY <1>3 DEF LInv, Underway, RowInv
  <1>9. Entries'
    <2> DEFINE f == [i \in 1..Len(rows) |-> 1]
    <2>1. f \in [1..Len(rows') -> 1..Len(mounts') + 1]
      BY <1>1
    <2>2. Tells(f)'
      BY <1>1, <1>8 DEF Tells
    <2> QED BY <2>1, <2>2 DEF Entries
  <1>10. OwnerInv'
    <2>1. ASSUME NEW p \in Proc, Sole(p)', ~blank'
          PROVE  /\ Waits(p)'
                 /\ \E k \in 1..Len(mounts') : next' <= k /\ mounts'[k].by = p /\ mounts'[k].at = arg'[p].at
      <3>1. Sole(p)
        BY <1>0, <2>1, SoleKeeps
      <3>2. PICK k \in 1..Len(table) : table[k].by = p /\ table[k].at = arg[p].at
        BY <3>1, ThingMount DEF Sole, LInv, World, RememberedMounts
      <3>3. arg[p].kind = "fuse"
        BY <3>2 DEF LInv, World, TableInv
      <3>4. ~HasRow(p)
        BY <1>3, <3>3 DEF LInv, Underway, RowInv, HasRow
      <3>5. Waits(p)
        BY <1>3, <3>1, <3>4 DEF LInv, Underway, OneState, Ahead, Sole, Listed
      <3>6. mounts' = table
        BY <1>1, <2>1
      <3> QED BY <1>0, <3>2, <3>5, <3>6 DEF Waits
    <2> QED BY <2>1 DEF OwnerInv
  <1> QED BY <1>0, <1>2, <1>4, <1>5, <1>6, <1>7, <1>9, <1>10 DEF Underway, LInv

-----------------------------------------------------------------------------
(* After the mount table. *)

LEMMA FuseRowType ==
  ASSUME NEW q \in Proc \cup {NoPid}, NEW point \in Point \cup {NoPoint},
         NEW st \in {"starting", "mounted", "unidentified"}
  PROVE  /\ FuseRow(q, point, st) \in Row
         /\ FuseRow(q, point, st).pid = q /\ FuseRow(q, point, st).at = point
         /\ FuseRow(q, point, st).state = st /\ FuseRow(q, point, st).kind = "fuse"
  BY DEF FuseRow, Row, Kind

LEMMA FuseRowInv ==
  ASSUME TypeOK, RowInv, NEW r \in Row, r.kind = "fuse", rows' = Append(rows, r),
         UNCHANGED <<arg, steady, ever>>,
         r.pid # NoPid => Running(r.pid) \in ever /\ arg[r.pid].mine
  PROVE  RowInv'
  <1>1. /\ \A i \in 1..Len(rows) : i \in 1..Len(rows') /\ rows'[i] = rows[i]
        /\ rows'[Len(rows) + 1] = r
        /\ \A i \in 1..Len(rows') : i \in 1..Len(rows) \/ i = Len(rows) + 1
    BY OneMoreRow DEF TypeOK
  <1>2. ASSUME NEW i \in 1..Len(rows')
        PROVE  /\ rows'[i].pid # NoPid => Running(rows'[i].pid) \in ever /\ arg[rows'[i].pid].mine
               /\ rows'[i].kind = "webdav" =>
                    /\ rows'[i].pid # NoPid /\ arg[rows'[i].pid].kind = "webdav"
                    /\ rows'[i].at = NoPoint
                    /\ Listen(rows'[i].pid) \in steady => rows'[i].state = "listening"
                    /\ rows'[i].state = "listening" => Listen(rows'[i].pid) \in ever
    <2>1. CASE i \in 1..Len(rows)
      BY <1>1, <2>1 DEF RowInv
    <2>2. CASE i = Len(rows) + 1
      BY <1>1, <2>2
    <2> QED BY <1>1, <2>1, <2>2
  <1> QED BY <1>2 DEF RowInv, Running, Listen

\* A row without a process changes nothing for the processes.
LEMMA NobodysRow ==
  ASSUME TypeOK, OneState, NEW r \in Row, r.pid = NoPid, rows' = Append(rows, r),
         UNCHANGED <<os, at, todo, claims, waiting, arg, steady>>, at = "match"
  PROVE  OneState'
  <1>1. rows \in Seq(Row)
    BY DEF TypeOK
  <1>2. /\ \A i \in 1..Len(rows) : i \in 1..Len(rows') /\ rows'[i] = rows[i]
        /\ rows'[Len(rows) + 1] = r
        /\ \A i \in 1..Len(rows') : i \in 1..Len(rows) \/ i = Len(rows) + 1
    BY <1>1, OneMoreRow
  <1>3. NoPid \notin Proc
    BY MountsAssumption DEF NoPid
  <1>4. \A q \in Proc : HasRow(q)' <=> HasRow(q)
    BY <1>2, <1>3 DEF HasRow
  <1>5. \A i, j \in 1..Len(rows') : rows'[i].pid = rows'[j].pid /\ rows'[i].pid # NoPid => i = j
    BY <1>2 DEF OneState
  <1>6. \A q \in Proc : /\ Listed(q)' <=> Listed(q)
                        /\ Ahead(q)' <=> Ahead(q)
                        /\ Claims(q)' <=> Claims(q)
                        /\ Waits(q)' <=> Waits(q)
    BY DEF Listed, Ahead, Claims, Waits
  <1> QED BY <1>4, <1>5, <1>6 DEF OneState, Running

\* The next mount gets its row.
LEMMA PlacedRow ==
  ASSUME TypeOK, Entries, Placing, at = "match", next <= Len(mounts), next' = next + 1,
         UNCHANGED <<os, at, mounts>>,
         NEW r \in Row, rows' = Append(rows, r), r.at = mounts[next].at,
         r.state = "unidentified" => mounts[next].by \in Alien /\ r.at \in Home
  PROVE  Entries'
  <1>1. PICK f \in [1..Len(rows) -> 1..Len(mounts) + 1] : Tells(f)
    BY DEF Entries
  <1>2. PICK n \in 1..Len(mounts) : n = next
    BY DEF TypeOK
  <1>3. /\ rows' \in Seq(Row) /\ Len(rows) \in Nat /\ Len(rows') = Len(rows) + 1
        /\ \A i \in 1..Len(rows) : i \in 1..Len(rows') /\ rows'[i] = rows[i]
        /\ Len(rows) + 1 \in 1..Len(rows') /\ rows'[Len(rows) + 1] = r
        /\ \A i \in 1..Len(rows') : i \in 1..Len(rows) \/ i = Len(rows) + 1
    BY OneMoreRow DEF TypeOK
  <1>4. PICK g \in [1..Len(rows') -> 1..Len(mounts) + 1] :
           g = [i \in 1..Len(rows') |-> IF i \in 1..Len(rows) THEN f[i] ELSE n]
    <2> DEFINE h == [i \in 1..Len(rows') |-> IF i \in 1..Len(rows) THEN f[i] ELSE n]
    <2>1. Len(mounts) \in Nat
      BY DEF TypeOK
    <2>2. \A i \in 1..Len(rows') : (IF i \in 1..Len(rows) THEN f[i] ELSE n) \in 1..Len(mounts) + 1
      BY <2>1
    <2>3. h \in [1..Len(rows') -> 1..Len(mounts) + 1]
      BY <2>2
    <2> QED BY <2>3
  <1>5. /\ \A i \in 1..Len(rows) : g[i] = f[i]
        /\ g[Len(rows) + 1] = n
        /\ n \in Nat /\ Len(mounts) \in Nat
    BY <1>3, <1>4 DEF TypeOK
  <1>6. ASSUME NEW i \in 1..Len(rows'), rows'[i].at # NoPoint
        PROVE  /\ g[i] < next' /\ mounts[g[i]].at = rows'[i].at
               /\ rows'[i].state = "unidentified" => mounts[g[i]].by \in Alien /\ rows'[i].at \in Home
               /\ \A j \in 1..Len(rows') : rows'[j].at # NoPoint /\ g[i] = g[j] => i = j
    <2>0. \A j \in 1..Len(rows) : rows[j].at # NoPoint => f[j] < n /\ f[j] \in Nat
      <3>1. \A j \in 1..Len(rows) : f[j] \in 1..Len(mounts) + 1
        OBVIOUS
      <3>2. \A j \in 1..Len(rows) : f[j] \in Nat
        BY <3>1
      <3> QED BY <1>1, <1>2, <3>2 DEF Tells
    <2>1. CASE i \in 1..Len(rows)
      <3>1. /\ f[i] < n /\ mounts[f[i]].at = rows[i].at /\ f[i] \in Nat
            /\ rows[i].state = "unidentified" => mounts[f[i]].by \in Alien /\ rows[i].at \in Home
            /\ \A j \in 1..Len(rows) : rows[j].at # NoPoint /\ f[i] = f[j] => i = j
        BY <1>1, <1>2, <1>3, <1>6, <2>0, <2>1 DEF Tells
      <3>2. \A j \in 1..Len(rows') : rows'[j].at # NoPoint /\ g[i] = g[j] => i = j
        BY <1>3, <1>5, <2>1, <3>1
      <3> QED BY <1>2, <1>3, <1>5, <2>1, <3>1, <3>2
    <2>2. CASE i = Len(rows) + 1
      <3>1. \A j \in 1..Len(rows) : rows'[j].at # NoPoint => g[j] # n
        BY <1>3, <1>5, <2>0
      <3>2. \A j \in 1..Len(rows') : rows'[j].at # NoPoint /\ g[i] = g[j] => i = j
        BY <1>3, <1>5, <2>2, <3>1
      <3> QED BY <1>2, <1>3, <1>5, <2>2, <3>2
    <2> QED BY <1>3, <2>1, <2>2
  <1>7. ASSUME NEW k \in 1..Len(mounts), k < next', mounts[k].by \in Proc
        PROVE  \E i \in 1..Len(rows') : rows'[i].at # NoPoint /\ g[i] = k
    <2>1. CASE k < n
      <3>1. PICK i \in 1..Len(rows) : rows[i].at # NoPoint /\ f[i] = k
        BY <1>1, <1>2, <1>7, <2>1 DEF Tells
      <3> QED BY <1>3, <1>5, <3>1
    <2>2. CASE k = n
      <3>1. mounts[n] \in Mounting
        BY <1>2 DEF TypeOK
      <3>2. r.at # NoPoint
        BY <1>2, <3>1, ListAssumption DEF Mounting
      <3> QED BY <1>3, <1>5, <2>2, <3>2
    <2> QED BY <1>2, <1>5, <1>7, <2>1, <2>2
  <1>8. Tells(g)'
    BY <1>6, <1>7 DEF Tells
  <1> QED BY <1>8 DEF Entries

\* A mount that is not shown is not one of axiom's.
LEMMA PassedOver ==
  ASSUME TypeOK, Entries, Placing, at = "match", next <= Len(mounts), next' = next + 1,
         UNCHANGED <<os, at, mounts, rows>>, mounts[next].by \notin Proc
  PROVE  Entries'
  <1>1. PICK f \in [1..Len(rows) -> 1..Len(mounts) + 1] : Tells(f)
    BY DEF Entries
  <1>2. next \in Nat /\ Len(mounts) \in Nat
    BY DEF TypeOK
  <1>3. Tells(f)'
    BY <1>1, <1>2, SMTT(30) DEF Tells
  <1> QED BY <1>3 DEF Entries

\* An owner that waits is the only one of its process, and not to be found anywhere else.
LEMMA Waiting ==
  ASSUME LInv, at = "match", NEW i \in waiting
  PROVE  /\ i \in 1..Len(claims) /\ i \in Nat /\ claims[i].pid \in Proc
         /\ Running(claims[i].pid) \in ever /\ arg[claims[i].pid].mine
         /\ claims[i].names \in {arg[claims[i].pid].at, NoPoint}
         /\ Waits(claims[i].pid) /\ ~HasRow(claims[i].pid) /\ ~Ahead(claims[i].pid)
         /\ \A j \in waiting : claims[i].pid = claims[j].pid => i = j
  <1>1. waiting \subseteq 1..Len(claims) /\ claims \in Seq(Claim)
    BY DEF LInv, TypeOK
  <1>2. i \in 1..Len(claims) /\ claims[i] \in Claim
    BY <1>1
  <1>3. claims[i].pid \in Proc
    BY <1>2 DEF Claim
  <1>4. Waits(claims[i].pid)
    BY DEF Waits
  <1> QED BY <1>1, <1>2, <1>3, <1>4 DEF LInv, Underway, ClaimInv, OneState, Ahead

\* One that waits no longer.
LEMMA GivenClaim ==
  ASSUME LInv, at = "match", NEW i \in waiting, NEW p \in Proc, p = claims[i].pid,
         NEW r \in Row, r.pid = p, rows' = Append(rows, r), waiting' = waiting \ {i},
         UNCHANGED <<os, at, todo, claims, arg, steady>>
  PROVE  OneState'
  <1>1. /\ ~HasRow(p) /\ ~Ahead(p)
        /\ \A j \in waiting : claims[j].pid = p => j = i
    BY Waiting
  <1>2. ~Ahead(p)' /\ ~Claims(p)' /\ ~Waits(p)'
    BY <1>1 DEF Ahead, Claims, Waits
  <1>3. \A q \in Proc \ {p} : /\ Ahead(q)' <=> Ahead(q)
                              /\ Claims(q)' <=> Claims(q)
                              /\ Waits(q)' <=> Waits(q)
    BY DEF Ahead, Claims, Waits
  <1> QED BY <1>1, <1>2, <1>3, GivenRow DEF LInv, Underway

\* Rows that were there stay.
LEMMA OwnerRowStays ==
  ASSUME TypeOK, NEW r \in Row, rows' = rows \/ rows' = Append(rows, r), arg' = arg, NEW p,
         \E i \in 1..Len(rows) : rows[i] = FuseRow(p, arg[p].at, "mounted")
  PROVE  \E i \in 1..Len(rows') : rows'[i] = FuseRow(p, arg'[p].at, "mounted")
  <1>1. CASE rows' = rows
    BY <1>1
  <1>2. CASE rows' = Append(rows, r)
    <2>1. \A i \in 1..Len(rows) : i \in 1..Len(rows') /\ rows'[i] = rows[i]
      BY <1>2, OneMoreRow DEF TypeOK
    <2> QED BY <2>1
  <1> QED BY <1>1, <1>2

\* The claim of a process that alone asks for its point.
LEMMA SoleClaim ==
  ASSUME LInv, Placing, at = "match", NEW p \in Proc, Sole(p), NEW j \in waiting, claims[j].pid = p
  PROVE  claims[j].names = arg[p].at
  <1>1. j \in 1..Len(claims)
    BY Waiting
  <1>2. arg[p].spelled \in {"canonical", "relative"}
    BY MountsAssumption DEF Sole, LInv, World, LifeTypeOK, Argument, Spelling
  <1> QED BY <1>1, <1>2 DEF LInv, Underway, ClaimInv, Sole

LEMMA NextMount ==
  ASSUME LInv, at = "match", next <= Len(mounts)
  PROVE  /\ next \in 1..Len(mounts) /\ next \in Nat /\ Len(mounts) \in Nat
         /\ mounts[next].at \in Point /\ mounts[next].at # NoPoint
         /\ mounts[next].by \in Proc \cup Alien
         /\ os = "linux" /\ Placing
  <1>1. /\ next \in 1..Len(mounts) /\ next \in Nat /\ Len(mounts) \in Nat
        /\ mounts \in Seq(Mounting) /\ os \in {"linux", "macos"}
    BY DEF LInv, TypeOK
  <1>2. mounts[next] \in Mounting
    BY <1>1
  <1>3. mounts[next].at \in Point /\ mounts[next].by \in Proc \cup Alien
    BY <1>2 DEF Mounting
  <1> QED BY <1>1, <1>3, ListAssumption DEF LInv, Underway, StageInv, Placing

LEMMA OwnedInv ==
  ASSUME LInv, at = "match", next <= Len(mounts), NEW i \in waiting, First(i, mounts[next].at),
         rows' = Append(rows, FuseRow(claims[i].pid, mounts[next].at, "mounted")),
         waiting' = waiting \ {i}, next' = next + 1,
         UNCHANGED <<os, at, todo, claims, socket, mounts, lifeVars, history>>
  PROVE  LInv'
  <1>0. World' /\ UNCHANGED <<state, arg, table, steady, ever, blank>>
    BY WorldRests DEF LInv
  <1>1. PICK p \in Proc : p = claims[i].pid
    BY Waiting
  <1>2. /\ next \in 1..Len(mounts) /\ next \in Nat /\ Len(mounts) \in Nat
        /\ mounts[next].at \in Point /\ mounts[next].at # NoPoint
        /\ os = "linux" /\ Placing
    BY NextMount
  <1>3. PICK point \in Point : point = mounts[next].at
    BY <1>2
  <1>4. PICK r \in Row : r = FuseRow(p, point, "mounted")
    BY FuseRowType
  <1>5. r.pid = p /\ r.at = point /\ r.state = "mounted" /\ r.kind = "fuse"
    BY <1>4, FuseRowType
  <1>6. rows' = Append(rows, r)
    BY <1>1, <1>3, <1>4
  <1>7. /\ rows' \in Seq(Row)
        /\ \A k \in 1..Len(rows) : k \in 1..Len(rows') /\ rows'[k] = rows[k]
        /\ Len(rows) + 1 \in 1..Len(rows') /\ rows'[Len(rows) + 1] = r
    BY <1>6, OneMoreRow DEF LInv, TypeOK
  <1>8. TypeOK'
    <2>1. next' \in 1..Len(mounts) + 1
      BY <1>2
    <2> QED BY <1>7, <2>1 DEF LInv, TypeOK
  <1>9. /\ Running(p) \in ever /\ arg[p].mine
        /\ claims[i].names \in {arg[p].at, NoPoint} /\ claims[i].names = point
    BY <1>1, <1>3, Waiting DEF First
  <1>10. RowInv'
    BY <1>0, <1>5, <1>6, <1>9, FuseRowInv DEF LInv, Underway
  <1>11. ClaimInv'
    BY <1>0 DEF LInv, Underway, ClaimInv, Running
  <1>12. OneState'
    BY <1>0, <1>1, <1>5, <1>6, GivenClaim
  <1>13. StageInv'
    BY <1>2 DEF LInv, Underway, StageInv
  <1>14. ReadInv'
    BY <1>0 DEF LInv, ReadInv, Placing
  <1>15. Entries'
    BY <1>2, <1>3, <1>5, <1>6, PlacedRow DEF LInv
  <1>16. OwnerInv'
    <2> SUFFICES ASSUME NEW q \in Proc, Sole(q)', ~blank'
                 PROVE  \/ \E k \in 1..Len(rows') : rows'[k] = FuseRow(q, arg'[q].at, "mounted")
                        \/ /\ Waits(q)'
                           /\ \E k \in 1..Len(mounts') :
                                next' <= k /\ mounts'[k].by = q /\ mounts'[k].at = arg'[q].at
      BY DEF OwnerInv
    <2>1. Sole(q)
      BY <1>0, SoleKeeps
    <2>2. CASE \E k \in 1..Len(rows) : rows[k] = FuseRow(q, arg[q].at, "mounted")
      BY <1>0, <1>6, <2>2, OwnerRowStays DEF LInv
    <2>3. CASE arg[q].at = point
      <3>1. arg[p].at = arg[q].at
        BY <1>2, <1>3, <1>9, <2>3
      <3>2. p = q
        BY <1>9, <2>1, <3>1 DEF Sole
      <3> QED BY <1>0, <1>4, <1>7, <2>3, <3>2
    <2>4. CASE arg[q].at # point /\ Waits(q)
               /\ \E k \in 1..Len(mounts) : next <= k /\ mounts[k].by = q /\ mounts[k].at = arg[q].at
      <3>1. PICK j \in waiting : claims[j].pid = q
        BY <2>4 DEF Waits
      <3>2. j # i
        BY <1>2, <1>9, <2>1, <2>4, <3>1, SoleClaim
      <3>3. Waits(q)'
        BY <3>1, <3>2 DEF Waits
      <3>4. PICK k \in 1..Len(mounts) : next <= k /\ mounts[k].by = q /\ mounts[k].at = arg[q].at
        BY <2>4
      <3>5. next' <= k
        BY <1>2, <1>3, <2>4, <3>4
      <3> QED BY <1>0, <3>3, <3>4, <3>5
    <2> QED BY <1>0, <1>2, <2>1, <2>2, <2>3, <2>4 DEF LInv, OwnerInv
  <1> QED BY <1>0, <1>8, <1>10, <1>11, <1>12, <1>13, <1>14, <1>15, <1>16 DEF Underway, LInv

\* A mount nobody claims leaves the claims alone: a process that alone asks for
\* its point would have been found.
LEMMA UnownedOwners ==
  ASSUME LInv, at = "match", next <= Len(mounts), \A i \in waiting : claims[i].names # mounts[next].at,
         NEW r \in Row, rows' = rows \/ rows' = Append(rows, r), next' = next + 1,
         UNCHANGED <<os, at, todo, claims, waiting, mounts, arg, steady, ever, blank>>
  PROVE  OwnerInv'
  <1>1. /\ next \in 1..Len(mounts) /\ next \in Nat /\ Len(mounts) \in Nat /\ Placing
    BY NextMount
  <1> SUFFICES ASSUME NEW q \in Proc, Sole(q)', ~blank'
               PROVE  \/ \E k \in 1..Len(rows') : rows'[k] = FuseRow(q, arg'[q].at, "mounted")
                      \/ /\ Waits(q)'
                         /\ \E k \in 1..Len(mounts') :
                              next' <= k /\ mounts'[k].by = q /\ mounts'[k].at = arg'[q].at
    BY DEF OwnerInv
  <1>2. Sole(q)
    BY SoleKeeps
  <1>3. CASE \E k \in 1..Len(rows) : rows[k] = FuseRow(q, arg[q].at, "mounted")
    BY <1>3, OwnerRowStays DEF LInv
  <1>4. CASE Waits(q) /\ \E k \in 1..Len(mounts) : next <= k /\ mounts[k].by = q /\ mounts[k].at = arg[q].at
    <2>1. PICK j \in waiting : claims[j].pid = q
      BY <1>4 DEF Waits
    <2>2. claims[j].names = arg[q].at
      BY <1>1, <1>2, <2>1, SoleClaim
    <2>3. PICK k \in 1..Len(mounts) : next <= k /\ mounts[k].by = q /\ mounts[k].at = arg[q].at
      BY <1>4
    <2>4. k # next
      BY <2>2, <2>3
    <2>5. next' <= k
      BY <1>1, <2>3, <2>4
    <2>6. Waits(q)'
      BY <2>1 DEF Waits
    <2> QED BY <2>3, <2>5, <2>6
  <1> QED BY <1>1, <1>2, <1>3, <1>4 DEF LInv, OwnerInv

LEMMA UnownedInv ==
  ASSUME LInv, at = "match", next <= Len(mounts), \A i \in waiting : claims[i].names # mounts[next].at,
         rows' = IF mounts[next].by \in Proc
                 THEN Append(rows, FuseRow(NoPid, mounts[next].at, "mounted"))
                 ELSE IF mounts[next].at \in Home
                 THEN Append(rows, FuseRow(NoPid, mounts[next].at, "unidentified"))
                 ELSE rows,
         next' = next + 1,
         UNCHANGED <<os, at, todo, claims, socket, waiting, mounts, lifeVars, history>>
  PROVE  LInv'
  <1>0. World' /\ UNCHANGED <<state, arg, table, steady, ever, blank>>
    BY WorldRests DEF LInv
  <1>1. /\ next \in 1..Len(mounts) /\ next \in Nat /\ Len(mounts) \in Nat
        /\ mounts[next].by \in Proc \cup Alien
        /\ os = "linux" /\ Placing
    BY NextMount
  <1>2. PICK point \in Point : point = mounts[next].at
    BY NextMount
  <1>3. PICK st \in {"mounted", "unidentified"} :
          st = IF mounts[next].by \in Proc THEN "mounted" ELSE "unidentified"
    OBVIOUS
  <1>4. PICK r \in Row : r = FuseRow(NoPid, point, st)
    BY FuseRowType
  <1>5. r.pid = NoPid /\ r.at = point /\ r.state = st /\ r.kind = "fuse"
    BY <1>4 DEF FuseRow
  <1>6. \/ /\ rows' = Append(rows, r)
           /\ st = "unidentified" => mounts[next].by \in Alien /\ point \in Home
        \/ rows' = rows /\ mounts[next].by \notin Proc
    BY <1>1, <1>2, <1>3, <1>4
  <1>7. ClaimInv'
    BY <1>0 DEF LInv, Underway, ClaimInv, Running
  <1>8. StageInv'
    BY <1>1 DEF LInv, Underway, StageInv
  <1>9. ReadInv'
    BY <1>0 DEF LInv, ReadInv, Placing
  <1>10. OwnerInv'
    BY <1>0, <1>6, UnownedOwners
  <1>11. next' \in 1..Len(mounts) + 1
    BY <1>1
  <1>12. CASE rows' = Append(rows, r) /\ (st = "unidentified" => mounts[next].by \in Alien /\ point \in Home)
    <2>1. rows' \in Seq(Row)
      BY <1>12, OneMoreRow DEF LInv, TypeOK
    <2>2. TypeOK'
      BY <1>11, <2>1 DEF LInv, TypeOK
    <2>3. RowInv'
      BY <1>0, <1>5, <1>12, FuseRowInv DEF LInv, Underway
    <2>4. OneState'
      BY <1>0, <1>5, <1>12, NobodysRow DEF LInv, Underway
    <2>5. Entries'
      BY <1>1, <1>2, <1>5, <1>12, PlacedRow DEF LInv
    <2> QED BY <1>0, <1>7, <1>8, <1>9, <1>10, <2>2, <2>3, <2>4, <2>5 DEF Underway, LInv
  <1>13. CASE rows' = rows /\ mounts[next].by \notin Proc
    <2>1. TypeOK'
      BY <1>11, <1>13 DEF LInv, TypeOK
    <2>2. RowInv'
      BY <1>0, <1>13 DEF LInv, Underway, RowInv
    <2>3. OneState'
      BY <1>0, <1>13 DEF LInv, Underway, OneState, Ahead, Claims, Waits, HasRow, Listed, Running
    <2>4. Entries'
      BY <1>1, <1>13, PassedOver DEF LInv
    <2> QED BY <1>0, <1>7, <1>8, <1>9, <1>10, <2>1, <2>2, <2>3, <2>4 DEF Underway, LInv
  <1> QED BY <1>6, <1>12, <1>13

LEMMA PlaceMountInv ==
  ASSUME LInv, PlaceMount, UNCHANGED <<lifeVars, history>>
  PROVE  LInv'
  <1>1. CASE \E i \in waiting :
               /\ First(i, mounts[next].at)
               /\ rows' = Append(rows, FuseRow(claims[i].pid, mounts[next].at, "mounted"))
               /\ waiting' = waiting \ {i}
    BY <1>1, OwnedInv DEF PlaceMount
  <1>2. CASE /\ \A i \in waiting : claims[i].names # mounts[next].at
             /\ rows' = IF mounts[next].by \in Proc
                        THEN Append(rows, FuseRow(NoPid, mounts[next].at, "mounted"))
                        ELSE IF mounts[next].at \in Home
                        THEN Append(rows, FuseRow(NoPid, mounts[next].at, "unidentified"))
                        ELSE rows
             /\ UNCHANGED waiting
    BY <1>2, UnownedInv DEF PlaceMount
  <1> QED BY <1>1, <1>2 DEF PlaceMount

LEMMA PlaceWaitingInv ==
  ASSUME LInv, NEW i \in waiting, PlaceWaiting(i), UNCHANGED <<lifeVars, history>>
  PROVE  LInv'
  <1>0. World' /\ UNCHANGED <<state, arg, table, steady, ever, blank>>
    BY WorldRests DEF LInv, PlaceWaiting
  <1>1. /\ at = "match" /\ next > Len(mounts) /\ next \in Nat /\ Len(mounts) \in Nat
        /\ waiting' = waiting \ {i}
        /\ UNCHANGED <<os, at, todo, claims, next, socket, mounts>>
    BY DEF PlaceWaiting, LInv, TypeOK
  <1>2. PICK p \in Proc : p = claims[i].pid
    BY <1>1, Waiting
  <1>3. PICK r \in Row : r = FuseRow(p, NoPoint, "starting")
    BY FuseRowType
  <1>4. r.pid = p /\ r.at = NoPoint /\ r.state = "starting" /\ r.kind = "fuse"
    BY <1>3, FuseRowType
  <1>5. rows' = Append(rows, r)
    BY <1>2, <1>3 DEF PlaceWaiting
  <1>6. /\ rows' \in Seq(Row) /\ Len(rows) \in Nat /\ Len(rows') = Len(rows) + 1
        /\ \A k \in 1..Len(rows) : k \in 1..Len(rows') /\ rows'[k] = rows[k]
        /\ Len(rows) + 1 \in 1..Len(rows') /\ rows'[Len(rows) + 1] = r
        /\ \A k \in 1..Len(rows') : k \in 1..Len(rows) \/ k = Len(rows) + 1
    BY <1>5, OneMoreRow DEF LInv, TypeOK
  <1>7. TypeOK'
    BY <1>1, <1>6 DEF LInv, TypeOK
  <1>8. Running(p) \in ever /\ arg[p].mine
    BY <1>1, <1>2, Waiting
  <1>9. RowInv'
    <2>1. TypeOK /\ RowInv
      BY <1>1 DEF LInv, Underway
    <2>2. r.pid # NoPid => Running(r.pid) \in ever /\ arg[r.pid].mine
      BY <1>4, <1>8
    <2> QED BY <1>0, <1>4, <1>5, <2>1, <2>2, FuseRowInv
  <1>10. ClaimInv'
    BY <1>0, <1>1 DEF LInv, Underway, ClaimInv, Running
  <1>11. OneState'
    BY <1>0, <1>1, <1>2, <1>4, <1>5, GivenClaim
  <1>12. StageInv'
    BY <1>1 DEF LInv, Underway, StageInv
  <1>13. ReadInv'
    BY <1>0, <1>1 DEF LInv, ReadInv, Placing
  <1>14. Entries'
    <2>1. SUFFICES ASSUME Placing
                   PROVE  \E f \in [1..Len(rows') -> 1..Len(mounts) + 1] : Tells(f)'
      BY <1>1 DEF Entries, Placing
    <2>2. PICK f \in [1..Len(rows) -> 1..Len(mounts) + 1] : Tells(f)
      BY <2>1 DEF LInv, Entries
    <2> DEFINE h == [k \in 1..Len(rows') |-> IF k \in 1..Len(rows) THEN f[k] ELSE 1]
    <2>3. h \in [1..Len(rows') -> 1..Len(mounts) + 1]
      <3>1. \A k \in 1..Len(rows') : (IF k \in 1..Len(rows) THEN f[k] ELSE 1) \in 1..Len(mounts) + 1
        BY <1>1
      <3> QED BY <3>1
    <2>4. PICK g \in [1..Len(rows') -> 1..Len(mounts) + 1] : g = h
      BY <2>3
    <2>5. /\ \A k \in 1..Len(rows) : g[k] = f[k]
          /\ \A k \in 1..Len(rows') : rows'[k].at # NoPoint => k \in 1..Len(rows)
      BY <1>4, <1>6, <2>4
    <2>6. ASSUME NEW k \in 1..Len(rows'), rows'[k].at # NoPoint
          PROVE  /\ g[k] < next /\ mounts[g[k]].at = rows'[k].at
                 /\ rows'[k].state = "unidentified" => mounts[g[k]].by \in Alien /\ rows'[k].at \in Home
                 /\ \A j \in 1..Len(rows') : rows'[j].at # NoPoint /\ g[k] = g[j] => k = j
      <3>1. k \in 1..Len(rows) /\ rows'[k] = rows[k] /\ g[k] = f[k]
        BY <1>6, <2>5, <2>6
      <3>2. /\ f[k] < next /\ mounts[f[k]].at = rows[k].at
            /\ rows[k].state = "unidentified" => mounts[f[k]].by \in Alien /\ rows[k].at \in Home
            /\ \A j \in 1..Len(rows) : rows[j].at # NoPoint /\ f[k] = f[j] => k = j
        BY <2>2, <2>6, <3>1 DEF Tells
      <3>3. \A j \in 1..Len(rows') : rows'[j].at # NoPoint /\ g[k] = g[j] => k = j
        BY <1>6, <2>5, <3>1, <3>2
      <3> QED BY <3>1, <3>2, <3>3
    <2>7. ASSUME NEW j \in 1..Len(mounts), j < next, mounts[j].by \in Proc
          PROVE  \E k \in 1..Len(rows') : rows'[k].at # NoPoint /\ g[k] = j
      <3>1. PICK k \in 1..Len(rows) : rows[k].at # NoPoint /\ f[k] = j
        BY <2>2, <2>7 DEF Tells
      <3> QED BY <1>6, <2>5, <3>1
    <2>8. Tells(g)'
      BY <1>1, <2>6, <2>7 DEF Tells
    <2> QED BY <2>8
  <1>15. OwnerInv'
    <2> SUFFICES ASSUME NEW q \in Proc, Sole(q)', Placing', ~blank'
                 PROVE  \E k \in 1..Len(rows') : rows'[k] = FuseRow(q, arg'[q].at, "mounted")
      BY DEF OwnerInv
    <2>1. Sole(q) /\ Placing
      BY <1>0, <1>1, SoleKeeps DEF Placing
    <2>2. \E k \in 1..Len(rows) : rows[k] = FuseRow(q, arg[q].at, "mounted")
      BY <1>0, <1>1, <2>1 DEF LInv, OwnerInv
    <2> QED BY <1>0, <1>5, <2>2, OwnerRowStays DEF LInv
  <1> QED BY <1>0, <1>7, <1>9, <1>10, <1>11, <1>12, <1>13, <1>14, <1>15 DEF Underway, LInv

-----------------------------------------------------------------------------
(* The order of the rows. *)

LEMMA RowFields ==
  \A r \in Row : r.pid \in Nat /\ r.kind \in {"fuse", "webdav"}
  <1>1. Proc \cup {NoPid} \subseteq Nat
    BY MountsAssumption DEF NoPid
  <1>2. \A r \in Row : r.pid \in Proc \cup {NoPid} /\ r.kind \in Kind
    BY DEF Row
  <1> QED BY <1>1, <1>2 DEF Kind

\* The place of a row is one more than the number of those before it.
LEMMA Places ==
  ASSUME NEW s \in Seq(Row), NEW i \in 1..Len(s)
  PROVE  Position(s, i) \in 1..Len(s)
  <1> DEFINE B == {j \in 1..Len(s) : Before(s, j, i)}
  <1>1. Len(s) \in Nat /\ IsFiniteSet(1..Len(s)) /\ Cardinality(1..Len(s)) = Len(s)
    BY FS_Interval
  <1>2. s[i] \in Row
    OBVIOUS
  <1>3. s[i].pid \in Nat
    BY <1>2, RowFields
  <1>4. ~Before(s, i, i)
    BY <1>3 DEF Before
  <1>5. IsFiniteSet((1..Len(s)) \ {i}) /\ Cardinality((1..Len(s)) \ {i}) = Len(s) - 1
    BY <1>1, FS_RemoveElement, ZenonT(30)
  <1>6. B \in SUBSET ((1..Len(s)) \ {i})
    BY <1>4
  <1>7. IsFiniteSet(B) /\ Cardinality(B) <= Len(s) - 1
    BY <1>5, <1>6, FS_Subset
  <1>8. Cardinality(B) \in Nat
    BY <1>7, FS_CardinalityType
  <1> HIDE DEF B
  <1>9. Cardinality(B) + 1 \in 1..Len(s)
    BY <1>1, <1>7, <1>8
  <1> QED BY <1>9 DEF Position, B

\* Rows with different places.
LEMMA PlacesDiffer ==
  ASSUME NEW s \in Seq(Row), NEW i \in 1..Len(s), NEW j \in 1..Len(s), Before(s, i, j)
  PROVE  Position(s, i) < Position(s, j)
  <1> DEFINE B(k) == {l \in 1..Len(s) : Before(s, l, k)}
  <1>1. Len(s) \in Nat /\ IsFiniteSet(1..Len(s))
    BY FS_Interval
  <1>2. \A k \in 1..Len(s) : s[k] \in Row
    OBVIOUS
  <1>3. \A k \in 1..Len(s) : s[k].pid \in Nat /\ s[k].kind \in {"fuse", "webdav"}
    BY <1>2, RowFields
  <1>4. \A k \in 1..Len(s) : Before(s, k, i) => Before(s, k, j)
    BY <1>3 DEF Before
  <1>5. ~Before(s, i, i)
    BY <1>3 DEF Before
  <1>6. B(j) \in SUBSET (1..Len(s)) /\ B(i) \in SUBSET B(j) /\ B(i) # B(j)
    BY <1>4, <1>5
  <1> HIDE DEF B
  <1>7. IsFiniteSet(B(j))
    BY <1>1, <1>6, FS_Subset
  <1>8. IsFiniteSet(B(i)) /\ Cardinality(B(i)) <= Cardinality(B(j)) /\ Cardinality(B(i)) # Cardinality(B(j))
    BY <1>6, <1>7, FS_Subset
  <1>9. Cardinality(B(i)) \in Nat /\ Cardinality(B(j)) \in Nat
    BY <1>7, <1>8, FS_CardinalityType
  <1>10. Cardinality(B(i)) + 1 < Cardinality(B(j)) + 1
    BY <1>8, <1>9
  <1> QED BY <1>10 DEF Position, B

\* t has the elements of s in another order: g says where each comes from, b
\* where it has gone.
Rearranged(s, t, g, b) ==
  /\ Len(t) = Len(s)
  /\ \A k \in 1..Len(s) : /\ g[k] \in 1..Len(s) /\ b[k] \in 1..Len(s)
                          /\ g[b[k]] = k /\ b[g[k]] = k
                          /\ t[k] = s[g[k]]

\* Sorting rows loses none and repeats none, and none stands before one that
\* has to come before it (the sort of cmd_mount_list).
THEOREM SortedIsPermutation ==
  ASSUME NEW s \in Seq(Row)
  PROVE  /\ Sorted(s) \in Seq(Row)
         /\ \E g, b \in [1..Len(s) -> 1..Len(s)] :
              /\ Rearranged(s, Sorted(s), g, b)
              /\ \A k, l \in 1..Len(s) : Before(s, g[k], g[l]) => k < l
  <1> DEFINE n == Len(s)
             f == [i \in 1..n |-> Position(s, i)]
             g == [k \in 1..n |-> CHOOSE i \in 1..n : Position(s, i) = k]
  <1>1. n \in Nat /\ IsFiniteSet(1..n)
    BY FS_Interval
  <1>2. \A i \in 1..n : s[i] \in Row
    OBVIOUS
  <1>3. \A i \in 1..n : s[i].pid \in Nat /\ s[i].kind \in {"fuse", "webdav"}
    BY <1>2, RowFields
  <1>4. \A i, j \in 1..n : i # j => Before(s, i, j) \/ Before(s, j, i)
    BY <1>3 DEF Before
  <1>5. \A i \in 1..n : Position(s, i) \in 1..n
    BY Places
  <1>6. \A i, j \in 1..n : Before(s, i, j) => Position(s, i) < Position(s, j)
    BY PlacesDiffer
  <1>7. \A i, j \in 1..n : Position(s, i) = Position(s, j) => i = j
    BY <1>1, <1>4, <1>5, <1>6
  <1>8. f \in Injection(1..n, 1..n)
    BY <1>5, <1>7 DEF Injection, IsInjective
  <1>9. f \in Surjection(1..n, 1..n)
    BY <1>1, <1>8, FS_Injection
  <1>10. \A k \in 1..n : \E i \in 1..n : Position(s, i) = k
    BY <1>9 DEF Surjection
  <1>11. \A k \in 1..n : g[k] \in 1..n /\ Position(s, g[k]) = k
    BY <1>10
  <1>12. g \in [1..n -> 1..n]
    BY <1>11
  <1>13. f \in [1..n -> 1..n] /\ \A k \in 1..n : f[g[k]] = k
    BY <1>5, <1>11
  <1>14. \A i \in 1..n : g[f[i]] = i
    BY <1>5, <1>7, <1>11
  <1>15. \A k, l \in 1..n : Before(s, g[k], g[l]) => k < l
    <2> HIDE DEF g
    <2> QED BY <1>6, <1>11
  <1>16. Sorted(s) = [k \in 1..n |-> s[g[k]]]
    BY DEF Sorted
  <1> HIDE DEF f, g
  <1>17. Sorted(s) \in [1..n -> Row]
    BY <1>2, <1>11, <1>16
  <1>18. Sorted(s) \in Seq(Row) /\ Len(Sorted(s)) = n
    BY <1>1, <1>17
  <1>19. Rearranged(s, Sorted(s), g, f)
    BY <1>11, <1>12, <1>13, <1>14, <1>16, <1>18 DEF Rearranged
  <1> QED BY <1>12, <1>13, <1>15, <1>18, <1>19

\* What was so of the rows is so of the rows in another order.
LEMMA RearrangedRows ==
  ASSUME LInv, rows' \in Seq(Row),
         NEW g \in [1..Len(rows) -> 1..Len(rows)], NEW b \in [1..Len(rows) -> 1..Len(rows)],
         Rearranged(rows, rows', g, b),
         at \in {"fds", "match"}, at' = "done",
         os = "macos" => todo = {},
         os = "linux" => at = "match" /\ next = Len(mounts) + 1 /\ waiting = {},
         UNCHANGED <<os, todo, claims, next, socket, waiting, mounts, lifeVars, history>>
  PROVE  LInv'
  <1>0. World' /\ UNCHANGED <<state, arg, table, steady, ever, blank>>
    BY WorldRests DEF LInv
  <1>2. PICK n \in Nat : n = Len(rows)
    BY DEF LInv, TypeOK
  <1>3. rows' \in Seq(Row) /\ Len(rows') = n
    BY <1>2 DEF Rearranged
  <1>4. \A k \in 1..n : g[k] \in 1..n /\ b[g[k]] = k /\ rows'[k] = rows[g[k]]
    BY <1>2 DEF Rearranged
  <1>back. \A k \in 1..n : b[k] \in 1..n /\ g[b[k]] = k /\ rows'[b[k]] = rows[k]
    BY <1>2 DEF Rearranged
  <1>5. os # "linux" => os = "macos" /\ todo = {} /\ claims = <<>> /\ waiting = {} /\ next = 1 /\ at = "fds"
    BY DEF LInv, TypeOK, Underway, StageInv
  <1>6. /\ waiting = {} /\ todo = {} /\ \A q \in Proc : ~Claims(q)
    BY <1>5 DEF LInv, Underway, StageInv, Claims
  <1>7. TypeOK'
    <2>1. os = "linux" => next \in 1..Len(mounts) + 1
      BY DEF LInv, TypeOK
    <2>2. os = "macos" => next \in 1..Len(mounts) + 1
      BY <1>5 DEF LInv, TypeOK
    <2> QED BY <1>3, <2>1, <2>2 DEF LInv, TypeOK
  <1>8. ClaimInv'
    BY <1>0 DEF LInv, Underway, ClaimInv, Running
  <1>9. OneState'
    <2>1. \A q \in Proc : HasRow(q) => HasRow(q)'
      BY <1>2, <1>3, <1>back, SMTT(30) DEF HasRow
    <2>2. \A q \in Proc : ~Ahead(q)' /\ ~Claims(q)' /\ ~Waits(q)'
      BY <1>6 DEF Ahead, Claims, Waits
    <2>3. \A i, j \in 1..n : rows'[i].pid = rows'[j].pid /\ rows'[i].pid # NoPid => i = j
      BY <1>2, <1>4 DEF LInv, Underway, OneState
    <2>4. \A q \in Proc : Running(q) \in steady /\ arg[q].mine /\ Listed(q) => HasRow(q)
      BY <1>6 DEF LInv, Underway, OneState, Ahead, Waits
    <2> QED BY <1>0, <1>3, <2>1, <2>2, <2>3, <2>4 DEF OneState, Listed, Running
  <1>10. RowInv'
    BY <1>0, <1>2, <1>3, <1>4 DEF LInv, Underway, RowInv, Running, Listen
  <1>11. StageInv'
    BY <1>5, <1>6 DEF StageInv
  <1>12. ReadInv'
    BY <1>0, <1>5 DEF LInv, ReadInv, Placing
  <1>13. ASSUME os = "linux"
         PROVE  Entries'
    <2>1. PICK f \in [1..n -> 1..Len(mounts) + 1] : Tells(f)
      BY <1>2, <1>13 DEF LInv, Entries, Placing
    <2>2. PICK h \in [1..n -> 1..Len(mounts) + 1] : \A k \in 1..n : h[k] = f[g[k]]
      <3> DEFINE hh == [k \in 1..n |-> f[g[k]]]
      <3>1. hh \in [1..n -> 1..Len(mounts) + 1]
        BY <1>4
      <3> QED BY <3>1
    <2>3. ASSUME NEW i \in 1..n, rows'[i].at # NoPoint
          PROVE  /\ h[i] < next /\ mounts[h[i]].at = rows'[i].at
                 /\ rows'[i].state = "unidentified" => mounts[h[i]].by \in Alien /\ rows'[i].at \in Home
                 /\ \A j \in 1..n : rows'[j].at # NoPoint /\ h[i] = h[j] => i = j
      <3>1. PICK k \in 1..n : k = g[i] /\ rows'[i] = rows[k] /\ h[i] = f[k]
        BY <1>4, <2>2
      <3>2. /\ f[k] < next /\ mounts[f[k]].at = rows[k].at
            /\ rows[k].state = "unidentified" => mounts[f[k]].by \in Alien /\ rows[k].at \in Home
            /\ \A j \in 1..n : rows[j].at # NoPoint /\ f[k] = f[j] => k = j
        BY <1>2, <2>1, <2>3, <3>1 DEF Tells
      <3>3. ASSUME NEW j \in 1..n, rows'[j].at # NoPoint, h[i] = h[j]
            PROVE  i = j
        <4>1. g[j] \in 1..n /\ rows[g[j]].at # NoPoint /\ f[g[j]] = f[k]
          BY <1>4, <2>2, <3>1, <3>3
        <4>2. g[i] = g[j]
          BY <3>1, <3>2, <4>1
        <4> QED BY <1>4, <4>2
      <3> QED BY <3>1, <3>2, <3>3
    <2>4. ASSUME NEW k \in 1..Len(mounts), k < next, mounts[k].by \in Proc
          PROVE  \E i \in 1..n : rows'[i].at # NoPoint /\ h[i] = k
      <3>1. PICK j \in 1..n : rows[j].at # NoPoint /\ f[j] = k
        BY <1>2, <2>1, <2>4 DEF Tells
      <3>2. b[j] \in 1..n /\ rows'[b[j]] = rows[j] /\ h[b[j]] = f[j]
        BY <1>back, <2>2
      <3> QED BY <3>1, <3>2
    <2>5. Tells(h)'
      BY <1>3, <2>3, <2>4 DEF Tells
    <2> QED BY <1>3, <2>5 DEF Entries
  <1>14. ASSUME os = "linux"
         PROVE  OwnerInv'
    <2> SUFFICES ASSUME NEW q \in Proc, Sole(q)', ~blank'
                 PROVE  \E k \in 1..n : rows'[k] = FuseRow(q, arg[q].at, "mounted")
      BY <1>0, <1>3 DEF OwnerInv
    <2>1. Sole(q) /\ Placing
      BY <1>0, <1>14, SoleKeeps DEF Placing
    <2>2. ~Waits(q)
      BY <1>6 DEF Waits
    <2>3. PICK i \in 1..n : rows[i] = FuseRow(q, arg[q].at, "mounted")
      BY <1>0, <1>2, <2>1, <2>2 DEF LInv, OwnerInv
    <2> QED BY <1>back, <2>3
  <1>15. os # "linux" => ~Placing'
    BY DEF Placing
  <1> QED BY <1>0, <1>7, <1>8, <1>9, <1>10, <1>11, <1>12, <1>13, <1>14, <1>15, NotPlaced DEF Underway, LInv

LEMMA SortedRows ==
  ASSUME LInv, rows' = Sorted(rows), at \in {"fds", "match"}, at' = "done",
         os = "macos" => todo = {},
         os = "linux" => at = "match" /\ next = Len(mounts) + 1 /\ waiting = {},
         UNCHANGED <<os, todo, claims, next, socket, waiting, mounts, lifeVars, history>>
  PROVE  LInv'
  <1>1. PICK s \in Seq(Row) : s = rows
    BY DEF LInv, TypeOK
  <1>2. Sorted(s) \in Seq(Row)
    BY SortedIsPermutation
  <1>3. PICK g, b \in [1..Len(s) -> 1..Len(s)] : Rearranged(s, Sorted(s), g, b)
    BY SortedIsPermutation
  <1> QED BY <1>1, <1>2, <1>3, RearrangedRows

LEMMA SortRowsInv ==
  ASSUME LInv, SortRows, UNCHANGED <<lifeVars, history>>
  PROVE  LInv'
  <1>1. os = "linux" /\ next = Len(mounts) + 1
    BY DEF LInv, TypeOK, Underway, StageInv, SortRows
  <1> QED BY <1>1, SortedRows DEF SortRows

LEMMA LsofDoneInv ==
  ASSUME LInv, LsofDone, UNCHANGED <<lifeVars, history>>
  PROVE  LInv'
  BY SortedRows DEF LsofDone

-----------------------------------------------------------------------------
(* The theorems. *)

LEMMA NextInv ==
  ASSUME LInv, [Next]_vars
  PROVE  LInv'
  <1>1. CASE Begin
    BY <1>1, BeginInv
  <1>2. CASE Looks /\ Reading /\ UNCHANGED <<lifeVars, history>>
    <2>1. ASSUME NEW p \in Proc, ReadCmdline(p) \/ ReadCwd(p) \/ Lsof(p)
          PROVE  LInv'
      BY <1>2, <2>1, ReadCmdlineInv, ReadCwdInv, LsofInv
    <2>2. ASSUME Scanned \/ KeepFuse \/ ReadFds \/ ReadTcp
          PROVE  LInv'
      BY <1>2, <2>2, ScannedInv, KeepFuseInv, ReadFdsInv, ReadTcpInv
    <2>3. ASSUME Ps \/ LsofDone \/ ListFails
          PROVE  LInv'
      BY <1>2, <2>3, PsInv, LsofDoneInv, ListFailsInv
    <2> QED BY <1>2, <2>1, <2>2, <2>3 DEF Reading
  <1>3. CASE Putting /\ UNCHANGED <<lifeVars, history>>
    BY <1>3, PlaceMountInv, PlaceWaitingInv, SortRowsInv DEF Putting
  <1>4. CASE Looks /\ LifeNext /\ Observe /\ UNCHANGED listVars
    BY <1>4, WorldInv
  <1>5. CASE at = "idle" /\ LifeNext /\ UNCHANGED <<listVars, history>>
    BY <1>5, IdleInv
  <1>6. CASE UNCHANGED vars
    BY <1>6, StutterInv
  <1>7. CASE ReadTable /\ UNCHANGED <<lifeVars, steady, ever>>
    BY <1>7, ReadTableInv
  <1> QED BY <1>1, <1>2, <1>3, <1>4, <1>5, <1>6, <1>7 DEF Next

\* At each point of a listing, on Linux and on macOS, each process is at one place
\* on its way to its row and each row with a mount point is one entry of the mount
\* table (linux::collect and macos::collect in mount_list.rs).
THEOREM ListInvariant == Spec => []LInv
  BY InitInv, NextInv, PTL DEF Spec

\* The listing keeps its types, and has at most one claim for a process
\* (mount_list.rs, linux::collect).
THEOREM ListTypes == Spec => [](LifeTypeOK /\ TypeOK)
  <1>1. LInv => LifeTypeOK /\ TypeOK
    BY DEF LInv, World
  <1> QED BY <1>1, ListInvariant, PTL

LEMMA OneRow ==
  ASSUME LInv, at = "done", NEW p \in Proc, HasRow(p)
  PROVE  Cardinality(RowsOf(p)) = 1
  <1>1. PICK i \in 1..Len(rows) : rows[i].pid = p
    BY DEF HasRow
  <1>2. p # NoPid
    BY MountsAssumption DEF NoPid
  <1>3. RowsOf(p) = {i}
    BY <1>1, <1>2 DEF RowsOf, LInv, Underway, OneState
  <1> QED BY <1>3, FS_Singleton

LEMMA ProcessRows == LInv => ProcessRowsTrue
  <1> SUFFICES ASSUME LInv, at = "done"
               PROVE  ProcessRowsTrue
    BY DEF ProcessRowsTrue, ProcessesListedOnce, ListeningIsTrue
  <1>1. ProcessesListedOnce
    <2> SUFFICES ASSUME NEW p \in Proc
                 PROVE  /\ <<"run", p>> \in steady /\ arg[p].mine /\ Listed(p) => Cardinality(RowsOf(p)) = 1
                        /\ RowsOf(p) # {} =>
                             <<"run", p>> \in ever /\ arg[p].mine /\ Cardinality(RowsOf(p)) = 1
      BY DEF ProcessesListedOnce
    <2>1. <<"run", p>> \in steady /\ arg[p].mine /\ Listed(p) => HasRow(p)
      BY DEF LInv, Underway, OneState, StageInv, Ahead, Claims, Waits, Running
    <2>2. RowsOf(p) # {} => HasRow(p)
      BY DEF RowsOf, HasRow
    <2>3. HasRow(p) => <<"run", p>> \in ever /\ arg[p].mine
      BY MountsAssumption DEF LInv, Underway, RowInv, HasRow, Running, NoPid
    <2> QED BY <2>1, <2>2, <2>3, OneRow
  <1>2. ListeningIsTrue
    BY DEF LInv, Underway, RowInv, ListeningIsTrue, Listen
  <1> QED BY <1>1, <1>2 DEF ProcessRowsTrue

\* Every process of the user that runs all the time has one row, no row is of a
\* process that never ran, and a row says listening when that is so: for any
\* processes that come and go while the listing reads them one after another.
THEOREM ProcessRowsHold == Spec => []ProcessRowsTrue
  BY ListInvariant, ProcessRows, PTL

LEMMA MountsAtLeast ==
  ASSUME LInv, at = "done", os = "linux", ~blank, NEW point \in Point
  PROVE  Cardinality(RowsAt(point)) >= Cardinality(MountsOf(steady, Proc, point))
  <1> DEFINE T == MountsOf(steady, Proc, point)
             R == RowsAt(point)
  <1>1. PICK f \in [1..Len(rows) -> 1..Len(mounts) + 1] : Tells(f)
    BY DEF LInv, Entries, Placing
  <1>2. Len(rows) \in Nat /\ point # NoPoint /\ Len(mounts) \in Nat /\ next = Len(mounts) + 1
    BY ListAssumption DEF LInv, TypeOK, Underway, StageInv
  <1>3. IsFiniteSet(R)
    <2>1. IsFiniteSet(1..Len(rows)) /\ R \in SUBSET (1..Len(rows))
      BY <1>2, FS_Interval DEF RowsAt
    <2> HIDE DEF R
    <2> QED BY <2>1, FS_Subset
  <1>4. \A t \in T : t = <<"mount", t[2], point>> /\ t[2] \in Proc
    BY DEF LInv, World, RememberedMounts, MountsOf
  <1> DEFINE Owns(i, x) == rows[i].at = point /\ mounts[f[i]].by = x
  <1>5. ASSUME NEW t \in T
        PROVE  \E i \in R : Owns(i, t[2])
    <2>1. PICK k \in 1..Len(mounts) : mounts[k].by = t[2] /\ mounts[k].at = point
      BY <1>4 DEF LInv, ReadInv, Placing, MountsOf
    <2>2. PICK i \in 1..Len(rows) : rows[i].at # NoPoint /\ f[i] = k
      BY <1>1, <1>2, <1>4, <2>1 DEF Tells
    <2>3. rows[i].at = point
      BY <1>1, <2>1, <2>2 DEF Tells
    <2> QED BY <2>1, <2>2, <2>3 DEF RowsAt
  <1> DEFINE h == [t \in T |-> CHOOSE i \in R : Owns(i, t[2])]
  <1>6. \A t \in T : h[t] \in R /\ Owns(h[t], t[2])
    BY <1>5
  <1>7. h \in [T -> R]
    BY <1>6
  <1>8. \A t, u \in T : h[t] = h[u] => t = u
    <2> HIDE DEF h
    <2>1. ASSUME NEW t \in T, NEW u \in T, h[t] = h[u]
          PROVE  t[2] = u[2]
      BY <1>6, <2>1
    <2> QED BY <1>4, <2>1
  <1> HIDE DEF h, T, R
  <1>9. h \in Injection(T, R)
    BY <1>7, <1>8 DEF Injection, IsInjective
  <1>10. IsFiniteSet(T) /\ Cardinality(T) <= Cardinality(R)
    BY <1>3, <1>9, FS_Injection
  <1>11. Cardinality(T) \in Nat /\ Cardinality(R) \in Nat
    BY <1>3, <1>10, FS_CardinalityType
  <1>12. Cardinality(R) >= Cardinality(T)
    BY <1>10, <1>11
  <1> QED BY <1>12 DEF T, R

LEMMA MountsAtMost ==
  ASSUME LInv, at = "done", os = "linux", NEW point \in Point
  PROVE  Cardinality(RowsAt(point)) <= Cardinality(MountsOf(ever, Proc \cup Alien, point))
  <1> DEFINE T == MountsOf(ever, Proc \cup Alien, point)
             R == RowsAt(point)
  <1>1. PICK f \in [1..Len(rows) -> 1..Len(mounts) + 1] : Tells(f)
    BY DEF LInv, Entries, Placing
  <1>2. /\ point # NoPoint /\ Len(mounts) \in Nat /\ next = Len(mounts) + 1
        /\ mounts \in Seq(Mounting)
    BY ListAssumption DEF LInv, TypeOK, Underway, StageInv
  <1>3. \A t \in T : t = <<"mount", t[2], point>> /\ t[2] \in Proc \cup Alien
    BY DEF LInv, World, RememberedMounts, MountsOf
  <1>4. IsFiniteSet(T)
    <2> DEFINE h == [t \in T |-> t[2]]
    <2>1. h \in [T -> Proc \cup Alien]
      BY <1>3
    <2>2. \A t, u \in T : h[t] = h[u] => t = u
      BY <1>3
    <2>3. h \in Injection(T, Proc \cup Alien)
      BY <2>1, <2>2 DEF Injection, IsInjective
    <2>4. IsFiniteSet(Proc \cup Alien)
      BY ListAssumption, FS_Union
    <2> QED BY <2>3, <2>4, FS_Injection
  <1>5. \A i \in R : /\ i \in 1..Len(rows) /\ rows[i].at = point
                     /\ f[i] \in 1..Len(mounts) /\ mounts[f[i]].at = point
                     /\ \A j \in R : f[i] = f[j] => i = j
    BY <1>1, <1>2 DEF Tells, RowsAt
  <1> DEFINE h == [i \in R |-> <<"mount", mounts[f[i]].by, point>>]
  <1>6. \A i \in R : h[i] \in T
    <2> SUFFICES ASSUME NEW i \in R PROVE h[i] \in T
      OBVIOUS
    <2>1. PICK k \in 1..Len(mounts) : k = f[i]
      BY <1>5
    <2>2. mounts[k] \in Mounting
      BY <1>2
    <2>3. mounts[k].by \in Proc \cup Alien /\ mounts[k].at = point
      BY <1>5, <2>1, <2>2 DEF Mounting
    <2>4. <<"mount", mounts[k].by, point>> \in ever
      BY <2>3 DEF LInv, ReadInv, Placing
    <2> QED BY <2>1, <2>3, <2>4 DEF MountsOf
  <1>7. h \in [R -> T]
    BY <1>6
  <1>8. \A i, j \in R : h[i] = h[j] => i = j
    <2> SUFFICES ASSUME NEW i \in R, NEW j \in R, h[i] = h[j] PROVE i = j
      OBVIOUS
    <2>1. h[i] = <<"mount", mounts[f[i]].by, point>> /\ h[j] = <<"mount", mounts[f[j]].by, point>>
      OBVIOUS
    <2>2. mounts[f[i]].by = mounts[f[j]].by
      BY <2>1
    <2>3. f[i] = f[j]
      BY <1>5, <2>2 DEF LInv, ReadInv, Placing
    <2> QED BY <1>5, <2>3
  <1> HIDE DEF h, T, R
  <1>9. h \in Injection(R, T)
    BY <1>7, <1>8 DEF Injection, IsInjective
  <1>10. Cardinality(R) <= Cardinality(T)
    BY <1>4, <1>9, FS_Injection
  <1> QED BY <1>10 DEF T, R

LEMMA MountRows == LInv => MountRowsTrue
  <1> SUFFICES ASSUME LInv, at = "done", os = "linux"
               PROVE  MountRowsTrue
    BY DEF MountRowsTrue, MountsCounted, OwnerFound
  <1>1. MountsCounted
    <2>1. ASSUME NEW point \in Point, NEW i \in RowsAt(point), rows[i].state = "unidentified"
          PROVE  point \in Home /\ MountsOf(ever, Alien, point) # {}
      <3>1. PICK f \in [1..Len(rows) -> 1..Len(mounts) + 1] : Tells(f)
        BY DEF LInv, Entries, Placing
      <3>2. /\ Len(mounts) \in Nat /\ next = Len(mounts) + 1 /\ point # NoPoint
            /\ i \in 1..Len(rows) /\ rows[i].at = point
        BY ListAssumption DEF LInv, TypeOK, Underway, StageInv, RowsAt
      <3>3. /\ f[i] \in 1..Len(mounts) /\ mounts[f[i]].at = point
            /\ mounts[f[i]].by \in Alien /\ point \in Home
        BY <2>1, <3>1, <3>2 DEF Tells
      <3>4. <<"mount", mounts[f[i]].by, point>> \in ever
        BY <3>3 DEF LInv, ReadInv, Placing
      <3>5. <<"mount", mounts[f[i]].by, point>> \in MountsOf(ever, Alien, point)
        BY <3>3, <3>4 DEF MountsOf
      <3> QED BY <3>3, <3>5
    <2> QED BY <2>1, MountsAtLeast, MountsAtMost DEF MountsCounted
  <1>2. OwnerFound
    <2> SUFFICES ASSUME NEW p \in Proc, ~blank,
                        {<<"run", p>>, <<"mount", p, arg[p].at>>} \subseteq steady,
                        arg[p].mine /\ arg[p].spelled # "odd",
                        \A q \in Proc \ {p} : <<"run", q>> \in ever => ~arg[q].mine \/ arg[q].at # arg[p].at
                 PROVE  \E i \in 1..Len(rows) : rows[i] = FuseRow(p, arg[p].at, "mounted")
      BY DEF OwnerFound, LInv, TypeOK
    <2>1. Sole(p)
      BY DEF Sole, Running
    <2>2. ~Waits(p)
      BY DEF LInv, Underway, StageInv, Waits
    <2> QED BY <2>1, <2>2 DEF LInv, OwnerInv, Placing
  <1> QED BY <1>1, <1>2 DEF MountRowsTrue

\* A point has as many rows as mounts, between those that stayed and those that
\* came, and a process that alone asks for its point is listed with its mount:
\* for any mount table, although it is read after the processes.
THEOREM MountRowsHold == Spec => []MountRowsTrue
  BY ListInvariant, MountRows, PTL
=============================================================================
