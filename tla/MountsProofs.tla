---------------------------- MODULE MountsProofs ----------------------------
(***************************************************************************)
(* Theorems about Mounts, for any processes, mount points and programs.    *)
(*                                                                         *)
(* LeftBehind is inductive once the FUSE threads that have ended are known *)
(* to be of processes that did mount (Threads).  That Mounts implements    *)
(* MountLife needs no more than the types: every step changes the life of  *)
(* at most one process and takes away at most one mount.                   *)
(***************************************************************************)
EXTENDS Mounts, SequenceTheorems, TLAPS

Threads == \A p \in finished : pc[p] \in Mounted \cup Ended

MInv == MountsTypeOK /\ LeftBehind /\ Threads

-----------------------------------------------------------------------------
(* The table. *)

\* Taking a mount out of the table leaves a table of mounts that were in it.
LEMMA Removed ==
  ASSUME NEW S, NEW t \in Seq(S), NEW i \in 1..Len(t)
  PROVE  /\ RemoveAt(t, i) \in Seq(S)
         /\ \A j \in 1..Len(RemoveAt(t, i)) : \E k \in 1..Len(t) : RemoveAt(t, i)[j] = t[k]
  <1> DEFINE a == SubSeq(t, 1, i - 1)
             b == SubSeq(t, i + 1, Len(t))
  <1>0. Len(t) \in Nat /\ i \in Int /\ 1 <= i /\ i <= Len(t)
    OBVIOUS
  <1>1. a \in Seq(S) /\ Len(a) = i - 1 /\ \A j \in 1..i - 1 : a[j] = t[j]
    OBVIOUS
  <1>2. b \in Seq(S) /\ Len(b) = Len(t) - i /\ \A j \in 1..Len(t) - i : b[j] = t[j + i]
    OBVIOUS
  <1> HIDE DEF a, b
  <1>3. RemoveAt(t, i) = a \o b
    BY DEF RemoveAt, a, b
  <1>4. a \o b \in Seq(S) /\ Len(a \o b) = Len(t) - 1
    <2>1. a \o b \in Seq(S) /\ Len(a \o b) = Len(a) + Len(b)
      BY <1>1, <1>2, ConcatProperties, Zenon
    <2> QED BY <1>0, <1>1, <1>2, <2>1
  <1>5. ASSUME NEW j \in 1..Len(t) - 1
        PROVE  \E k \in 1..Len(t) : (a \o b)[j] = t[k]
    <2>1. CASE j < i
      <3>1. (a \o b)[j] = t[j]
        BY <1>1, <1>2, <2>1
      <3> QED BY <3>1
    <2>2. CASE j >= i
      <3>1. (a \o b)[j] = b[j - (i - 1)] /\ j - (i - 1) \in 1..Len(t) - i
        BY <1>1, <1>2, <2>2
      <3>2. (a \o b)[j] = t[j + 1]
        BY <1>2, <3>1
      <3> QED BY <3>2
    <2>3. j < i \/ j >= i
      BY <1>0
    <2> QED BY <2>1, <2>2, <2>3
  <1> QED BY <1>3, <1>4, <1>5

Taken == \E i \in 1..Len(table) : table' = RemoveAt(table, i)

\* What is taken away was somebody's; the others keep theirs.
LEMMA TakenTable ==
  ASSUME MountsTypeOK, Taken
  PROVE  table' \in Seq(Life!Mounting) /\ \A x : InTable(x)' => InTable(x)
  <1>1. PICK i \in 1..Len(table) : table' = RemoveAt(table, i)
    BY DEF Taken
  <1>2. table \in Seq(Life!Mounting)
    BY DEF MountsTypeOK
  <1>3. /\ table' \in Seq(Life!Mounting)
        /\ \A j \in 1..Len(table') : \E k \in 1..Len(table) : table'[j] = table[k]
    BY <1>1, <1>2, Removed
  <1> QED BY <1>3 DEF InTable, Life!In

LEMMA DropTakes == ASSUME NEW x, Drop(x) PROVE Taken
  BY DEF Drop, Taken

LEMMA DetachTakes == ASSUME NEW at, Detach(at) PROVE Taken
  BY DEF Detach, Taken

\* A mount is put on top.
LEMMA AddedTable ==
  ASSUME MountsTypeOK, NEW m \in Life!Mounting, table' = Append(table, m)
  PROVE  /\ table' \in Seq(Life!Mounting)
         /\ \A x : InTable(x)' => InTable(x) \/ x = m.by
  <1>1. table \in Seq(Life!Mounting)
    BY DEF MountsTypeOK
  <1>2. /\ table' \in Seq(Life!Mounting) /\ Len(table') = Len(table) + 1
        /\ \A j \in 1..Len(table) : table'[j] = table[j]
        /\ table'[Len(table) + 1] = m
    BY <1>1
  <1>3. \A j \in 1..Len(table') : j \in 1..Len(table) \/ j = Len(table) + 1
    BY <1>1, <1>2
  <1> QED BY <1>2, <1>3 DEF InTable, Life!In

-----------------------------------------------------------------------------
(* The invariant. *)

\* A step in which one process moves, and nothing is mounted.
Moves(p, place) ==
  /\ pc' = [pc EXCEPT ![p] = place]
  /\ place \in Place
  /\ arg' = arg
  /\ table' = table \/ Taken
  /\ finished' = finished
  /\ acts' = acts

LEMMA MoveInv ==
  ASSUME MInv, NEW p \in Proc, NEW place, Moves(p, place),
         caught' = caught \/ caught' = [caught EXCEPT ![p] = {}],
         caught'[p] # {} => place \in {"term"} \cup Loop,
         pressed' \subseteq Proc,
         sigint' \subseteq Proc,
         p \in finished => place \in Mounted \cup Ended,
         InTable(p) => place \in Mounted \cup {"killed", "died", "error"}
  PROVE  MInv'
  <1> USE DEF MInv, MountsTypeOK
  <1>1. table' \in Seq(Life!Mounting) /\ \A x : InTable(x)' => InTable(x)
    <2>1. CASE table' = table
      BY <2>1 DEF InTable
    <2>2. CASE Taken
      BY <2>2, TakenTable
    <2> QED BY <2>1, <2>2 DEF Moves
  <1>2. MountsTypeOK'
    <2>1. pc' \in [Proc -> Place] /\ arg' \in [Proc -> Args] /\ finished' \subseteq Proc
          /\ acts' \in 0..MaxActs /\ caught' \in [Proc -> SUBSET Sig]
      BY DEF Moves
    <2>2. \A q \in Proc : caught'[q] # {} => pc'[q] \in {"term"} \cup Loop
      BY DEF Moves
    <2> QED BY <1>1, <2>1, <2>2
  <1>3. LeftBehind'
    BY <1>1 DEF LeftBehind, Moves
  <1>4. Threads'
    BY DEF Threads, Moves
  <1> QED BY <1>2, <1>3, <1>4

LEMMA InitMInv == MountsInit => MInv
  <1> SUFFICES ASSUME MountsInit PROVE MInv
    OBVIOUS
  <1>1. MountsTypeOK
    BY MountsConstants DEF MountsInit, MountsTypeOK, Place
  <1>2. LeftBehind
    BY DEF MountsInit, LeftBehind, InTable, Life!In
  <1>3. Threads
    BY DEF MountsInit, Threads
  <1> QED BY <1>1, <1>2, <1>3 DEF MInv

LEMMA MountInv ==
  ASSUME MInv, NEW p \in Proc, Mount(p)
  PROVE  MInv'
  <1> USE DEF MInv, MountsTypeOK
  <1> DEFINE m == [by |-> p, at |-> arg[p].at]
  <1>1. m \in Life!Mounting
    BY MountsConstants DEF Life!Mounting, Life!Argument
  <1>2. table' \in Seq(Life!Mounting) /\ \A x : InTable(x)' => InTable(x) \/ x = p
    BY <1>1, AddedTable DEF Mount
  <1>3. p \notin finished
    BY DEF Threads, Mount, Mounted, Ended, Loop
  <1>4. MountsTypeOK'
    BY <1>2 DEF Mount, Goto, Place, Mounted, Loop
  <1>5. LeftBehind'
    BY <1>2, <1>3 DEF LeftBehind, Mount, Goto, Mounted
  <1>6. Threads'
    BY <1>3 DEF Threads, Mount, Goto, Mounted
  <1> QED BY <1>4, <1>5, <1>6

\* Others mount, unmount, or clean up after a process.
LEMMA OthersInv ==
  ASSUME MInv,
         \/ \E p \in Proc : AutoUnmount(p)
         \/ \E at \in Point : OutsideUnmount(at) \/ \E x \in Alien : AlienMount(x, at)
  PROVE  MInv'
  <1> USE DEF MInv, MountsTypeOK
  <1> DEFINE Kept == /\ table' \in Seq(Life!Mounting)
                     /\ \A p \in Proc : InTable(p)' => InTable(p)
                     /\ UNCHANGED procs /\ acts' \in 0..MaxActs
  <1>1. Kept
    <2>1. ASSUME NEW p \in Proc, AutoUnmount(p) PROVE Kept
      BY <2>1, DropTakes, TakenTable DEF AutoUnmount
    <2>2. ASSUME NEW at \in Point, OutsideUnmount(at) PROVE Kept
      <3>1. Taken /\ UNCHANGED procs
        BY <2>2, DetachTakes DEF OutsideUnmount
      <3>2. acts' \in 0..MaxActs
        BY <2>2, MountsConstants DEF OutsideUnmount
      <3> QED BY <3>1, <3>2, TakenTable
    <2>3. ASSUME NEW at \in Point, NEW x \in Alien, AlienMount(x, at) PROVE Kept
      <3>1. acts' \in 0..MaxActs /\ UNCHANGED procs
        BY <2>3, MountsConstants DEF AlienMount
      <3>2. [by |-> x, at |-> at] \in Life!Mounting
        BY DEF Life!Mounting
      <3>3. table' \in Seq(Life!Mounting) /\ \A y : InTable(y)' => InTable(y) \/ y = x
        BY <2>3, <3>2, AddedTable DEF AlienMount
      <3> QED BY <3>1, <3>3, MountsConstants
    <2> HIDE DEF Kept
    <2> QED BY <2>1, <2>2, <2>3
  <1>2. MountsTypeOK'
    BY <1>1 DEF procs
  <1>3. LeftBehind' /\ Threads'
    BY <1>1 DEF procs, LeftBehind, Threads
  <1> QED BY <1>2, <1>3

LEMMA SignalInv ==
  ASSUME MInv, NEW p \in Proc, NEW sig \in Sig, Signal(p, sig)
  PROVE  MInv'
  <1> USE DEF MInv, MountsTypeOK
  <1>1. CASE ~Handled(p, sig)
    <2>1. Moves(p, "died")
      BY <1>1 DEF Signal, Leave, Goto, Moves, Place, Ended
    <2> QED BY <1>1, <2>1, MoveInv DEF Signal, Leave, Goto, Ended
  <1>2. CASE Handled(p, sig)
    <2>1. UNCHANGED <<pc, arg, finished, table, acts, sigint>> /\ pressed' \subseteq Proc
      BY <1>2 DEF Signal
    <2>2. caught' \in [Proc -> SUBSET Sig]
      BY <1>2 DEF Signal
    <2>3. \A q \in Proc : caught'[q] # {} => pc[q] \in {"term"} \cup Loop
      BY <1>2 DEF Signal, Listening, Loop
    <2>4. MountsTypeOK'
      BY <2>1, <2>2, <2>3
    <2> QED BY <2>1, <2>4 DEF LeftBehind, Threads, InTable
  <1> QED BY <1>1, <1>2

LEMMA ThreadEndsInv ==
  ASSUME MInv, NEW p \in Proc, ThreadEnds(p)
  PROVE  MInv'
  BY DEF MInv, MountsTypeOK, LeftBehind, Threads, ThreadEnds, InTable

\* What a process does by itself.
LEMMA ProcessInv ==
  ASSUME MInv, NEW p \in Proc,
         \/ Start(p) \/ OpenVault(p) \/ GivesUp(p) \/ Serve(p) \/ ServeEnds(p)
         \/ InstallFails(p) \/ Wake(p) \/ Own(p) \/ Kill(p)
  PROVE  MInv'
  <1> USE DEF MInv, MountsTypeOK
  <1> USE DEF Goto, Leave, Place, Mounted, Ended, Loop
  <1> DEFINE Quiet(place) == /\ UNCHANGED <<arg, caught, finished, table, acts, pressed, sigint>>
                             /\ Goto(p, place)
  <1>q. ASSUME NEW place \in Place, Quiet(place) PROVE Moves(p, place)
    BY <1>q DEF Moves
  <1>0. (p \in finished => pc[p] \in Mounted \cup Ended)
        /\ (InTable(p) => pc[p] \in Mounted \cup {"killed", "died", "error"} /\ p \notin finished)
    BY DEF Threads, LeftBehind
  <1>1. CASE Start(p)
    BY <1>0, <1>1, <1>q, MoveInv DEF Start
  <1>2. CASE OpenVault(p)
    BY <1>0, <1>2, <1>q, MoveInv DEF OpenVault
  <1>3. CASE GivesUp(p)
    BY <1>0, <1>3, <1>q, MoveInv DEF GivesUp
  <1>4. CASE Serve(p)
    BY <1>0, <1>4, <1>q, MoveInv DEF Serve
  <1>5. CASE ServeEnds(p)
    <2>1. CASE Goto(p, "ok")
      BY <1>0, <1>5, <2>1, <1>q, MoveInv DEF ServeEnds
    <2>2. CASE Goto(p, "error")
      BY <1>0, <1>5, <2>2, <1>q, MoveInv DEF ServeEnds
    <2> QED BY <1>5, <2>1, <2>2 DEF ServeEnds
  <1>6. CASE InstallFails(p)
    <2>1. Moves(p, "error")
      BY <1>6, DropTakes DEF InstallFails, Moves
    <2> QED BY <1>6, <2>1, MoveInv DEF InstallFails
  <1>7. CASE Wake(p)
    <2>1. Moves(p, "unmounting")
      BY <1>7 DEF Wake, Moves
    <2> QED BY <1>7, <2>1, MoveInv DEF Wake
  <1>8. CASE Kill(p)
    <2>1. Moves(p, "killed")
      BY <1>8 DEF Kill, Moves
    <2> QED BY <1>8, <2>1, MoveInv DEF Kill
  <1>9. CASE InstallTerm(p)
    BY <1>0, <1>9, <1>q, MoveInv DEF InstallTerm
  <1>10. CASE InstallHup(p)
    BY <1>0, <1>10, <1>q, MoveInv DEF InstallHup
  <1>11. CASE Select(p)
    <2>1. Moves(p, "wait")
      BY <1>11 DEF Select, Moves
    <2> QED BY <1>0, <1>11, <2>1, MoveInv DEF Select
  <1>12. CASE Tick(p)
    <2>1. CASE p \in finished
      <3>1. Moves(p, "unmounting")
        BY <1>12, <2>1 DEF Tick, Moves
      <3> QED BY <1>12, <2>1, <3>1, MoveInv DEF Tick
    <2>2. CASE p \notin finished
      <3>1. UNCHANGED <<arg, finished, table, acts, pressed, sigint>>
            /\ pc' = [pc EXCEPT ![p] = "turn"] /\ pc[p] \in Loop
            /\ caught' = [caught EXCEPT ![p] = caught[p] \ {"INT"}]
        BY <1>12, <2>2 DEF Tick
      <3>2. MountsTypeOK'
        BY <3>1
      <3> QED BY <3>1, <3>2 DEF LeftBehind, Threads, InTable
    <2> QED BY <2>1, <2>2
  <1>13. CASE Unmount(p)
    <2>1. Moves(p, "joining")
      BY <1>13, DetachTakes DEF Unmount, Moves
    <2> QED BY <1>13, <2>1, MoveInv DEF Unmount
  <1>14. CASE Join(p)
    <2>1. Moves(p, "ok")
      BY <1>14 DEF Join, Moves
    <2> QED BY <1>0, <1>14, <2>1, MoveInv DEF Join
  <1> QED
    BY <1>1, <1>2, <1>3, <1>4, <1>5, <1>6, <1>7, <1>8, <1>9, <1>10, <1>11, <1>12, <1>13, <1>14
    DEF Own

LEMMA StepMInv == MInv /\ [MountsNext]_mountsVars => MInv'
  <1> SUFFICES ASSUME MInv, [MountsNext]_mountsVars PROVE MInv'
    OBVIOUS
  <1>1. CASE UNCHANGED mountsVars
    BY <1>1 DEF MInv, MountsTypeOK, LeftBehind, Threads, InTable, mountsVars
  <1>2. CASE MountsNext
    BY <1>2, ProcessInv, MountInv, ThreadEndsInv, SignalInv, OthersInv DEF MountsNext
  <1> QED BY <1>1, <1>2

LEMMA AlwaysMInv == MountsSpec => []MInv
  BY InitMInv, StepMInv, PTL DEF MountsSpec

\* The variables have their types, and signals are only held for a process that
\* still looks at them.
THEOREM TypesHold == MountsSpec => []MountsTypeOK
  <1>1. MInv => MountsTypeOK
    BY DEF MInv
  <1> QED BY <1>1, AlwaysMInv, PTL

\* A mount without a process that serves it was left behind by one that died
\* before its handlers were there or could not be: never by one that unmounts.
THEOREM OnlyTheDeadLeaveMounts == MountsSpec => []LeftBehind
  <1>1. MInv => LeftBehind
    BY DEF MInv
  <1> QED BY <1>1, AlwaysMInv, PTL

-----------------------------------------------------------------------------
(* The refinement. *)

\* What others see of the processes, and a change of it.
Sight == [p \in Proc |-> Seen(pc[p])]

LEMMA SightMoves ==
  ASSUME MountsTypeOK, NEW p \in Proc, NEW place, pc' = [pc EXCEPT ![p] = place],
         NEW seen, Seen(place) = seen
  PROVE  Sight' = [Sight EXCEPT ![p] = seen] /\ Sight[p] = Seen(pc[p])
  BY DEF Sight, MountsTypeOK

LEMMA SightStays ==
  ASSUME MountsTypeOK, NEW p \in Proc, NEW place, pc' = [pc EXCEPT ![p] = place],
         Seen(place) = Seen(pc[p])
  PROVE  Sight' = Sight
  BY DEF Sight, MountsTypeOK

LEMMA SeenValues ==
  /\ Seen("idle") = "idle" /\ Seen("password") = "starting" /\ Seen("opened") = "starting"
  /\ \A place \in Ended : Seen(place) = "gone"
  /\ \A place \in Mounted \cup {"listening"} : Seen(place) = "serving"
  BY DEF Seen, Ended, Mounted, Loop

\* A process that was starting or serving ends, perhaps with an unmount.
LEMMA EndsLife ==
  ASSUME MountsTypeOK, NEW p \in Proc, NEW place \in Ended, pc' = [pc EXCEPT ![p] = place],
         Seen(pc[p]) \in {"starting", "serving"},
         UNCHANGED table \/ Taken, UNCHANGED arg
  PROVE  Life!LifeNext
  <1>1. Seen(place) = "gone"
    BY SeenValues
  <1>2. Sight' = [Sight EXCEPT ![p] = "gone"] /\ Sight[p] \in {"starting", "serving"}
    BY <1>1, SightMoves, ZenonT(30)
  <1>3. UNCHANGED table \/ Life!TakeAway
    BY DEF Life!TakeAway, Life!RemoveAt, RemoveAt, Taken
  <1>4. Life!End(p)
    BY <1>2, <1>3 DEF Life!End, Sight
  <1> QED BY <1>4 DEF Life!LifeNext

\* A step inside the process that others do not see.
LEMMA NothingSeen ==
  ASSUME MountsTypeOK, NEW p \in Proc, NEW place, pc' = [pc EXCEPT ![p] = place],
         Seen(place) = Seen(pc[p]), UNCHANGED <<table, arg>>
  PROVE  UNCHANGED Life!lifeVars
  BY SightStays DEF Life!lifeVars, Sight

LEMMA TakenSeen ==
  ASSUME Taken, Sight' = Sight, arg' = arg
  PROVE  Life!LifeNext
  <1>1. Life!Unmounted
    BY DEF Taken, Life!Unmounted, Life!TakeAway, Life!RemoveAt, RemoveAt, Sight
  <1> QED BY <1>1 DEF Life!LifeNext

LEMMA InitLife == MountsInit => Life!LifeInit
  BY SeenValues DEF MountsInit, Life!LifeInit

\* The three steps of a life before its end.
LEMMA StartSeen ==
  ASSUME MountsTypeOK, NEW p \in Proc, Start(p)
  PROVE  Life!LifeNext
  <1>1. Seen("password") = "starting"
    BY SeenValues DEF Mounted
  <1>2. pc' = [pc EXCEPT ![p] = "password"]
    BY DEF Start, Goto
  <1>3. Sight' = [Sight EXCEPT ![p] = "starting"]
    BY <1>1, <1>2, SightMoves
  <1>4. Sight[p] = "idle"
    BY SeenValues DEF Start, Sight
  <1>5. Life!Start(p)
    BY <1>3, <1>4 DEF Start, Life!Start, Sight
  <1> QED BY <1>5 DEF Life!LifeNext

LEMMA ServeSeen ==
  ASSUME MountsTypeOK, NEW p \in Proc, Serve(p)
  PROVE  Life!LifeNext
  <1>1. Seen("listening") = "serving"
    BY SeenValues DEF Mounted
  <1>2. pc' = [pc EXCEPT ![p] = "listening"]
    BY DEF Serve, Goto
  <1>3. Sight' = [Sight EXCEPT ![p] = "serving"]
    BY <1>1, <1>2, SightMoves
  <1>4. Sight[p] = "starting"
    BY SeenValues DEF Serve, Sight
  <1>5. Life!Serve(p)
    BY <1>3, <1>4 DEF Serve, Life!Serve, Sight
  <1> QED BY <1>5 DEF Life!LifeNext

LEMMA MountSeen ==
  ASSUME MountsTypeOK, NEW p \in Proc, Mount(p)
  PROVE  Life!LifeNext
  <1>1. Seen("mounted") = "serving"
    BY SeenValues DEF Mounted
  <1>2. pc' = [pc EXCEPT ![p] = "mounted"]
    BY DEF Mount, Goto
  <1>3. Sight' = [Sight EXCEPT ![p] = "serving"]
    BY <1>1, <1>2, SightMoves
  <1>4. Sight[p] = "starting"
    BY SeenValues DEF Mount, Sight
  <1>5. Life!Serve(p)
    BY <1>3, <1>4 DEF Mount, Life!Serve, Sight
  <1> QED BY <1>5 DEF Life!LifeNext

LEMMA ProcessLife ==
  ASSUME MountsTypeOK, NEW p \in Proc,
         \/ Start(p) \/ OpenVault(p) \/ GivesUp(p) \/ Serve(p) \/ ServeEnds(p) \/ Mount(p)
         \/ InstallFails(p) \/ Wake(p) \/ Own(p) \/ Kill(p)
  PROVE  [Life!LifeNext]_Life!lifeVars
  <1> USE DEF Goto, Leave
  <1> DEFINE Step == [Life!LifeNext]_Life!lifeVars
  <1>p. "password" \in Place /\ \A x \in Mounted : x \in Place
    BY DEF Place
  <1>1. CASE Start(p)
    BY <1>1, StartSeen
  <1>2. CASE OpenVault(p)
    BY <1>2, NothingSeen, SeenValues DEF OpenVault
  <1>3. CASE GivesUp(p)
    BY <1>3, EndsLife, SeenValues DEF GivesUp, Ended
  <1>4. CASE Serve(p)
    BY <1>4, ServeSeen
  <1>5. CASE ServeEnds(p)
    BY <1>5, EndsLife, SeenValues DEF ServeEnds, Ended
  <1>6. CASE Mount(p)
    BY <1>6, MountSeen
  <1>7. CASE InstallFails(p)
    BY <1>7, EndsLife, SeenValues, DropTakes DEF InstallFails, Ended, Mounted, Loop
  <1>8. CASE Wake(p)
    BY <1>8, NothingSeen, SeenValues DEF Wake, Mounted, Loop
  <1>9. CASE Kill(p)
    <2>1. pc[p] \in {"password", "opened", "listening"} \cup Mounted
      BY <1>9 DEF Kill, Running, MountsTypeOK, Place
    <2> QED BY <1>9, <2>1, EndsLife, SeenValues DEF Kill, Ended
  <1>10. CASE InstallTerm(p)
    BY <1>10, NothingSeen, SeenValues DEF InstallTerm, Mounted
  <1>11. CASE InstallHup(p)
    BY <1>11, NothingSeen, SeenValues DEF InstallHup, Mounted, Loop
  <1>12. CASE Select(p)
    BY <1>12, NothingSeen, SeenValues DEF Select, Mounted, Loop
  <1>13. CASE Tick(p)
    BY <1>13, NothingSeen, SeenValues DEF Tick, Mounted, Loop
  <1>14. CASE Unmount(p)
    <2>1. Seen("joining") = Seen(pc[p]) /\ pc' = [pc EXCEPT ![p] = "joining"]
      BY <1>14, SeenValues DEF Unmount, Mounted
    <2>2. CASE UNCHANGED table
      BY <1>14, <2>1, <2>2, NothingSeen DEF Unmount
    <2>3. CASE Taken
      BY <1>14, <2>1, <2>3, SightStays, TakenSeen DEF Unmount
    <2> QED BY <1>14, <2>2, <2>3, DetachTakes DEF Unmount
  <1>15. CASE Join(p)
    BY <1>15, EndsLife, SeenValues DEF Join, Mounted, Ended
  <1> QED
    BY <1>1, <1>2, <1>3, <1>4, <1>5, <1>6, <1>7, <1>8, <1>9, <1>10, <1>11, <1>12, <1>13, <1>14,
       <1>15 DEF Own

LEMMA OthersLife ==
  ASSUME MountsTypeOK,
         \/ \E p \in Proc : ThreadEnds(p) \/ AutoUnmount(p) \/ \E sig \in Sig : Signal(p, sig)
         \/ \E at \in Point : OutsideUnmount(at) \/ \E x \in Alien : AlienMount(x, at)
  PROVE  [Life!LifeNext]_Life!lifeVars
  <1>1. ASSUME NEW p \in Proc, ThreadEnds(p) PROVE UNCHANGED Life!lifeVars
    BY <1>1 DEF ThreadEnds, Life!lifeVars
  <1>2. ASSUME NEW p \in Proc, AutoUnmount(p) PROVE Life!LifeNext
    BY <1>2, DropTakes, TakenSeen DEF AutoUnmount, procs, Sight
  <1>3. ASSUME NEW p \in Proc, NEW sig \in Sig, Signal(p, sig)
        PROVE  [Life!LifeNext]_Life!lifeVars
    <2>1. CASE Handled(p, sig)
      BY <1>3, <2>1 DEF Signal, Life!lifeVars
    <2>2. CASE ~Handled(p, sig)
      <3>1. pc[p] \in {"password", "opened", "listening"} \cup Mounted
        BY <1>3 DEF Signal, Running, MountsTypeOK, Place
      <3> QED BY <1>3, <2>2, <3>1, EndsLife, SeenValues DEF Signal, Leave, Goto, Ended
    <2> QED BY <2>1, <2>2
  <1>4. ASSUME NEW at \in Point, OutsideUnmount(at) PROVE Life!LifeNext
    BY <1>4, DetachTakes, TakenSeen DEF OutsideUnmount, procs, Sight
  <1>5. ASSUME NEW at \in Point, NEW x \in Alien, AlienMount(x, at) PROVE Life!LifeNext
    <2>1. Life!AlienMounted(x, at)
      BY <1>5 DEF AlienMount, procs, InTable, Life!AlienMounted
    <2> QED BY <2>1 DEF Life!LifeNext
  <1> QED BY <1>1, <1>2, <1>3, <1>4, <1>5

\* To others a process starts, serves and is gone, whatever it does inside and
\* however it ends, and no step changes more than one mount.
THEOREM MountsImplementLife == MountsSpec => ImplementsLife
  <1>1. MInv /\ [MountsNext]_mountsVars => [Life!LifeNext]_Life!lifeVars
    <2> SUFFICES ASSUME MInv, [MountsNext]_mountsVars PROVE [Life!LifeNext]_Life!lifeVars
      OBVIOUS
    <2>1. CASE UNCHANGED mountsVars
      BY <2>1 DEF mountsVars, Life!lifeVars
    <2>2. CASE MountsNext
      BY <2>2, ProcessLife, OthersLife DEF MountsNext, MInv
    <2> QED BY <2>1, <2>2
  <1>2. MountsSpec => Life!LifeSpec
    BY <1>1, InitLife, AlwaysMInv, PTL DEF MountsSpec, Life!LifeSpec
  <1> QED BY <1>2 DEF ImplementsLife
=============================================================================
