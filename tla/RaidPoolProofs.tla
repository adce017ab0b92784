--------------------------- MODULE RaidPoolProofs ---------------------------
(***************************************************************************)
(* Theorems about RaidPool, for any locations, objects, keys and modes.    *)
(* Type correctness holds for any number of processes; the others are for  *)
(* commands run one after another (OneProcess): TLC shows that two         *)
(* commands that overlap break them.                                       *)
(***************************************************************************)
EXTENDS RaidPool, SequenceTheorems, TLAPS

USE DEF Move, Finish

(***************************************************************************)
(* The operators the commands are built from.                              *)
(***************************************************************************)
LEMMA SeqAsFunction ==
  ASSUME NEW S, NEW n \in Nat, NEW f \in [1..n -> S]
  PROVE  f \in Seq(S) /\ Len(f) = n
  <1>1. f \in Seq(S)
    BY SeqDef
  <1>2. DOMAIN f = 1..n /\ DOMAIN f = 1..Len(f) /\ Len(f) \in Nat
    BY <1>1
  <1> QED
    BY <1>1, <1>2

\* Taking a member out: one fewer, the rest in order, mode and key untouched.
LEMMA WithoutFacts ==
  ASSUME NEW c \in Config, NEW i \in Positions(c)
  PROVE  /\ Without(c, i) \in Config
         /\ Without(c, i).key = c.key
         /\ Without(c, i).mode = c.mode
         /\ Len(Without(c, i).backends) = Len(c.backends) - 1
         /\ \A j \in 1..(Len(c.backends) - 1) :
              Without(c, i).backends[j] = IF j <= i THEN c.backends[j] ELSE c.backends[j + 1]
  <1> DEFINE n == Len(c.backends) - 1
             f == [j \in 1..n |-> IF j <= i THEN c.backends[j] ELSE c.backends[j + 1]]
  <1>1. c.backends \in Seq(Locs) /\ n \in Nat /\ i \in Nat
    BY DEF Config, Positions
  <1>2. f \in [1..n -> Locs]
    BY <1>1
  <1>3. f \in Seq(Locs) /\ Len(f) = n
    BY <1>1, <1>2, SeqAsFunction
  <1>4. Without(c, i) = [c EXCEPT !.backends = f]
    BY DEF Without
  <1> HIDE DEF f
  <1>5. /\ Without(c, i) \in Config
        /\ Without(c, i).key = c.key
        /\ Without(c, i).mode = c.mode
        /\ Without(c, i).backends = f
    BY <1>3, <1>4 DEF Config
  <1> QED
    BY <1>3, <1>5 DEF f

\* What is left after taking a member out was there before.
LEMMA WithoutMembers ==
  ASSUME NEW c \in Config, NEW i \in Positions(c)
  PROVE  Members(Without(c, i)) \subseteq Members(c)
  <1>1. Len(c.backends) \in Nat /\ i \in Nat
    BY DEF Config, Positions
  <1>2. SUFFICES ASSUME NEW j \in 1..(Len(c.backends) - 1)
                 PROVE  Without(c, i).backends[j] \in Members(c)
    BY WithoutFacts, <1>1 DEF Members
  <1>3. CASE j <= i
    <2>1. Without(c, i).backends[j] = c.backends[j] /\ j \in 1..Len(c.backends)
      BY <1>1, <1>3, WithoutFacts
    <2> QED
      BY <2>1 DEF Members
  <1>4. CASE ~(j <= i)
    <2>1. Without(c, i).backends[j] = c.backends[j + 1] /\ j + 1 \in 1..Len(c.backends)
      BY <1>1, <1>4, WithoutFacts
    <2> QED
      BY <2>1 DEF Members
  <1> QED
    BY <1>3, <1>4

LEMMA AppendFacts ==
  ASSUME NEW c \in Config, NEW l \in Locs
  PROVE  LET new == [c EXCEPT !.backends = Append(@, l)]
         IN /\ new \in Config
            /\ new.key = c.key
            /\ new.mode = c.mode
            /\ Len(new.backends) = Len(c.backends) + 1
            /\ Members(new) = Members(c) \cup {l}
  <1> DEFINE b == Append(c.backends, l)
             new == [c EXCEPT !.backends = b]
  <1>1. /\ b \in Seq(Locs) /\ Len(b) = Len(c.backends) + 1
        /\ \A j \in 1..Len(c.backends) : b[j] = c.backends[j]
        /\ b[Len(c.backends) + 1] = l
        /\ Len(c.backends) \in Nat
    BY DEF Config
  <1> HIDE DEF b
  <1>2. new \in Config /\ new.key = c.key /\ new.mode = c.mode /\ new.backends = b
    BY <1>1 DEF Config
  <1>3. Members(new) = Members(c) \cup {l}
    <2>1. Members(new) \subseteq Members(c) \cup {l}
      BY <1>1, <1>2 DEF Members
    <2>2. Members(c) \subseteq Members(new)
      BY <1>1, <1>2 DEF Members
    <2>3. l \in Members(new)
      BY <1>1, <1>2 DEF Members
    <2> QED
      BY <2>1, <2>2, <2>3
  <1> QED
    BY <1>1, <1>2, <1>3 DEF b

LEMMA ReindexedFacts ==
  ASSUME NEW m \in ShardMap, NEW i \in Nat
  PROVE  /\ Reindexed(m, i) \in ShardMap
         /\ Reindexed(m, i).key = m.key
         /\ Reindexed(m, i).ver = m.ver + 1
         /\ \A o \in Objects : Reindexed(m, i).refs[o] = Shift(i, m.refs[o])
  <1>1. \A o \in Objects : Shift(i, m.refs[o]) \subseteq Nat
    <2> SUFFICES ASSUME NEW o \in Objects, NEW k \in m.refs[o] \ {i}
                 PROVE  (IF k > i THEN k - 1 ELSE k) \in Nat
      BY DEF Shift
    <2>1. k \in Nat
      BY DEF ShardMap
    <2> QED
      BY <2>1
  <1> DEFINE r == [o \in Objects |-> Shift(i, m.refs[o])]
  <1>2. r \in [Objects -> SUBSET Nat]
    BY <1>1
  <1> HIDE DEF r
  <1>3. Reindexed(m, i) = [key |-> m.key, ver |-> m.ver + 1, refs |-> r]
    BY DEF Reindexed, r
  <1>4. /\ Reindexed(m, i) \in ShardMap
        /\ Reindexed(m, i).key = m.key
        /\ Reindexed(m, i).ver = m.ver + 1
        /\ Reindexed(m, i).refs = r
    BY <1>2, <1>3 DEF ShardMap
  <1> QED
    BY <1>4 DEF r

\* The new numbers are those of the configuration with the member taken out:
\* new position j is old position j before the removed one and j + 1 after it.
LEMMA ShiftFollowsWithout ==
  ASSUME NEW n \in Nat, NEW i \in 0..(n - 1), NEW S \in SUBSET (0..(n - 1))
  PROVE  /\ Shift(i, S) \subseteq 0..(n - 2)
         /\ Shift(i, S) = {j \in 0..(n - 2) : (IF j < i THEN j ELSE j + 1) \in S}
  <1> DEFINE T == {j \in 0..(n - 2) : (IF j < i THEN j ELSE j + 1) \in S}
  <1>1. ASSUME NEW x \in Shift(i, S) PROVE x \in T
    <2>1. PICK k \in S \ {i} : x = IF k > i THEN k - 1 ELSE k
      BY DEF Shift
    <2>2. k \in 0..(n - 1) /\ k # i
      OBVIOUS
    <2>3. CASE k > i
      BY <2>1, <2>2, <2>3
    <2>4. CASE ~(k > i)
      BY <2>1, <2>2, <2>4
    <2> QED
      BY <2>3, <2>4
  <1>2. ASSUME NEW x \in T PROVE x \in Shift(i, S)
    <2>1. CASE x < i
      <3>1. x \in S \ {i} /\ ~(x > i)
        BY <2>1
      <3> QED
        BY <3>1 DEF Shift
    <2>2. CASE ~(x < i)
      <3>1. x + 1 \in S \ {i} /\ x + 1 > i /\ (x + 1) - 1 = x
        BY <2>2
      <3> QED
        BY <3>1 DEF Shift
    <2> QED
      BY <2>1, <2>2
  <1> QED
    BY <1>1, <1>2

\* A map that is loaded verifies under the key it is loaded with.
LEMMA LoadableFacts ==
  ASSUME maps \in [Locs -> ShardMap \cup {NoMap}],
         NEW c \in Config, c.key \in Keys, NEW m \in Loadable(c)
  PROVE  m \in ShardMap /\ m.key = c.key
  <1>1. CASE Verified(c) # {}
    <2>1. m \in Verified(c)
      BY <1>1 DEF Loadable
    <2>2. PICK l \in Members(c) : m = maps[l] /\ m # NoMap /\ m.key = c.key
      BY <2>1 DEF Verified
    <2>3. l \in Locs
      BY DEF Members, Config
    <2> QED
      BY <2>2, <2>3
  <1>2. CASE Verified(c) = {}
    <2>1. m = EmptyMap(c.key)
      BY <1>2 DEF Loadable
    <2> QED
      BY <2>1 DEF EmptyMap, ShardMap
  <1> QED
    BY <1>1, <1>2

LEMMA OnDiskFacts ==
  ASSUME cfg \in Config \cup {NoCfg}, NEW c \in OnDisk
  PROVE  c = cfg /\ (c # NoCfg => c \in Config /\ c.key \in Keys)
  BY DEF OnDisk, Config

\* The configuration add-backend goes on with.
LEMMA BaseConfigFacts ==
  ASSUME NEW c \in Config \cup {NoCfg}, NEW k \in Keys, c # NoCfg => c.key \in Keys
  PROVE  /\ BaseConfig(c, k) \in Config
         /\ BaseConfig(c, k).key \in Keys
         /\ BaseConfig(c, k).key = IF c = NoCfg THEN k ELSE c.key
         /\ c # NoCfg => BaseConfig(c, k) = c
         /\ c = NoCfg => BaseConfig(c, k).backends = <<>>
  <1>1. CASE c = NoCfg
    <2>1. BaseConfig(c, k) = [mode |-> Mirror, backends |-> <<>>, key |-> k]
      BY <1>1 DEF BaseConfig
    <2>2. Mirror \in Mode /\ <<>> \in Seq(Locs)
      BY DEF Mode
    <2> HIDE DEF Mirror
    <2> QED
      BY <1>1, <2>1, <2>2 DEF Config
  <1>2. CASE c # NoCfg
    BY <1>2 DEF BaseConfig
  <1> QED
    BY <1>1, <1>2

(***************************************************************************)
(* Type correctness, for any number of processes.  A command past its      *)
(* first step holds a configuration with a key; one that has read the map  *)
(* holds maps under that key; a removal's position is one of the set's.    *)
(***************************************************************************)
WithMap == {"addSaveMap", "remMigrate", "remSaveMap", "remSaveCfg", "remRollback"}
Removing == {"remLoadMap", "remMigrate", "remSaveMap", "remSaveCfg", "remRollback"}

JobFits(label, j) ==
  /\ label # "idle" => j.cfg \in Config /\ j.cfg.key \in Keys
  /\ label \in WithMap => j.map \in ShardMap /\ j.map.key = j.cfg.key
  /\ label \in WithMap \cap Removing => j.backup \in ShardMap /\ j.backup.key = j.cfg.key
  /\ label \in Removing => j.index \in Positions(j.cfg)

TypeInv == TypeOK /\ \A p \in Procs : JobFits(pc[p], job[p])

LEMMA MoveTyped ==
  ASSUME TypeInv, NEW p \in Procs, NEW label \in Label, NEW j \in Job,
         Move(p, label, j), JobFits(label, j)
  PROVE  /\ pc' \in [Procs -> Label]
         /\ job' \in [Procs -> Job]
         /\ (\A q \in Procs : JobFits(pc[q], job[q]))'
  <1>1. pc \in [Procs -> Label] /\ job \in [Procs -> Job] /\ \A q \in Procs : JobFits(pc[q], job[q])
    BY DEF TypeInv, TypeOK
  <1>2. pc' = [pc EXCEPT ![p] = label] /\ job' = [job EXCEPT ![p] = j]
    OBVIOUS
  <1>3. pc' \in [Procs -> Label] /\ job' \in [Procs -> Job]
    BY <1>1, <1>2
  <1>4. ASSUME NEW q \in Procs PROVE JobFits(pc'[q], job'[q])
    <2>1. CASE q = p
      BY <1>1, <1>2, <2>1
    <2>2. CASE q # p
      BY <1>1, <1>2, <2>2
    <2> QED
      BY <2>1, <2>2
  <1> QED
    BY <1>3, <1>4

LEMMA NoJobTyped == NoJob \in Job /\ JobFits("idle", NoJob)
  BY DEF NoJob, Job, JobFits, WithMap, Removing

LEMMA FinishTyped ==
  ASSUME TypeInv, NEW p \in Procs, Finish(p)
  PROVE  /\ pc' \in [Procs -> Label]
         /\ job' \in [Procs -> Job]
         /\ (\A q \in Procs : JobFits(pc[q], job[q]))'
  <1>1. "idle" \in Label
    BY DEF Label
  <1> QED
    BY <1>1, NoJobTyped, MoveTyped

LEMMA PushTyped ==
  ASSUME TypeInv, NEW m \in ShardMap \cup {NoMap}, NEW W, Push(m, W)
  PROVE  maps' \in [Locs -> ShardMap \cup {NoMap}]
  BY DEF Push, TypeInv, TypeOK

LEMMA RepairTyped ==
  ASSUME TypeInv, NEW c, NEW t, NEW S, Repair(c, t, S)
  PROVE  shards' \in [Locs -> [Objects -> Shard]]
  <1>1. shards \in [Locs -> [Objects -> Shard]] /\ "present" \in Shard
    BY DEF TypeInv, TypeOK, Shard
  <1>2. CASE At(c, t) \in Locs
    <2> DEFINE f == [o \in Objects |-> IF o \in S THEN "present" ELSE shards[At(c, t)][o]]
    <2>1. f \in [Objects -> Shard]
      BY <1>1, <1>2
    <2>2. shards' = [shards EXCEPT ![At(c, t)] = f]
      BY DEF Repair
    <2> QED
      BY <1>1, <2>1, <2>2
  <1>3. CASE At(c, t) \notin Locs
    BY <1>1, <1>3 DEF Repair
  <1> QED
    BY <1>2, <1>3

LEMMA TypeInit == Init => TypeInv
  <1> SUFFICES ASSUME Init PROVE TypeInv
    OBVIOUS
  <1>1. cfg \in Config \cup {NoCfg}
    <2>1. ASSUME NEW l \in Locs
          PROVE  [mode |-> Mirror, backends |-> <<l>>, key |-> NoKey] \in Config
      <3>1. Mirror \in Mode /\ <<l>> \in Seq(Locs)
        BY DEF Mode
      <3> HIDE DEF Mirror
      <3> QED
        BY <3>1 DEF Config
    <2> QED
      BY <2>1 DEF Init
  <1>2. maps \in [Locs -> ShardMap \cup {NoMap}]
    <2>1. EmptyMap(Foreign) \in ShardMap
      BY DEF EmptyMap, ShardMap
    <2> QED
      BY <2>1 DEF Init
  <1>3. shards \in [Locs -> [Objects -> Shard]] /\ stored \in [Objects -> SUBSET Nat]
    BY DEF Init, Shard
  <1>4. pc \in [Procs -> Label] /\ job \in [Procs -> Job]
    BY NoJobTyped DEF Init, Label
  <1>5. \A p \in Procs : JobFits(pc[p], job[p])
    BY NoJobTyped DEF Init
  <1> QED
    BY <1>1, <1>2, <1>3, <1>4, <1>5 DEF TypeInv, TypeOK, Init

LEMMA AddTyped ==
  ASSUME TypeInv, NEW p \in Procs,
         \/ \E l \in Locs : AddLoad(p, l)
         \/ AddLoadMap(p) \/ AddSaveMap(p) \/ SaveCfg(p)
  PROVE  TypeInv'
  <1> USE DEF TypeInv, TypeOK
  <1>1. JobFits(pc[p], job[p]) /\ job[p] \in Job /\ pc[p] \in Label
    OBVIOUS
  <1>2. ASSUME NEW l \in Locs, AddLoad(p, l) PROVE TypeInv'
    <2>1. PICK c \in OnDisk, k \in Keys :
             LET base == BaseConfig(c, k)
                 new  == [base EXCEPT !.backends = Append(@, l)]
             IN Move(p, IF Formable(new) THEN "addLoadMap" ELSE "saveCfg",
                     [NoJob EXCEPT !.cfg = new])
      BY <1>2 DEF AddLoad
    <2> DEFINE base == BaseConfig(c, k)
               new  == [base EXCEPT !.backends = Append(@, l)]
               next == IF Formable(new) THEN "addLoadMap" ELSE "saveCfg"
               j    == [NoJob EXCEPT !.cfg = new]
    <2>2. base \in Config /\ base.key \in Keys
      BY OnDiskFacts, BaseConfigFacts
    <2>3. new \in Config /\ new.key \in Keys
      BY <2>2, AppendFacts
    <2>4. next \in {"addLoadMap", "saveCfg"} /\ next \in Label
      BY DEF Label
    <2>5. Move(p, next, j)
      BY <2>1
    <2> HIDE DEF new, next
    <2>6. j \in Job /\ j.cfg = new
      BY <2>3, NoJobTyped DEF Job, NoJob
    <2>7. JobFits(next, j)
      BY <2>3, <2>4, <2>6 DEF JobFits, WithMap, Removing
    <2> QED
      BY <1>2, <2>4, <2>5, <2>6, <2>7, MoveTyped DEF AddLoad
  <1>3. CASE AddLoadMap(p)
    <2>1. job[p].cfg \in Config /\ job[p].cfg.key \in Keys
      BY <1>1, <1>3 DEF AddLoadMap, JobFits
    <2>2. ASSUME NEW m \in Loadable(job[p].cfg), Move(p, "addSaveMap", [job[p] EXCEPT !.map = m])
          PROVE  TypeInv'
      <3> DEFINE j == [job[p] EXCEPT !.map = m]
      <3>1. m \in ShardMap /\ m.key = job[p].cfg.key
        BY <2>1, LoadableFacts
      <3>2. j \in Job /\ j.cfg = job[p].cfg /\ j.map = m
        BY <1>1, <3>1 DEF Job
      <3>3. JobFits("addSaveMap", j) /\ "addSaveMap" \in Label
        BY <2>1, <3>1, <3>2 DEF JobFits, WithMap, Removing, Label
      <3> QED
        BY <1>3, <2>2, <3>2, <3>3, MoveTyped DEF AddLoadMap
    <2>3. CASE Move(p, "saveCfg", job[p])
      <3>1. JobFits("saveCfg", job[p]) /\ "saveCfg" \in Label
        BY <2>1 DEF JobFits, WithMap, Removing, Label
      <3> QED
        BY <1>1, <1>3, <2>3, <3>1, MoveTyped DEF AddLoadMap
    <2> QED
      BY <1>3, <2>2, <2>3 DEF AddLoadMap
  <1>4. CASE AddSaveMap(p)
    <2>1. job[p].cfg \in Config /\ job[p].cfg.key \in Keys /\ job[p].map \in ShardMap
      BY <1>1, <1>4 DEF AddSaveMap, JobFits, WithMap
    <2>2. maps' \in [Locs -> ShardMap \cup {NoMap}]
      BY <1>4, <2>1, PushTyped DEF AddSaveMap
    <2>3. JobFits("saveCfg", job[p]) /\ "saveCfg" \in Label
      BY <2>1 DEF JobFits, WithMap, Removing, Label
    <2> QED
      BY <1>1, <1>4, <2>2, <2>3, MoveTyped DEF AddSaveMap
  <1>5. CASE SaveCfg(p)
    <2>1. job[p].cfg \in Config
      BY <1>1, <1>5 DEF SaveCfg, JobFits
    <2> QED
      BY <1>5, <2>1, FinishTyped DEF SaveCfg
  <1> QED
    BY <1>2, <1>3, <1>4, <1>5

LEMMA RemoveTyped ==
  ASSUME TypeInv, NEW p \in Procs,
         \/ \E i \in 0..MaxBackends : RemLoad(p, i)
         \/ RemLoadMap(p) \/ RemMigrate(p) \/ RemSaveMap(p)
         \/ RemSaveCfg(p) \/ RemSaveCfgFails(p) \/ RemRollback(p)
  PROVE  TypeInv'
  <1> USE DEF TypeInv, TypeOK
  <1>1. JobFits(pc[p], job[p]) /\ job[p] \in Job /\ pc[p] \in Label
    OBVIOUS
  <1>2. ASSUME NEW i \in 0..MaxBackends, RemLoad(p, i) PROVE TypeInv'
    <2>1. PICK c \in OnDisk : /\ c # NoCfg /\ i \in Positions(c)
                              /\ Move(p, "remLoadMap", [NoJob EXCEPT !.cfg = c, !.index = i])
      BY <1>2 DEF RemLoad
    <2> DEFINE j == [NoJob EXCEPT !.cfg = c, !.index = i]
    <2>2. c \in Config /\ c.key \in Keys /\ i \in Nat
      BY <2>1, OnDiskFacts DEF Positions
    <2>3. j \in Job /\ j.cfg = c /\ j.index = i
      BY <2>2, NoJobTyped DEF Job, NoJob
    <2>4. JobFits("remLoadMap", j) /\ "remLoadMap" \in Label
      BY <2>1, <2>2, <2>3 DEF JobFits, WithMap, Removing, Label
    <2> QED
      BY <1>2, <2>1, <2>3, <2>4, MoveTyped DEF RemLoad
  <1>3. CASE RemLoadMap(p)
    <2>1. /\ job[p].cfg \in Config /\ job[p].cfg.key \in Keys
          /\ job[p].index \in Positions(job[p].cfg) /\ job[p].index \in Nat
      <3>1. pc[p] \in Removing /\ pc[p] # "idle"
        BY <1>3 DEF RemLoadMap, Removing
      <3> QED
        BY <1>1, <3>1 DEF JobFits, Job
    <2> DEFINE i == job[p].index
    <2>2. PICK m \in Loadable(job[p].cfg), next \in {"remMigrate", "remSaveMap"} :
            Move(p, next, [job[p] EXCEPT !.map = Reindexed(m, i), !.backup = m])
      BY <1>3 DEF RemLoadMap, MapStep, BackupOf
    <2> DEFINE j == [job[p] EXCEPT !.map = Reindexed(m, i), !.backup = m]
    <2>3. m \in ShardMap /\ m.key = job[p].cfg.key
      BY <2>1, LoadableFacts
    <2>4. Reindexed(m, i) \in ShardMap /\ Reindexed(m, i).key = m.key
      BY <2>1, <2>3, ReindexedFacts
    <2>5. /\ j \in Job /\ j.cfg = job[p].cfg /\ j.index = i
          /\ j.map = Reindexed(m, i) /\ j.backup = m
      BY <1>1, <2>3, <2>4 DEF Job
    <2>6. JobFits(next, j) /\ next \in Label
      BY <2>1, <2>3, <2>4, <2>5 DEF JobFits, WithMap, Removing, Label
    <2> QED
      BY <1>3, <2>2, <2>5, <2>6, MoveTyped DEF RemLoadMap
  <1>4. ASSUME pc[p] \in WithMap \cap Removing, NEW next \in WithMap \cap Removing
        PROVE  /\ JobFits(next, job[p]) /\ next \in Label
               /\ job[p].map \in ShardMap /\ job[p].backup \in ShardMap
               /\ job[p].cfg \in Config /\ job[p].index \in Positions(job[p].cfg)
    BY <1>1, <1>4 DEF JobFits, WithMap, Removing, Label
  <1>5. CASE RemMigrate(p)
    <2>1. pc[p] \in WithMap \cap Removing /\ "remSaveMap" \in WithMap \cap Removing
      BY <1>5 DEF RemMigrate, WithMap, Removing
    <2>2. shards' \in [Locs -> [Objects -> Shard]]
      BY <1>5, RepairTyped DEF RemMigrate
    <2> QED
      BY <1>1, <1>4, <1>5, <2>1, <2>2, MoveTyped DEF RemMigrate, MapStep
  <1>6. CASE RemSaveMap(p)
    <2>1. pc[p] \in WithMap \cap Removing /\ "remSaveCfg" \in WithMap \cap Removing
      BY <1>6 DEF RemSaveMap, WithMap, Removing
    <2>2. maps' \in [Locs -> ShardMap \cup {NoMap}]
      BY <1>4, <1>6, <2>1, PushTyped DEF RemSaveMap
    <2> QED
      BY <1>1, <1>4, <1>6, <2>1, <2>2, MoveTyped DEF RemSaveMap
  <1>7. CASE RemSaveCfg(p)
    <2>1. pc[p] \in WithMap \cap Removing
      BY <1>7 DEF RemSaveCfg, WithMap, Removing
    <2>2. cfg' \in Config
      BY <1>4, <1>7, <2>1, WithoutFacts DEF RemSaveCfg
    <2>3. Positions(cfg') \subseteq Nat
      BY DEF Positions
    <2>4. stored' \in [Objects -> SUBSET Nat]
      BY <1>7, <2>3 DEF RemSaveCfg
    <2> QED
      BY <1>7, <2>2, <2>4, FinishTyped DEF RemSaveCfg
  <1>8. CASE RemSaveCfgFails(p)
    <2>1. pc[p] \in WithMap \cap Removing /\ "remRollback" \in WithMap \cap Removing
      BY <1>8 DEF RemSaveCfgFails, WithMap, Removing
    <2> QED
      BY <1>1, <1>4, <1>8, <2>1, MoveTyped DEF RemSaveCfgFails
  <1>9. CASE RemRollback(p)
    <2>1. pc[p] \in WithMap \cap Removing
      BY <1>9 DEF RemRollback, WithMap, Removing
    <2>2. maps' \in [Locs -> ShardMap \cup {NoMap}]
      BY <1>4, <1>9, <2>1, PushTyped DEF RemRollback
    <2> QED
      BY <1>9, <2>2, FinishTyped DEF RemRollback
  <1> QED
    BY <1>2, <1>3, <1>5, <1>6, <1>7, <1>8, <1>9

LEMMA OthersTyped ==
  ASSUME TypeInv, NEW p \in Procs,
         \/ \E i \in 0..MaxBackends : RebuildLoad(p, i)
         \/ \E mode \in Modes : ConfigureLoad(p, mode)
         \/ Rebuild(p) \/ RemMigrateFails(p)
         \/ Stop(p) \/ StopInPush(p) \/ CrashBetweenWrites(p)
  PROVE  TypeInv'
  <1> USE DEF TypeInv, TypeOK
  <1>1. JobFits(pc[p], job[p]) /\ job[p] \in Job /\ pc[p] \in Label
    OBVIOUS
  <1>2. ASSUME NEW i \in 0..MaxBackends, RebuildLoad(p, i) PROVE TypeInv'
    <2>1. PICK c \in OnDisk : c # NoCfg /\ Move(p, "rebuild", [NoJob EXCEPT !.cfg = c, !.index = i])
      BY <1>2 DEF RebuildLoad
    <2> DEFINE j == [NoJob EXCEPT !.cfg = c, !.index = i]
    <2>2. c \in Config /\ c.key \in Keys /\ i \in Nat
      BY <2>1, OnDiskFacts
    <2>3. j \in Job /\ j.cfg = c
      BY <2>2, NoJobTyped DEF Job, NoJob
    <2>4. JobFits("rebuild", j) /\ "rebuild" \in Label
      BY <2>2, <2>3 DEF JobFits, WithMap, Removing, Label
    <2> QED
      BY <1>2, <2>1, <2>3, <2>4, MoveTyped DEF RebuildLoad
  <1>3. ASSUME NEW mode \in Modes, ConfigureLoad(p, mode) PROVE TypeInv'
    <2>1. PICK c \in OnDisk :
            c # NoCfg /\ Move(p, "saveCfg", [NoJob EXCEPT !.cfg = [c EXCEPT !.mode = mode]])
      BY <1>3 DEF ConfigureLoad
    <2> DEFINE new == [c EXCEPT !.mode = mode]
               j == [NoJob EXCEPT !.cfg = new]
    <2>2. c \in Config /\ c.key \in Keys /\ mode \in Mode
      BY <2>1, OnDiskFacts, RaidAssumption
    <2>3. new \in Config /\ new.key \in Keys
      BY <2>2 DEF Config
    <2> HIDE DEF new
    <2>4. j \in Job /\ j.cfg = new
      BY <2>3, NoJobTyped DEF Job, NoJob
    <2>5. JobFits("saveCfg", j) /\ "saveCfg" \in Label
      BY <2>3, <2>4 DEF JobFits, WithMap, Removing, Label
    <2> QED
      BY <1>3, <2>1, <2>4, <2>5, MoveTyped DEF ConfigureLoad, new
  <1>4. CASE Rebuild(p) \/ RemMigrateFails(p)
    <2>1. shards' \in [Locs -> [Objects -> Shard]]
      BY <1>4, RepairTyped DEF Rebuild, RemMigrateFails
    <2> QED
      BY <1>4, <2>1, FinishTyped DEF Rebuild, RemMigrateFails
  <1>5. CASE Stop(p)
    BY <1>5, FinishTyped DEF Stop
  <1>6. CASE StopInPush(p)
    <2>1. job[p].map \in ShardMap \cup {NoMap} /\ job[p].backup \in ShardMap \cup {NoMap}
      BY <1>1 DEF Job
    <2>2. maps' \in [Locs -> ShardMap \cup {NoMap}]
      BY <1>6, <2>1, PushTyped DEF StopInPush
    <2> QED
      BY <1>6, <2>2, FinishTyped DEF StopInPush
  <1>7. CASE CrashBetweenWrites(p)
    BY <1>7, FinishTyped DEF CrashBetweenWrites
  <1> QED
    BY <1>2, <1>3, <1>4, <1>5, <1>6, <1>7

\* The map an upload writes, and the positions it names.
UsedBy(c) ==
  IF c.mode.kind = "erasure" THEN {i \in Positions(c) : i < MinBackends(c.mode)}
                             ELSE Positions(c)
WithObject(m, o, used) ==
  [key |-> m.key, ver |-> m.ver + 1, refs |-> [m.refs EXCEPT ![o] = used]]

LEMMA WithObjectFacts ==
  ASSUME NEW m \in ShardMap, NEW o \in Objects, NEW used \in SUBSET Nat
  PROVE  /\ WithObject(m, o, used) \in ShardMap
         /\ WithObject(m, o, used).key = m.key
         /\ WithObject(m, o, used).ver = m.ver + 1
         /\ \A x \in Objects : WithObject(m, o, used).refs[x] =
                                  IF x = o THEN used ELSE m.refs[x]
  <1>1. m.refs \in [Objects -> SUBSET Nat] /\ m.ver \in Nat /\ m.key \in Keys \cup {Foreign}
    BY DEF ShardMap
  <1> DEFINE r == [m.refs EXCEPT ![o] = used]
  <1>2. r \in [Objects -> SUBSET Nat] /\ \A x \in Objects : r[x] = IF x = o THEN used ELSE m.refs[x]
    BY <1>1
  <1>3. WithObject(m, o, used) = [key |-> m.key, ver |-> m.ver + 1, refs |-> r]
    BY DEF WithObject
  <1> HIDE DEF r
  <1> QED
    BY <1>1, <1>2, <1>3 DEF ShardMap

LEMMA UploadFacts ==
  ASSUME TypeInv, NEW o \in Objects, Upload(o)
  PROVE  \E m \in Loadable(cfg) :
           /\ Quiet /\ cfg \in Config /\ cfg.key \in Keys /\ Formable(cfg)
           /\ m \in ShardMap /\ m.key = cfg.key
           /\ UsedBy(cfg) \subseteq Positions(cfg) /\ UsedBy(cfg) \subseteq Nat
           /\ Push(WithObject(m, o, UsedBy(cfg)), Members(cfg))
           /\ stored' = [stored EXCEPT ![o] = UsedBy(cfg)]
           /\ shards' \in [Locs -> [Objects -> Shard]]
           /\ UNCHANGED <<cfg, pc, job, torn>>
  <1>1. PICK c \in OnDisk : Upload(o)!3!(c)
    BY DEF Upload
  <1>2. c = cfg /\ cfg \in Config /\ cfg.key \in Keys /\ Formable(cfg)
    BY <1>1, OnDiskFacts DEF TypeInv, TypeOK
  <1>3. PICK m \in Loadable(cfg) :
           /\ Push(WithObject(m, o, UsedBy(cfg)), Members(cfg))
           /\ stored' = [stored EXCEPT ![o] = UsedBy(cfg)]
           /\ shards' = [l \in Locs |->
                IF \E i \in UsedBy(cfg) : l = At(cfg, i)
                THEN [shards[l] EXCEPT ![o] = "present"] ELSE shards[l]]
    BY <1>1, <1>2 DEF UsedBy, WithObject
  <1>4. m \in ShardMap /\ m.key = cfg.key
    BY <1>2, LoadableFacts DEF TypeInv, TypeOK
  <1>5. shards' \in [Locs -> [Objects -> Shard]]
    BY <1>3 DEF TypeInv, TypeOK, Shard
  <1>6. UsedBy(cfg) \subseteq Positions(cfg) /\ UsedBy(cfg) \subseteq Nat
    BY DEF UsedBy, Positions
  <1> QED
    BY <1>2, <1>3, <1>4, <1>5, <1>6 DEF Upload

LEMMA EnvironmentTyped ==
  ASSUME TypeInv, \/ \E o \in Objects : Upload(o)
                  \/ \E l \in Locs, o \in Objects : Damage(l, o)
  PROVE  TypeInv'
  <1>1. ASSUME NEW o \in Objects, Upload(o) PROVE TypeInv'
    <2>1. PICK m \in ShardMap :
            /\ UsedBy(cfg) \subseteq Nat
            /\ Push(WithObject(m, o, UsedBy(cfg)), Members(cfg))
            /\ stored' = [stored EXCEPT ![o] = UsedBy(cfg)]
            /\ shards' \in [Locs -> [Objects -> Shard]]
            /\ UNCHANGED <<cfg, pc, job, torn>>
      BY <1>1, UploadFacts
    <2>2. maps' \in [Locs -> ShardMap \cup {NoMap}]
      BY <2>1, WithObjectFacts, PushTyped
    <2>3. stored' \in [Objects -> SUBSET Nat]
      BY <2>1 DEF TypeInv, TypeOK
    <2> QED
      BY <2>1, <2>2, <2>3 DEF TypeInv, TypeOK
  <1>2. ASSUME NEW l \in Locs, NEW o \in Objects, Damage(l, o) PROVE TypeInv'
    <2>1. shards' \in [Locs -> [Objects -> Shard]]
      BY <1>2 DEF Damage, TypeInv, TypeOK, Shard
    <2> QED
      BY <1>2, <2>1 DEF Damage, TypeInv, TypeOK
  <1> QED
    BY <1>1, <1>2

LEMMA TypeStep == TypeInv /\ [Next]_vars => TypeInv'
  <1> SUFFICES ASSUME TypeInv, [Next]_vars PROVE TypeInv'
    OBVIOUS
  <1>1. CASE Next
    BY <1>1, AddTyped, RemoveTyped, OthersTyped, EnvironmentTyped DEF Next
  <1>2. CASE UNCHANGED vars
    BY <1>2 DEF vars, TypeInv, TypeOK
  <1> QED
    BY <1>1, <1>2

LEMMA TypeAlways == Spec => []TypeInv
  BY TypeInit, TypeStep, PTL DEF Spec

\* Every reachable state is well typed: no run of commands, whatever fails or
\* crashes, leaves a position or a version below zero or a map without a key
\* (raid.rs, the reindexing of remove-backend).
THEOREM TypeCorrect == Spec => []TypeOK
  <1>1. TypeInv => TypeOK
    BY DEF TypeInv
  <1> QED
    BY <1>1, TypeAlways, PTL

(***************************************************************************)
(* The key, when commands run one after another.  A command works under    *)
(* the key of raid.json, and only the command that creates raid.json runs  *)
(* without one; that command has a single member and writes no map.        *)
(***************************************************************************)
OneProcess == \E p : Procs = {p}

KeyHeld(p) ==
  pc[p] # "idle" => /\ cfg # NoCfg => cfg.key = job[p].cfg.key
                    /\ pc[p] # "saveCfg" => cfg # NoCfg

KeyInv == TypeInv /\ SealedByKeyOnDisk /\ \A p \in Procs : KeyHeld(p)

LEMMA KeyInit == Init => KeyInv
  <1> SUFFICES ASSUME Init PROVE KeyInv
    OBVIOUS
  <1>1. \A l \in Locs : maps[l] = NoMap \/ maps[l].key = Foreign
    BY DEF Init, EmptyMap
  <1>2. \A p \in Procs : KeyHeld(p)
    BY DEF Init, KeyHeld
  <1> QED
    BY <1>1, <1>2, TypeInit DEF KeyInv, SealedByKeyOnDisk

HIDE DEF Move

LEMMA MoveOne ==
  ASSUME OneProcess, TypeInv, NEW p \in Procs, NEW label, NEW j, Move(p, label, j)
  PROVE  \A q \in Procs : q = p /\ pc'[q] = label /\ job'[q] = j
  BY DEF OneProcess, TypeInv, TypeOK, Move

LEMMA MoveKeeps ==
  ASSUME OneProcess, TypeInv, NEW p \in Procs, NEW label, NEW j, Move(p, label, j),
         label # "idle" => /\ cfg' # NoCfg => cfg'.key = j.cfg.key
                           /\ label # "saveCfg" => cfg' # NoCfg
  PROVE  \A q \in Procs : KeyHeld(q)'
  <1>1. \A q \in Procs : q = p /\ pc'[q] = label /\ job'[q] = j
    BY MoveOne
  <1> QED
    BY <1>1 DEF KeyHeld

\* What a step of one command does to the key.
KeyKept == /\ cfg # NoCfg => cfg' # NoCfg /\ cfg'.key = cfg.key
           /\ cfg' = cfg \/ maps' = maps
           /\ SealedByKeyOnDisk'
           /\ \A p \in Procs : KeyHeld(p)'

LEMMA FinishKeeps ==
  ASSUME OneProcess, KeyInv, NEW p \in Procs, Finish(p)
  PROVE  \A q \in Procs : KeyHeld(q)'
  BY MoveKeeps DEF KeyInv

LEMMA SealedSame ==
  ASSUME KeyInv, UNCHANGED <<cfg, maps>>
  PROVE  SealedByKeyOnDisk'
  BY DEF KeyInv, SealedByKeyOnDisk

LEMMA PushSealed ==
  ASSUME KeyInv, cfg # NoCfg, NEW m, m.key = cfg.key, NEW W, Push(m, W), UNCHANGED cfg
  PROVE  SealedByKeyOnDisk'
  BY DEF KeyInv, SealedByKeyOnDisk, Push

LEMMA AddKeepsKey ==
  ASSUME OneProcess, KeyInv, NEW p \in Procs,
         \/ \E l \in Locs : AddLoad(p, l)
         \/ AddLoadMap(p) \/ AddSaveMap(p) \/ SaveCfg(p)
  PROVE  KeyKept
  <1>1. /\ TypeInv /\ KeyHeld(p) /\ JobFits(pc[p], job[p])
        /\ cfg \in Config \cup {NoCfg}
    BY DEF KeyInv, TypeInv, TypeOK
  <1>2. ASSUME NEW l \in Locs, AddLoad(p, l) PROVE KeyKept
    <2>1. PICK c \in OnDisk, k \in Keys :
             LET base == BaseConfig(c, k)
                 new  == [base EXCEPT !.backends = Append(@, l)]
             IN Move(p, IF Formable(new) THEN "addLoadMap" ELSE "saveCfg",
                     [NoJob EXCEPT !.cfg = new])
      BY <1>2 DEF AddLoad
    <2> DEFINE base == BaseConfig(c, k)
               new  == [base EXCEPT !.backends = Append(@, l)]
               next == IF Formable(new) THEN "addLoadMap" ELSE "saveCfg"
               j    == [NoJob EXCEPT !.cfg = new]
    <2>2. /\ c = cfg /\ base \in Config
          /\ cfg # NoCfg => base.key = cfg.key
          /\ cfg = NoCfg => base.backends = <<>>
      BY <1>1, OnDiskFacts, BaseConfigFacts
    <2>3. /\ new.key = base.key
          /\ Len(new.backends) = Len(base.backends) + 1
      BY <2>2, AppendFacts
    <2>4. cfg = NoCfg => next = "saveCfg"
      BY <2>2, <2>3 DEF Formable
    <2>5. Move(p, next, j)
      BY <2>1
    <2> HIDE DEF new, next
    <2>6. j.cfg = new
      BY DEF NoJob
    <2>7. UNCHANGED <<cfg, maps>>
      BY <1>2 DEF AddLoad
    <2>8. \A q \in Procs : KeyHeld(q)'
      <3>1. next # "saveCfg" => cfg' # NoCfg
        BY <2>4, <2>7
      <3>2. cfg' # NoCfg => cfg'.key = j.cfg.key
        BY <2>2, <2>3, <2>6, <2>7
      <3> HIDE DEF j
      <3> QED
        BY <1>1, <2>5, <3>1, <3>2, MoveKeeps
    <2> QED
      BY <2>7, <2>8, SealedSame DEF KeyKept
  <1>3. CASE AddLoadMap(p)
    <2>1. job[p] \in Job
      BY <1>1 DEF TypeInv, TypeOK
    <2>2. PICK next, j : Move(p, next, j) /\ j.cfg = job[p].cfg
      <3>1. ASSUME NEW m, Move(p, "addSaveMap", [job[p] EXCEPT !.map = m])
            PROVE  \E next, j : Move(p, next, j) /\ j.cfg = job[p].cfg
        <4>1. [job[p] EXCEPT !.map = m].cfg = job[p].cfg
          BY <2>1 DEF Job
        <4> QED
          BY <3>1, <4>1
      <3> QED
        BY <1>3, <3>1 DEF AddLoadMap
    <2>3. pc[p] = "addLoadMap" /\ UNCHANGED <<cfg, maps>>
      BY <1>3 DEF AddLoadMap
    <2>4. \A q \in Procs : KeyHeld(q)'
      BY <1>1, <2>2, <2>3, MoveKeeps DEF KeyHeld
    <2> QED
      BY <2>3, <2>4, SealedSame DEF KeyKept
  <1>4. CASE AddSaveMap(p)
    <2>1. pc[p] = "addSaveMap" /\ UNCHANGED cfg /\ Move(p, "saveCfg", job[p])
      BY <1>4 DEF AddSaveMap
    <2>2. cfg # NoCfg /\ job[p].map.key = cfg.key
      BY <1>1, <2>1 DEF KeyHeld, JobFits, WithMap
    <2>3. SealedByKeyOnDisk'
      BY <1>4, <2>1, <2>2, PushSealed DEF AddSaveMap
    <2>4. \A q \in Procs : KeyHeld(q)'
      BY <1>1, <2>1, <2>2, MoveKeeps DEF KeyHeld
    <2> QED
      BY <2>1, <2>3, <2>4 DEF KeyKept
  <1>5. CASE SaveCfg(p)
    <2>1. pc[p] = "saveCfg" /\ UNCHANGED maps /\ cfg' = job[p].cfg /\ Finish(p)
      BY <1>5 DEF SaveCfg
    <2>2. cfg' # NoCfg /\ (cfg # NoCfg => cfg'.key = cfg.key)
      <3>1. job[p].cfg \in Config
        BY <1>1, <2>1 DEF JobFits
      <3> QED
        BY <1>1, <2>1, <3>1, RaidAssumption DEF KeyHeld, Config
    <2>3. SealedByKeyOnDisk'
      BY <2>1, <2>2 DEF KeyInv, SealedByKeyOnDisk
    <2> QED
      BY <2>1, <2>2, <2>3, FinishKeeps DEF KeyKept
  <1> QED
    BY <1>2, <1>3, <1>4, <1>5

LEMMA RemoveKeepsKey ==
  ASSUME OneProcess, KeyInv, NEW p \in Procs,
         \/ \E i \in 0..MaxBackends : RemLoad(p, i)
         \/ RemLoadMap(p) \/ RemMigrate(p) \/ RemSaveMap(p)
         \/ RemSaveCfg(p) \/ RemSaveCfgFails(p) \/ RemRollback(p)
  PROVE  KeyKept
  <1>1. /\ TypeInv /\ KeyHeld(p) /\ JobFits(pc[p], job[p])
        /\ cfg \in Config \cup {NoCfg} /\ job[p] \in Job
    BY DEF KeyInv, TypeInv, TypeOK
  <1>2. ASSUME NEW next, NEW j, Move(p, next, j), j.cfg = job[p].cfg,
               pc[p] \in Removing, UNCHANGED cfg
        PROVE  \A q \in Procs : KeyHeld(q)'
    <2>1. cfg # NoCfg /\ cfg.key = j.cfg.key
      BY <1>1, <1>2 DEF KeyHeld, Removing
    <2> QED
      BY <1>1, <1>2, <2>1, MoveKeeps
  <1>3. ASSUME pc[p] \in WithMap \cap Removing
        PROVE  /\ cfg # NoCfg /\ cfg.key = job[p].cfg.key
               /\ job[p].map.key = cfg.key /\ job[p].backup.key = cfg.key
               /\ job[p].cfg \in Config /\ job[p].index \in Positions(job[p].cfg)
    BY <1>1, <1>3 DEF KeyHeld, JobFits, WithMap, Removing
  <1>4. ASSUME NEW i \in 0..MaxBackends, RemLoad(p, i) PROVE KeyKept
    <2>1. PICK c \in OnDisk :
            c # NoCfg /\ Move(p, "remLoadMap", [NoJob EXCEPT !.cfg = c, !.index = i])
      BY <1>4 DEF RemLoad
    <2> DEFINE j == [NoJob EXCEPT !.cfg = c, !.index = i]
    <2>2. c = cfg /\ j.cfg = c /\ UNCHANGED <<cfg, maps>>
      BY <1>1, <1>4, OnDiskFacts DEF NoJob, RemLoad
    <2>3. Move(p, "remLoadMap", j)
      BY <2>1
    <2> HIDE DEF j
    <2>4. \A q \in Procs : KeyHeld(q)'
      BY <1>1, <2>1, <2>2, <2>3, MoveKeeps
    <2> QED
      BY <2>2, <2>4, SealedSame DEF KeyKept
  <1>5. CASE RemLoadMap(p)
    <2>1. pc[p] \in Removing /\ UNCHANGED <<cfg, maps>>
      BY <1>5 DEF RemLoadMap, Removing
    <2>2. PICK next, m, n : Move(p, next, [job[p] EXCEPT !.map = m, !.backup = n])
      BY <1>5 DEF RemLoadMap
    <2> DEFINE j == [job[p] EXCEPT !.map = m, !.backup = n]
    <2>3. j.cfg = job[p].cfg
      BY <1>1 DEF Job
    <2>4. Move(p, next, j)
      BY <2>2
    <2> HIDE DEF j
    <2> QED
      BY <1>2, <2>1, <2>3, <2>4, SealedSame DEF KeyKept
  <1>6. CASE RemMigrate(p)
    <2>1. pc[p] \in Removing /\ UNCHANGED <<cfg, maps>> /\ Move(p, MapStep, job[p])
      BY <1>6 DEF RemMigrate, Removing
    <2> QED
      BY <1>2, <2>1, SealedSame DEF KeyKept
  <1>7. CASE RemSaveMap(p)
    <2>1. /\ pc[p] \in WithMap \cap Removing /\ UNCHANGED cfg
          /\ Move(p, "remSaveCfg", job[p]) /\ Push(job[p].map, Members(job[p].cfg))
      BY <1>7 DEF RemSaveMap, Removing, WithMap
    <2> QED
      BY <1>2, <1>3, <2>1, PushSealed DEF KeyKept
  <1>8. CASE RemSaveCfg(p)
    <2>1. /\ pc[p] \in WithMap \cap Removing /\ UNCHANGED maps
          /\ Finish(p) /\ cfg' = Without(job[p].cfg, job[p].index)
      BY <1>8 DEF RemSaveCfg, Removing, WithMap
    <2>2. cfg' \in Config /\ cfg'.key = cfg.key
      BY <1>3, <2>1, WithoutFacts
    <2>3. cfg' # NoCfg
      BY <2>2, RaidAssumption DEF Config
    <2>4. SealedByKeyOnDisk'
      BY <2>1, <2>2, <2>3 DEF KeyInv, SealedByKeyOnDisk
    <2> QED
      BY <2>1, <2>2, <2>3, <2>4, FinishKeeps DEF KeyKept
  <1>9. CASE RemSaveCfgFails(p)
    <2>1. pc[p] \in Removing /\ UNCHANGED <<cfg, maps>> /\ Move(p, "remRollback", job[p])
      BY <1>9 DEF RemSaveCfgFails, Removing
    <2> QED
      BY <1>2, <2>1, SealedSame DEF KeyKept
  <1>10. CASE RemRollback(p)
    <2>1. /\ pc[p] \in WithMap \cap Removing /\ UNCHANGED cfg
          /\ Finish(p) /\ Push(job[p].backup, Members(job[p].cfg))
      BY <1>10 DEF RemRollback, Removing, WithMap
    <2> QED
      BY <1>3, <2>1, FinishKeeps, PushSealed DEF KeyKept
  <1> QED
    BY <1>4, <1>5, <1>6, <1>7, <1>8, <1>9, <1>10

LEMMA OthersKeepKey ==
  ASSUME OneProcess, KeyInv, NEW p \in Procs,
         \/ \E i \in 0..MaxBackends : RebuildLoad(p, i)
         \/ \E mode \in Modes : ConfigureLoad(p, mode)
         \/ Rebuild(p) \/ RemMigrateFails(p)
         \/ Stop(p) \/ StopInPush(p) \/ CrashBetweenWrites(p)
  PROVE  KeyKept
  <1>1. /\ TypeInv /\ KeyHeld(p) /\ JobFits(pc[p], job[p])
        /\ cfg \in Config \cup {NoCfg}
    BY DEF KeyInv, TypeInv, TypeOK
  <1>2. ASSUME NEW i \in 0..MaxBackends, RebuildLoad(p, i) PROVE KeyKept
    <2>1. PICK c \in OnDisk : c # NoCfg /\ Move(p, "rebuild", [NoJob EXCEPT !.cfg = c, !.index = i])
      BY <1>2 DEF RebuildLoad
    <2> DEFINE j == [NoJob EXCEPT !.cfg = c, !.index = i]
    <2>2. c = cfg /\ j.cfg = c /\ UNCHANGED <<cfg, maps>>
      BY <1>1, <1>2, OnDiskFacts DEF NoJob, RebuildLoad
    <2>3. Move(p, "rebuild", j)
      BY <2>1
    <2> HIDE DEF j
    <2>4. \A q \in Procs : KeyHeld(q)'
      BY <1>1, <2>1, <2>2, <2>3, MoveKeeps
    <2> QED
      BY <2>2, <2>4, SealedSame DEF KeyKept
  <1>3. ASSUME NEW mode \in Modes, ConfigureLoad(p, mode) PROVE KeyKept
    <2>1. PICK c \in OnDisk :
            c # NoCfg /\ Move(p, "saveCfg", [NoJob EXCEPT !.cfg = [c EXCEPT !.mode = mode]])
      BY <1>3 DEF ConfigureLoad
    <2> DEFINE new == [c EXCEPT !.mode = mode]
               j == [NoJob EXCEPT !.cfg = new]
    <2>2. c = cfg /\ c \in Config /\ UNCHANGED <<cfg, maps>>
      BY <1>1, <1>3, <2>1, OnDiskFacts DEF ConfigureLoad
    <2>3. new.key = cfg.key /\ j.cfg = new
      BY <2>2 DEF Config, NoJob
    <2>4. Move(p, "saveCfg", j)
      BY <2>1
    <2> HIDE DEF j, new
    <2>5. \A q \in Procs : KeyHeld(q)'
      BY <1>1, <2>2, <2>3, <2>4, MoveKeeps
    <2> QED
      BY <2>2, <2>5, SealedSame DEF KeyKept
  <1>4. CASE Rebuild(p) \/ RemMigrateFails(p)
    <2>1. UNCHANGED <<cfg, maps>> /\ Finish(p)
      BY <1>4 DEF Rebuild, RemMigrateFails
    <2> QED
      BY <2>1, FinishKeeps, SealedSame DEF KeyKept
  <1>5. CASE Stop(p)
    <2>1. UNCHANGED <<cfg, maps>> /\ Finish(p)
      BY <1>5 DEF Stop
    <2> QED
      BY <2>1, FinishKeeps, SealedSame DEF KeyKept
  <1>6. CASE StopInPush(p)
    <2>1. pc[p] \in WithMap \cap Removing /\ UNCHANGED cfg /\ Finish(p)
      BY <1>6 DEF StopInPush, Removing, WithMap
    <2>2. cfg # NoCfg /\ job[p].map.key = cfg.key /\ job[p].backup.key = cfg.key
      BY <1>1, <2>1 DEF KeyHeld, JobFits, WithMap, Removing
    <2>3. SealedByKeyOnDisk'
      BY <1>6, <2>1, <2>2, PushSealed DEF StopInPush
    <2> QED
      BY <2>1, <2>3, FinishKeeps DEF KeyKept
  <1>7. CASE CrashBetweenWrites(p)
    <2>1. UNCHANGED <<cfg, maps>> /\ Finish(p)
      BY <1>7 DEF CrashBetweenWrites
    <2> QED
      BY <2>1, FinishKeeps, SealedSame DEF KeyKept
  <1> QED
    BY <1>2, <1>3, <1>4, <1>5, <1>6, <1>7

LEMMA EnvironmentKeepsKey ==
  ASSUME KeyInv, \/ \E o \in Objects : Upload(o)
                 \/ \E l \in Locs, o \in Objects : Damage(l, o)
  PROVE  KeyKept
  <1>1. TypeInv /\ \A p \in Procs : KeyHeld(p)
    BY DEF KeyInv
  <1>2. ASSUME NEW o \in Objects, Upload(o) PROVE KeyKept
    <2>1. PICK m \in Loadable(cfg) :
            /\ cfg \in Config /\ m \in ShardMap /\ m.key = cfg.key
            /\ UsedBy(cfg) \subseteq Nat
            /\ Push(WithObject(m, o, UsedBy(cfg)), Members(cfg))
            /\ UNCHANGED <<cfg, pc, job, torn>>
      BY <1>1, <1>2, UploadFacts
    <2>2. cfg # NoCfg
      BY <2>1, RaidAssumption DEF Config
    <2>3. WithObject(m, o, UsedBy(cfg)).key = cfg.key
      BY <2>1, WithObjectFacts
    <2>4. SealedByKeyOnDisk'
      BY <2>1, <2>2, <2>3, PushSealed
    <2>5. \A p \in Procs : KeyHeld(p)'
      BY <1>1, <2>1 DEF KeyHeld
    <2> QED
      BY <2>1, <2>4, <2>5 DEF KeyKept
  <1>3. ASSUME NEW l \in Locs, NEW o \in Objects, Damage(l, o) PROVE KeyKept
    <2>1. UNCHANGED <<cfg, maps, pc, job>>
      BY <1>3 DEF Damage
    <2>2. \A p \in Procs : KeyHeld(p)'
      BY <1>1, <2>1 DEF KeyHeld
    <2> QED
      BY <2>1, <2>2, SealedSame DEF KeyKept
  <1> QED
    BY <1>2, <1>3

LEMMA KeyStep ==
  ASSUME OneProcess, KeyInv, [Next]_vars
  PROVE  KeyKept /\ KeyInv'
  <1>1. KeyKept
    <2>1. CASE Next
      BY <2>1, AddKeepsKey, RemoveKeepsKey, OthersKeepKey, EnvironmentKeepsKey DEF Next
    <2>2. CASE UNCHANGED vars
      BY <2>2, SealedSame DEF vars, KeyInv, KeyKept, KeyHeld
    <2> QED
      BY <2>1, <2>2
  <1>2. TypeInv'
    BY TypeStep DEF KeyInv
  <1> QED
    BY <1>1, <1>2 DEF KeyInv, KeyKept

\* Commands run one after another never write a map under a key that is not in
\* raid.json, so no crash leaves a set whose maps nothing can verify.
THEOREM MapsAreSealedByTheKey ==
  ASSUME OneProcess PROVE Spec => []SealedByKeyOnDisk
  <1>1. KeyInv /\ [Next]_vars => KeyInv'
    BY KeyStep
  <1>2. KeyInv => SealedByKeyOnDisk
    BY DEF KeyInv
  <1> QED
    BY <1>1, <1>2, KeyInit, PTL DEF Spec

\* Commands run one after another never change or lose the key of raid.json,
\* under which every tag of the set was made (raid.rs, RaidConfig).
THEOREM TheKeyStays ==
  ASSUME OneProcess PROVE Spec => ConfigKeyStays
  <1>1. KeyInv /\ [Next]_vars => KeyInv'
    BY KeyStep
  <1>2. KeyInv /\ [Next]_vars => [cfg # NoCfg => cfg' # NoCfg /\ cfg'.key = cfg.key]_cfg
    BY KeyStep DEF KeyKept
  <1> QED
    BY <1>1, <1>2, KeyInit, PTL DEF Spec, ConfigKeyStays

(***************************************************************************)
(* Maps and configuration, when commands run one after another.            *)
(*                                                                         *)
(* A location that was taken out of the set keeps its last map, and comes  *)
(* back with it when it is added again.  That map does no harm because it  *)
(* is behind: some member has a higher version (Behind), so it is never    *)
(* the one that is loaded.  Every map that is not behind is good.  Between *)
(* the two writes of a removal the members are ahead of the configuration, *)
(* and Committing describes that state instead.                            *)
(*                                                                         *)
(* The operators take the configuration c, the maps M, and the history s   *)
(* (stored) and t (torn) as arguments, so that the lemmas can speak of the *)
(* state before and after a step.                                          *)
(***************************************************************************)
Maps == [Locs -> ShardMap \cup {NoMap}]
Fits(c, m) == \A o \in Objects : m.refs[o] \subseteq Positions(c)
Good(c, s, t, m) == Fits(c, m) /\ (t \/ \A o \in Objects : m.refs[o] = s[o])

Sealed(M) == {l \in Locs : M[l] # NoMap /\ M[l].key # Foreign}
SealedMembers(c, M) == Sealed(M) \cap Members(c)
Behind(c, M, v) == \E w \in SealedMembers(c, M) : M[w].ver > v
Reached(c, M, v) == v = 0 \/ \E w \in SealedMembers(c, M) : M[w].ver >= v

\* A good map no older than any under the set's key.
Newest(c, M, s, t, m) ==
  Good(c, s, t, m) /\ Reached(c, M, m.ver) /\ \A l \in Sealed(M) : M[l].ver <= m.ver

Settled(c, M, s, t) ==
  \A l \in Sealed(M) : /\ Good(c, s, t, M[l]) \/ Behind(c, M, M[l].ver)
                       /\ Reached(c, M, M[l].ver)

\* A map that verifies under a key of a set.
Own(m) == m \in ShardMap /\ m.key # Foreign

LEMMA MembersFacts ==
  ASSUME NEW c \in Config
  PROVE  /\ Members(c) \subseteq Locs
         /\ Len(c.backends) >= 1 => Members(c) # {}
         /\ Len(c.backends) \in Nat
  BY DEF Members, Config

LEMMA SealedFacts ==
  ASSUME NEW M \in Maps, NEW l \in Sealed(M)
  PROVE  l \in Locs /\ M[l] \in ShardMap /\ M[l].ver \in Nat /\ Own(M[l])
  BY DEF Sealed, Maps, ShardMap, Own

LEMMA OwnIsSealed ==
  ASSUME NEW M \in Maps, NEW l \in Locs, Own(M[l])
  PROVE  l \in Sealed(M)
  BY RaidAssumption DEF Sealed, Own, ShardMap

\* Adding members or changing the mode keeps what was good.
LEMMA GrowSettled ==
  ASSUME NEW c \in Config, NEW d \in Config, NEW M \in Maps, NEW s, NEW t,
         Members(c) \subseteq Members(d), Len(c.backends) <= Len(d.backends),
         Settled(c, M, s, t)
  PROVE  /\ Settled(d, M, s, t)
         /\ SealedMembers(c, M) \subseteq SealedMembers(d, M)
  <1>1. Positions(c) \subseteq Positions(d)
    BY MembersFacts DEF Positions
  <1>2. SealedMembers(c, M) \subseteq SealedMembers(d, M)
    BY DEF SealedMembers
  <1>3. \A m : Good(c, s, t, m) => Good(d, s, t, m)
    BY <1>1 DEF Good, Fits
  <1>4. \A v : (Behind(c, M, v) => Behind(d, M, v)) /\ (Reached(c, M, v) => Reached(d, M, v))
    BY <1>2 DEF Behind, Reached
  <1> QED
    BY <1>2, <1>3, <1>4 DEF Settled

\* What is loaded while no removal is between its writes is the newest map.
LEMMA LoadNewest ==
  ASSUME NEW c \in Config, NEW d \in Config, maps \in Maps, NEW s, NEW t,
         Members(c) \subseteq Members(d), d.key = c.key,
         Settled(c, maps, s, t),
         \A l \in Sealed(maps) : maps[l].key = c.key,
         (\E o \in Objects : s[o] # {}) => SealedMembers(c, maps) # {},
         NEW m \in Loadable(d)
  PROVE  Newest(c, maps, s, t, m)
  <1>0. c.key # Foreign
    BY RaidAssumption DEF Config
  <1>1. ASSUME NEW l \in SealedMembers(c, maps) PROVE maps[l] \in Verified(d)
    BY DEF SealedMembers, Sealed, Verified
  <1>2. CASE Verified(d) # {}
    <2>1. m \in Verified(d) /\ \A n \in Verified(d) : n.ver <= m.ver
      BY <1>2 DEF Loadable
    <2>2. PICK l \in Members(d) : m = maps[l] /\ m # NoMap /\ m.key = d.key
      BY <2>1 DEF Verified
    <2>3. l \in Sealed(maps) /\ m.ver \in Nat
      <3>1. l \in Locs
        BY MembersFacts
      <3> QED
        BY <1>0, <2>2, <3>1, SealedFacts DEF Sealed
    <2>4. ~Behind(c, maps, m.ver)
      <3> SUFFICES ASSUME NEW w \in SealedMembers(c, maps), maps[w].ver > m.ver
                   PROVE  FALSE
        BY DEF Behind
      <3>1. maps[w].ver <= m.ver
        BY <1>1, <2>1
      <3>2. maps[w].ver \in Nat
        BY SealedFacts DEF SealedMembers
      <3> QED
        BY <2>3, <3>1, <3>2
    <2>5. Good(c, s, t, m) /\ Reached(c, maps, m.ver)
      BY <2>2, <2>3, <2>4 DEF Settled
    <2>6. ASSUME NEW x \in Sealed(maps) PROVE maps[x].ver <= m.ver
      <3>1. maps[x].ver \in Nat /\ Reached(c, maps, maps[x].ver)
        BY SealedFacts DEF Settled
      <3>2. CASE maps[x].ver = 0
        BY <2>3, <3>2
      <3>3. ASSUME NEW w \in SealedMembers(c, maps), maps[w].ver >= maps[x].ver
            PROVE  maps[x].ver <= m.ver
        <4>1. maps[w].ver <= m.ver
          BY <1>1, <2>1
        <4>2. maps[w].ver \in Nat
          BY SealedFacts DEF SealedMembers
        <4> QED
          BY <2>3, <3>1, <3>3, <4>1, <4>2
      <3> QED
        BY <3>1, <3>2, <3>3 DEF Reached
    <2> QED
      BY <2>5, <2>6 DEF Newest
  <1>3. CASE Verified(d) = {}
    <2>1. m = EmptyMap(d.key)
      BY <1>3 DEF Loadable
    <2>2. m.ver = 0 /\ \A o \in Objects : m.refs[o] = {}
      BY <2>1 DEF EmptyMap
    <2>3. SealedMembers(c, maps) = {}
      BY <1>1, <1>3
    <2>4. \A o \in Objects : s[o] = {}
      BY <2>3
    <2>5. \A x \in Sealed(maps) : maps[x].ver = 0
      BY <2>3 DEF Settled, Reached
    <2>6. Fits(c, m) /\ \A o \in Objects : m.refs[o] = s[o]
      BY <2>2, <2>4 DEF Fits
    <2>7. \A x \in Sealed(maps) : maps[x].ver <= m.ver
      BY <2>2, <2>5
    <2> QED
      BY <2>2, <2>6, <2>7, Zenon DEF Newest, Good, Reached
  <1> QED
    BY <1>2, <1>3

\* What is true of versions stays true when no version under the key drops.
LEMMA Rising ==
  ASSUME NEW c, NEW M \in Maps, NEW N \in Maps,
         \A l \in Sealed(M) : l \in Sealed(N) /\ N[l].ver >= M[l].ver
  PROVE  /\ SealedMembers(c, M) \subseteq SealedMembers(c, N)
         /\ \A v \in Nat : (Behind(c, M, v) => Behind(c, N, v))
                          /\ (Reached(c, M, v) => Reached(c, N, v))
  <1>1. SealedMembers(c, M) \subseteq SealedMembers(c, N)
    BY DEF SealedMembers
  <1>2. ASSUME NEW v \in Nat, NEW w \in SealedMembers(c, M)
        PROVE  /\ w \in SealedMembers(c, N)
               /\ M[w].ver > v => N[w].ver > v
               /\ M[w].ver >= v => N[w].ver >= v
    <2>1. w \in Sealed(M) /\ w \in Sealed(N) /\ w \in SealedMembers(c, N)
      BY <1>1 DEF SealedMembers
    <2>2. M[w].ver \in Nat /\ N[w].ver \in Nat /\ N[w].ver >= M[w].ver
      BY <2>1, SealedFacts
    <2> QED
      BY <1>2, <2>1, <2>2
  <1> QED
    BY <1>1, <1>2 DEF Behind, Reached

\* A good map as new as any is pushed: what was in order stays so.
LEMMA PushNewest ==
  ASSUME NEW c, NEW M \in Maps, NEW s, NEW t,
         Settled(c, M, s, t),
         NEW m, Own(m), Newest(c, M, s, t, m),
         NEW N \in Maps, \A l \in Locs : N[l] = m \/ N[l] = M[l]
  PROVE  /\ Settled(c, N, s, t)
         /\ SealedMembers(c, M) \subseteq SealedMembers(c, N)
  <1>1. m.ver \in Nat
    BY DEF Own, ShardMap
  <1>2. \A l \in Locs : N[l] = m \/ N[l] = M[l]
    OBVIOUS
  <1>3. ASSUME NEW l \in Sealed(M) PROVE l \in Sealed(N) /\ N[l].ver >= M[l].ver
    <2>1. l \in Locs /\ M[l].ver \in Nat /\ Own(M[l]) /\ M[l].ver <= m.ver
      BY SealedFacts DEF Newest
    <2> QED
      BY <1>1, <1>2, <2>1, OwnIsSealed
  <1>4. SealedMembers(c, M) \subseteq SealedMembers(c, N)
    BY <1>3, Rising
  <1>5. \A v \in Nat : (Behind(c, M, v) => Behind(c, N, v))
                       /\ (Reached(c, M, v) => Reached(c, N, v))
    BY <1>3, Rising
  <1>6. ASSUME NEW l \in Sealed(N)
        PROVE  /\ Good(c, s, t, N[l]) \/ Behind(c, N, N[l].ver)
               /\ Reached(c, N, N[l].ver)
    <2>1. CASE N[l] = m
      <3>2. Good(c, s, t, m) /\ Reached(c, M, m.ver)
        BY DEF Newest
      <3>3. Reached(c, N, m.ver)
        BY <1>1, <1>5, <3>2
      <3> QED
        BY <2>1, <3>2, <3>3
    <2>2. CASE N[l] = M[l]
      <3>1. l \in Sealed(M)
        BY <2>2 DEF Sealed
      <3>2. M[l].ver \in Nat
        BY <3>1, SealedFacts
      <3>3. /\ Good(c, s, t, M[l]) \/ Behind(c, M, M[l].ver)
            /\ Reached(c, M, M[l].ver)
        BY <3>1 DEF Settled
      <3>4. /\ Good(c, s, t, M[l]) \/ Behind(c, N, M[l].ver)
            /\ Reached(c, N, M[l].ver)
        BY <1>5, <3>2, <3>3
      <3> QED
        BY <2>2, <3>4
    <2> QED
      BY <1>2, <2>1, <2>2 DEF Sealed
  <1> QED
    BY <1>4, <1>6 DEF Settled

\* Every member holds one good map, and the other locations older or good ones.
LEMMA AllHold ==
  ASSUME NEW c \in Config, NEW N \in Maps, NEW s, NEW t, Members(c) # {},
         NEW m, Own(m), Good(c, s, t, m),
         \A l \in Members(c) : N[l] = m,
         \A l \in Sealed(N) \ Members(c) :
           N[l].ver <= m.ver /\ (Good(c, s, t, N[l]) \/ N[l].ver < m.ver)
  PROVE  Settled(c, N, s, t) /\ SealedMembers(c, N) # {}
  <1>1. m.ver \in Nat
    BY DEF Own, ShardMap
  <1>2. PICK w \in Members(c) : w \in SealedMembers(c, N) /\ N[w] = m
    BY MembersFacts, OwnIsSealed DEF SealedMembers
  <1>3. ASSUME NEW l \in Sealed(N)
        PROVE  /\ Good(c, s, t, N[l]) \/ Behind(c, N, N[l].ver)
               /\ Reached(c, N, N[l].ver)
    <2>1. CASE l \in Members(c)
      <3>1. l \in SealedMembers(c, N) /\ N[l] = m /\ N[l].ver >= N[l].ver
        BY <1>1, <2>1 DEF SealedMembers
      <3> QED
        BY <3>1 DEF Reached
    <2>2. CASE l \notin Members(c)
      <3>1. N[l].ver \in Nat
        BY SealedFacts
      <3>2. N[w].ver >= N[l].ver /\ (Good(c, s, t, N[l]) \/ N[w].ver > N[l].ver)
        BY <1>1, <1>2, <2>2, <3>1
      <3> QED
        BY <1>2, <3>2 DEF Behind, Reached
    <2> QED
      BY <2>1, <2>2
  <1> QED
    BY <1>2, <1>3 DEF Settled

Above(M, m) == \A l \in Sealed(M) : M[l].ver < m.ver

\* A push takes no member's map away.
LEMMA PushKeepsSealed ==
  ASSUME NEW c, NEW M \in Maps, NEW N \in Maps, NEW m, Own(m),
         \A l \in Locs : N[l] = m \/ N[l] = M[l]
  PROVE  SealedMembers(c, M) \subseteq SealedMembers(c, N)
  <1> SUFFICES ASSUME NEW l \in SealedMembers(c, M) PROVE l \in SealedMembers(c, N)
    OBVIOUS
  <1>1. l \in Sealed(M) /\ l \in Locs /\ l \in Members(c) /\ Own(M[l])
    BY SealedFacts DEF SealedMembers
  <1> QED
    BY <1>1, OwnIsSealed DEF SealedMembers

\* A removal is cut off when some members have its map.
LEMMA PushTorn ==
  ASSUME NEW c \in Config, NEW M \in Maps, NEW s, NEW t, Settled(c, M, s, t),
         NEW m, Own(m), Fits(c, m), Above(M, m),
         NEW N \in Maps,
         \A l \in Locs : (l \in Members(c) /\ N[l] = m) \/ N[l] = M[l]
  PROVE  Settled(c, N, s, TRUE)
  <1>1. m.ver \in Nat
    BY DEF Own, ShardMap
  <1>2. \A l \in Locs : (l \in Members(c) /\ N[l] = m) \/ N[l] = M[l]
    OBVIOUS
  <1>3. ASSUME NEW l \in Sealed(M) PROVE l \in Sealed(N) /\ N[l].ver >= M[l].ver
    <2>1. l \in Locs /\ M[l].ver \in Nat /\ Own(M[l]) /\ M[l].ver < m.ver
      BY SealedFacts DEF Above
    <2> QED
      BY <1>1, <1>2, <2>1, OwnIsSealed
  <1>4. SealedMembers(c, M) \subseteq SealedMembers(c, N)
    BY <1>3, Rising
  <1>5. \A v \in Nat : (Behind(c, M, v) => Behind(c, N, v))
                       /\ (Reached(c, M, v) => Reached(c, N, v))
    BY <1>3, Rising
  <1>6. ASSUME NEW l \in Sealed(N)
        PROVE  /\ Good(c, s, TRUE, N[l]) \/ Behind(c, N, N[l].ver)
               /\ Reached(c, N, N[l].ver)
    <2>1. CASE l \in Members(c) /\ N[l] = m
      <3>1. l \in SealedMembers(c, N) /\ N[l].ver >= N[l].ver
        BY <1>1, <2>1 DEF Sealed, SealedMembers
      <3> QED
        BY <2>1, <3>1 DEF Reached, Good
    <2>2. CASE N[l] = M[l]
      <3>1. l \in Sealed(M)
        BY <2>2 DEF Sealed
      <3>2. M[l].ver \in Nat
        BY <3>1, SealedFacts
      <3>3. /\ Good(c, s, TRUE, M[l]) \/ Behind(c, M, M[l].ver)
            /\ Reached(c, M, M[l].ver)
        BY <3>1 DEF Settled, Good
      <3>4. /\ Good(c, s, TRUE, M[l]) \/ Behind(c, N, M[l].ver)
            /\ Reached(c, N, M[l].ver)
        BY <1>5, <3>2, <3>3
      <3> QED
        BY <2>2, <3>4
    <2> QED
      BY <1>2, <2>1, <2>2 DEF Sealed
  <1> QED
    BY <1>6 DEF Settled

\* A removal is cut off after every member took its map: the members hold that
\* map or the one before it.
LEMMA HoldTorn ==
  ASSUME NEW c \in Config, NEW N \in Maps, NEW s, Members(c) # {}, NEW v \in Nat,
         \A l \in Members(c) : Own(N[l]) /\ Fits(c, N[l]) /\ N[l].ver >= v,
         \A l \in Sealed(N) \ Members(c) : N[l].ver <= v /\ (Fits(c, N[l]) \/ N[l].ver < v)
  PROVE  Settled(c, N, s, TRUE) /\ SealedMembers(c, N) # {}
  <1>1. PICK w \in Members(c) : w \in SealedMembers(c, N) /\ N[w].ver >= v /\ N[w].ver \in Nat
    BY MembersFacts, OwnIsSealed, SealedFacts DEF SealedMembers
  <1>2. ASSUME NEW l \in Sealed(N)
        PROVE  /\ Good(c, s, TRUE, N[l]) \/ Behind(c, N, N[l].ver)
               /\ Reached(c, N, N[l].ver)
    <2>0. N[l].ver \in Nat
      BY SealedFacts
    <2>1. CASE l \in Members(c)
      <3>1. l \in SealedMembers(c, N) /\ N[l].ver >= N[l].ver
        BY <2>0, <2>1 DEF SealedMembers
      <3> QED
        BY <2>1, <3>1 DEF Reached, Good
    <2>2. CASE l \notin Members(c)
      <3>1. N[w].ver >= N[l].ver /\ (Fits(c, N[l]) \/ N[w].ver > N[l].ver)
        BY <1>1, <2>0, <2>2
      <3> QED
        BY <1>1, <3>1 DEF Behind, Reached, Good
    <2> QED
      BY <2>1, <2>2
  <1> QED
    BY <1>1, <1>2 DEF Settled

\* The new map fits the configuration before and after the removal, and names
\* what the old one named.
LEMMA ReindexedFits ==
  ASSUME NEW c \in Config, NEW i \in Positions(c), NEW m \in ShardMap, Fits(c, m)
  PROVE  /\ Fits(c, Reindexed(m, i)) /\ Fits(Without(c, i), Reindexed(m, i))
         /\ \A o \in Objects : Reindexed(m, i).refs[o] =
              {j \in Positions(Without(c, i)) : (IF j < i THEN j ELSE j + 1) \in m.refs[o]}
  <1> DEFINE n == Len(c.backends)
  <1>1. n \in Nat /\ Len(Without(c, i).backends) = n - 1 /\ i \in 0..(n - 1) /\ i \in Nat
    BY MembersFacts, WithoutFacts DEF Positions
  <1>2. Positions(c) = 0..(n - 1) /\ Positions(Without(c, i)) = 0..(n - 2)
    BY <1>1 DEF Positions
  <1> HIDE DEF n
  <1>3. ASSUME NEW o \in Objects
        PROVE  /\ Reindexed(m, i).refs[o] \subseteq 0..(n - 2)
               /\ Reindexed(m, i).refs[o] =
                    {j \in 0..(n - 2) : (IF j < i THEN j ELSE j + 1) \in m.refs[o]}
    <2>1. m.refs[o] \in SUBSET (0..(n - 1))
      BY <1>2 DEF Fits
    <2>2. Reindexed(m, i).refs[o] = Shift(i, m.refs[o])
      BY <1>1, ReindexedFacts
    <2> QED
      BY <1>1, <2>1, <2>2, ShiftFollowsWithout
  <1>4. 0..(n - 2) \subseteq 0..(n - 1)
    BY <1>1
  <1> QED
    BY <1>2, <1>3, <1>4 DEF Fits

(***************************************************************************)
(* The invariant: what a command at each label knows of the state.         *)
(***************************************************************************)
Between == {"remSaveCfg", "remRollback"}

StoredHasMap(c, M, s) ==
  (\E o \in Objects : s[o] # {}) => c # NoCfg /\ SealedMembers(c, M) # {}

Adding(label, j, c) ==
  label \in {"addLoadMap", "addSaveMap", "saveCfg"} /\ c # NoCfg =>
    Members(c) \subseteq Members(j.cfg) /\ Len(c.backends) <= Len(j.cfg.backends)

Removal(label, j, c) ==
  /\ label \in Removing => j.cfg = c /\ Len(c.backends) >= 2
  /\ label \in WithMap \cap Removing => j.map = Reindexed(j.backup, j.index)

Committing(j, c, M, s, t) ==
  /\ Good(c, s, t, j.backup)
  /\ \A l \in Members(c) : M[l] = j.map
  /\ \A l \in Sealed(M) \ Members(c) :
       /\ M[l].ver <= j.backup.ver
       /\ Good(c, s, t, M[l]) \/ M[l].ver < j.backup.ver

Phase(label, j, c, M, s, t) ==
  /\ Adding(label, j, c)
  /\ Removal(label, j, c)
  /\ label = "addSaveMap" => Newest(c, M, s, t, j.map)
  /\ label \in {"remMigrate", "remSaveMap"} => Newest(c, M, s, t, j.backup)
  /\ IF label \in Between THEN Committing(j, c, M, s, t) ELSE Settled(c, M, s, t)

PoolInv ==
  /\ StoredHasMap(cfg, maps, stored)
  /\ \A p \in Procs : Phase(pc[p], job[p], cfg, maps, stored, torn)

LEMMA IdlePhase ==
  ASSUME NEW j, NEW c, NEW M, NEW s, NEW t, Settled(c, M, s, t)
  PROVE  Phase("idle", j, c, M, s, t)
  BY DEF Phase, Adding, Removal, Between, Removing, WithMap

LEMMA PoolInit == Init => PoolInv
  <1> SUFFICES ASSUME Init PROVE PoolInv
    OBVIOUS
  <1>1. Sealed(maps) = {} /\ \A o \in Objects : stored[o] = {}
    BY DEF Init, EmptyMap, Sealed
  <1>2. \A p \in Procs : pc[p] = "idle"
    BY DEF Init
  <1> QED
    BY <1>1, <1>2, IdlePhase DEF PoolInv, StoredHasMap, Settled

LEMMA MovePool ==
  ASSUME OneProcess, TypeInv, NEW p \in Procs, NEW label, NEW j, Move(p, label, j),
         Phase(label, j, cfg', maps', stored', torn'),
         StoredHasMap(cfg', maps', stored')
  PROVE  PoolInv'
  BY MoveOne DEF PoolInv

LEMMA FinishPool ==
  ASSUME OneProcess, TypeInv, NEW p \in Procs, Finish(p),
         Settled(cfg', maps', stored', torn'), StoredHasMap(cfg', maps', stored')
  PROVE  PoolInv'
  BY IdlePhase, MovePool

\* What the lemmas below use of the invariants at a process.
LEMMA PoolContext ==
  ASSUME KeyInv, PoolInv, NEW p \in Procs
  PROVE  /\ TypeInv /\ maps \in Maps /\ cfg \in Config \cup {NoCfg} /\ job[p] \in Job
         /\ KeyHeld(p) /\ JobFits(pc[p], job[p])
         /\ Phase(pc[p], job[p], cfg, maps, stored, torn)
         /\ StoredHasMap(cfg, maps, stored)
         /\ \A l \in Sealed(maps) : cfg # NoCfg /\ maps[l].key = cfg.key
  BY DEF KeyInv, TypeInv, TypeOK, PoolInv, Maps, SealedByKeyOnDisk, Sealed

LEMMA AddKeepsPool ==
  ASSUME OneProcess, KeyInv, PoolInv, NEW p \in Procs,
         \/ \E l \in Locs : AddLoad(p, l)
         \/ AddLoadMap(p) \/ AddSaveMap(p) \/ SaveCfg(p)
  PROVE  PoolInv'
  <1>1. /\ TypeInv /\ maps \in Maps /\ cfg \in Config \cup {NoCfg} /\ job[p] \in Job
        /\ KeyHeld(p) /\ JobFits(pc[p], job[p])
        /\ Phase(pc[p], job[p], cfg, maps, stored, torn)
        /\ StoredHasMap(cfg, maps, stored)
        /\ \A l \in Sealed(maps) : cfg # NoCfg /\ maps[l].key = cfg.key
    BY PoolContext
  <1>2. ASSUME NEW l \in Locs, AddLoad(p, l) PROVE PoolInv'
    <2>1. PICK c \in OnDisk, k \in Keys :
             LET base == BaseConfig(c, k)
                 new  == [base EXCEPT !.backends = Append(@, l)]
             IN Move(p, IF Formable(new) THEN "addLoadMap" ELSE "saveCfg",
                     [NoJob EXCEPT !.cfg = new])
      BY <1>2 DEF AddLoad
    <2> DEFINE base == BaseConfig(c, k)
               new  == [base EXCEPT !.backends = Append(@, l)]
               next == IF Formable(new) THEN "addLoadMap" ELSE "saveCfg"
               j    == [NoJob EXCEPT !.cfg = new]
    <2>2. /\ c = cfg /\ base \in Config
          /\ cfg # NoCfg => base = cfg
      BY <1>1, OnDiskFacts, BaseConfigFacts
    <2>3. Len(new.backends) = Len(base.backends) + 1 /\ Members(new) = Members(base) \cup {l}
      BY <2>2, AppendFacts
    <2>4. next \in {"addLoadMap", "saveCfg"} /\ Move(p, next, j)
      BY <2>1
    <2>5. UNCHANGED <<cfg, maps, stored, torn>> /\ pc[p] = "idle"
      BY <1>2 DEF AddLoad
    <2> HIDE DEF new, next
    <2>6. j.cfg = new
      BY DEF NoJob
    <2> HIDE DEF j, base
    <2>7. Settled(cfg, maps, stored, torn)
      BY <1>1, <2>5 DEF Phase, Between
    <2>8. Adding(next, j, cfg)
      BY <2>2, <2>3, <2>6, MembersFacts DEF Adding
    <2>9. Phase(next, j, cfg, maps, stored, torn)
      BY <2>4, <2>7, <2>8 DEF Phase, Between, Removal, Removing, WithMap
    <2> QED
      BY <1>1, <2>4, <2>5, <2>9, MovePool
  <1>3. CASE AddLoadMap(p)
    <2>1. pc[p] = "addLoadMap" /\ UNCHANGED <<cfg, maps, stored, torn>>
      BY <1>3 DEF AddLoadMap
    <2>2. /\ cfg \in Config /\ job[p].cfg \in Config /\ job[p].cfg.key = cfg.key
          /\ Members(cfg) \subseteq Members(job[p].cfg)
          /\ Len(cfg.backends) <= Len(job[p].cfg.backends)
          /\ Settled(cfg, maps, stored, torn)
      BY <1>1, <2>1 DEF KeyHeld, JobFits, Phase, Adding, Between
    <2>3. ASSUME NEW m \in Loadable(job[p].cfg), Move(p, "addSaveMap", [job[p] EXCEPT !.map = m])
          PROVE  PoolInv'
      <3> DEFINE j == [job[p] EXCEPT !.map = m]
      <3>1. j.cfg = job[p].cfg /\ j.map = m /\ Move(p, "addSaveMap", j)
        BY <1>1, <2>3 DEF Job
      <3> HIDE DEF j
      <3>2. Newest(cfg, maps, stored, torn, m)
        BY <1>1, <2>2, LoadNewest DEF StoredHasMap
      <3>3. Phase("addSaveMap", j, cfg, maps, stored, torn)
        BY <2>2, <3>1, <3>2 DEF Phase, Adding, Between, Removal, Removing
      <3> QED
        BY <1>1, <2>1, <3>1, <3>3, MovePool
    <2>4. CASE Move(p, "saveCfg", job[p])
      <3>1. Phase("saveCfg", job[p], cfg, maps, stored, torn)
        BY <2>2 DEF Phase, Adding, Between, Removal, Removing
      <3> QED
        BY <1>1, <2>1, <2>4, <3>1, MovePool
    <2> QED
      BY <1>3, <2>3, <2>4 DEF AddLoadMap
  <1>4. CASE AddSaveMap(p)
    <2>1. /\ pc[p] = "addSaveMap" /\ UNCHANGED <<cfg, stored, torn>>
          /\ Move(p, "saveCfg", job[p])
      BY <1>4 DEF AddSaveMap
    <2>2. PICK W : Push(job[p].map, W)
      BY <1>4 DEF AddSaveMap
    <2>3. /\ Own(job[p].map) /\ Newest(cfg, maps, stored, torn, job[p].map)
          /\ Settled(cfg, maps, stored, torn) /\ Adding("saveCfg", job[p], cfg)
      BY <1>1, <2>1, RaidAssumption DEF JobFits, WithMap, Phase, Between, Own, Adding
    <2>4. maps' \in Maps /\ \A l \in Locs : maps'[l] = job[p].map \/ maps'[l] = maps[l]
      BY <1>1, <2>2, <2>3, PushTyped DEF Push, Own, Maps
    <2>5. /\ Settled(cfg, maps', stored, torn)
          /\ SealedMembers(cfg, maps) \subseteq SealedMembers(cfg, maps')
      BY <1>1, <2>3, <2>4, PushNewest
    <2>6. Phase("saveCfg", job[p], cfg, maps', stored, torn)
      BY <2>3, <2>5 DEF Phase, Between, Removal, Removing
    <2>7. StoredHasMap(cfg, maps', stored)
      BY <1>1, <2>5 DEF StoredHasMap
    <2> QED
      BY <1>1, <2>1, <2>6, <2>7, MovePool
  <1>5. CASE SaveCfg(p)
    <2>1. /\ pc[p] = "saveCfg" /\ UNCHANGED <<maps, stored, torn>>
          /\ cfg' = job[p].cfg /\ Finish(p)
      BY <1>5 DEF SaveCfg
    <2>2. /\ cfg' \in Config /\ Settled(cfg, maps, stored, torn)
          /\ cfg' # NoCfg
      BY <1>1, <2>1, RaidAssumption DEF JobFits, Phase, Between, Config
    <2>3. CASE cfg # NoCfg
      <3>1. Members(cfg) \subseteq Members(cfg') /\ Len(cfg.backends) <= Len(cfg'.backends)
        BY <1>1, <2>1, <2>3 DEF Phase, Adding
      <3>2. /\ Settled(cfg', maps, stored, torn)
            /\ SealedMembers(cfg, maps) \subseteq SealedMembers(cfg', maps)
        BY <1>1, <2>2, <2>3, <3>1, GrowSettled
      <3>3. StoredHasMap(cfg', maps, stored)
        BY <1>1, <2>2, <3>2 DEF StoredHasMap
      <3> QED
        BY <1>1, <2>1, <3>2, <3>3, FinishPool
    <2>4. CASE cfg = NoCfg
      <3>1. Settled(cfg', maps, stored, torn)
        BY <1>1, <2>4 DEF Settled
      <3>2. StoredHasMap(cfg', maps, stored)
        BY <1>1, <2>4 DEF StoredHasMap
      <3> QED
        BY <1>1, <2>1, <3>1, <3>2, FinishPool
    <2> QED
      BY <2>3, <2>4
  <1> QED
    BY <1>2, <1>3, <1>4, <1>5

LEMMA RemoveKeepsPool ==
  ASSUME OneProcess, KeyInv, PoolInv, NEW p \in Procs,
         \/ \E i \in 0..MaxBackends : RemLoad(p, i)
         \/ RemLoadMap(p) \/ RemMigrate(p) \/ RemSaveMap(p)
  PROVE  PoolInv'
  <1>1. /\ TypeInv /\ maps \in Maps /\ cfg \in Config \cup {NoCfg} /\ job[p] \in Job
        /\ KeyHeld(p) /\ JobFits(pc[p], job[p])
        /\ Phase(pc[p], job[p], cfg, maps, stored, torn)
        /\ StoredHasMap(cfg, maps, stored)
        /\ \A l \in Sealed(maps) : cfg # NoCfg /\ maps[l].key = cfg.key
    BY PoolContext
  <1>2. ASSUME pc[p] \in Removing
        PROVE  /\ job[p].cfg = cfg /\ cfg \in Config /\ Len(cfg.backends) >= 2
               /\ cfg # NoCfg /\ Members(cfg) # {} /\ cfg.key \in Keys
    <2>1. job[p].cfg = cfg /\ Len(cfg.backends) >= 2 /\ job[p].cfg \in Config /\ cfg.key \in Keys
      BY <1>1, <1>2 DEF Phase, Removal, JobFits, Removing
    <2>2. cfg # NoCfg
      BY <2>1, RaidAssumption DEF Config
    <2> QED
      BY <2>1, <2>2, MembersFacts
  <1>3. ASSUME NEW i \in 0..MaxBackends, RemLoad(p, i) PROVE PoolInv'
    <2>1. PICK c \in OnDisk :
            /\ c # NoCfg /\ Formable(c)
            /\ Move(p, "remLoadMap", [NoJob EXCEPT !.cfg = c, !.index = i])
      BY <1>3 DEF RemLoad
    <2> DEFINE j == [NoJob EXCEPT !.cfg = c, !.index = i]
    <2>2. c = cfg /\ j.cfg = c /\ Len(c.backends) >= 2
      BY <1>1, <2>1, OnDiskFacts DEF NoJob, Formable
    <2>3. UNCHANGED <<cfg, maps, stored, torn>> /\ pc[p] = "idle" /\ Move(p, "remLoadMap", j)
      BY <1>3, <2>1 DEF RemLoad
    <2> HIDE DEF j
    <2>4. Phase("remLoadMap", j, cfg, maps, stored, torn)
      BY <1>1, <2>2, <2>3 DEF Phase, Between, Adding, Removal, WithMap
    <2> QED
      BY <1>1, <2>3, <2>4, MovePool
  <1>4. CASE RemLoadMap(p)
    <2>1. pc[p] = "remLoadMap" /\ UNCHANGED <<cfg, maps, stored, torn>>
      BY <1>4 DEF RemLoadMap
    <2>2. /\ job[p].cfg = cfg /\ cfg \in Config /\ Len(cfg.backends) >= 2 /\ cfg # NoCfg
          /\ Settled(cfg, maps, stored, torn)
      BY <1>1, <1>2, <2>1 DEF Removing, Phase, Between
    <2> DEFINE i == job[p].index
    <2>3. PICK m \in Loadable(cfg), next \in {"remMigrate", "remSaveMap"} :
            Move(p, next, [job[p] EXCEPT !.map = Reindexed(m, i), !.backup = m])
      BY <1>4, <2>2 DEF RemLoadMap, MapStep, BackupOf
    <2> DEFINE j == [job[p] EXCEPT !.map = Reindexed(m, i), !.backup = m]
    <2>4. /\ j.cfg = cfg /\ j.map = Reindexed(m, i) /\ j.backup = m /\ j.index = i
          /\ Move(p, next, j)
      BY <1>1, <2>2, <2>3 DEF Job
    <2> HIDE DEF j
    <2>5. Newest(cfg, maps, stored, torn, m)
      BY <1>1, <2>2, LoadNewest DEF StoredHasMap
    <2>6. Phase(next, j, cfg, maps, stored, torn)
      BY <2>2, <2>4, <2>5 DEF Phase, Between, Adding, Removal
    <2> QED
      BY <1>1, <2>1, <2>4, <2>6, MovePool
  <1>5. CASE RemMigrate(p)
    <2>1. /\ pc[p] = "remMigrate" /\ UNCHANGED <<cfg, maps, stored, torn>>
          /\ Move(p, "remSaveMap", job[p])
      BY <1>5 DEF RemMigrate, MapStep
    <2>2. Phase("remSaveMap", job[p], cfg, maps, stored, torn)
      BY <1>1, <2>1 DEF Phase, Between, Adding, Removal, Removing, WithMap
    <2> QED
      BY <1>1, <2>1, <2>2, MovePool
  <1>6. CASE RemSaveMap(p)
    <2>1. /\ pc[p] = "remSaveMap" /\ UNCHANGED <<cfg, stored, torn>>
          /\ Move(p, "remSaveCfg", job[p]) /\ Push(job[p].map, Members(job[p].cfg))
      BY <1>6 DEF RemSaveMap
    <2> DEFINE m == job[p].map
               b == job[p].backup
    <2>2. /\ job[p].cfg = cfg /\ cfg \in Config /\ cfg # NoCfg /\ Members(cfg) # {}
          /\ Own(m) /\ b \in ShardMap
          /\ Settled(cfg, maps, stored, torn) /\ Newest(cfg, maps, stored, torn, b)
          /\ Removal("remSaveCfg", job[p], cfg)
      BY <1>1, <1>2, <2>1, RaidAssumption
         DEF Removing, WithMap, JobFits, Phase, Between, Own, Removal
    <2>3. /\ maps' \in Maps
          /\ \A l \in Locs : maps'[l] = IF l \in Members(cfg) THEN m ELSE maps[l]
      BY <1>1, <2>1, <2>2, PushTyped DEF Push, Own, Maps
    <2>4. ASSUME NEW l \in Sealed(maps') \ Members(cfg)
          PROVE  /\ maps'[l].ver <= b.ver
                 /\ Good(cfg, stored, torn, maps'[l]) \/ maps'[l].ver < b.ver
      <3>1. l \in Sealed(maps) /\ maps'[l] = maps[l]
        BY <2>3 DEF Sealed
      <3>2. /\ maps[l].ver <= b.ver
            /\ Good(cfg, stored, torn, maps[l]) \/ Behind(cfg, maps, maps[l].ver)
        BY <2>2, <3>1 DEF Newest, Settled
      <3>3. Behind(cfg, maps, maps[l].ver) => maps[l].ver < b.ver
        <4> SUFFICES ASSUME NEW w \in SealedMembers(cfg, maps), maps[w].ver > maps[l].ver
                     PROVE  maps[l].ver < b.ver
          BY DEF Behind
        <4>1. w \in Sealed(maps) /\ maps[w].ver <= b.ver
          BY <2>2 DEF SealedMembers, Newest
        <4>2. maps[w].ver \in Nat /\ maps[l].ver \in Nat /\ b.ver \in Nat
          BY <1>1, <2>2, <3>1, <4>1, SealedFacts DEF ShardMap
        <4> QED
          BY <4>1, <4>2
      <3> QED
        BY <3>1, <3>2, <3>3
    <2>5. Committing(job[p], cfg, maps', stored, torn)
      <3>1. Good(cfg, stored, torn, b)
        BY <2>2 DEF Newest
      <3>2. \A l \in Members(cfg) : maps'[l] = m
        BY <2>2, <2>3, MembersFacts
      <3> QED
        BY <2>4, <3>1, <3>2 DEF Committing
    <2>6. Phase("remSaveCfg", job[p], cfg, maps', stored, torn)
      BY <2>2, <2>5 DEF Phase, Between, Adding
    <2>7. StoredHasMap(cfg, maps', stored)
      <3>1. PICK w \in Members(cfg) : w \in Locs /\ maps'[w] = m
        BY <2>2, <2>3, MembersFacts
      <3>2. w \in SealedMembers(cfg, maps')
        BY <2>2, <2>3, <3>1, OwnIsSealed DEF SealedMembers
      <3> QED
        BY <2>2, <3>2 DEF StoredHasMap
    <2> QED
      BY <1>1, <2>1, <2>6, <2>7, MovePool
  <1> QED
    BY <1>3, <1>4, <1>5, <1>6

\* What is known between the two writes of a removal.
LEMMA BetweenContext ==
  ASSUME KeyInv, PoolInv, NEW p \in Procs, pc[p] \in Between
  PROVE  /\ job[p].cfg = cfg /\ cfg \in Config /\ cfg # NoCfg /\ Len(cfg.backends) >= 2
         /\ Members(cfg) # {} /\ job[p].index \in Positions(cfg)
         /\ Own(job[p].map) /\ Own(job[p].backup)
         /\ job[p].map = Reindexed(job[p].backup, job[p].index)
         /\ job[p].map.ver = job[p].backup.ver + 1 /\ job[p].backup.ver \in Nat
         /\ Removal(pc[p], job[p], cfg)
         /\ Committing(job[p], cfg, maps, stored, torn)
         /\ Fits(cfg, job[p].map)
  <1>1. /\ JobFits(pc[p], job[p]) /\ Phase(pc[p], job[p], cfg, maps, stored, torn)
        /\ job[p] \in Job
    BY PoolContext
  <1>2. pc[p] \in WithMap \cap Removing /\ pc[p] # "idle"
    BY DEF Between, WithMap, Removing
  <1>3. /\ job[p].cfg = cfg /\ cfg \in Config /\ Len(cfg.backends) >= 2
        /\ job[p].index \in Positions(cfg) /\ job[p].index \in Nat
        /\ Own(job[p].map) /\ Own(job[p].backup)
        /\ job[p].map = Reindexed(job[p].backup, job[p].index)
    BY <1>1, <1>2, RaidAssumption DEF JobFits, Phase, Removal, Own, Job
  <1>4. cfg # NoCfg /\ Members(cfg) # {}
    BY <1>3, MembersFacts, RaidAssumption DEF Config
  <1>5. job[p].map.ver = job[p].backup.ver + 1 /\ job[p].backup.ver \in Nat
    BY <1>3, ReindexedFacts DEF Own, ShardMap
  <1>6. Removal(pc[p], job[p], cfg) /\ Committing(job[p], cfg, maps, stored, torn)
    BY <1>1 DEF Phase
  <1>7. Fits(cfg, job[p].map)
    BY <1>3, <1>6, ReindexedFits DEF Committing, Good, Own
  <1> QED
    BY <1>3, <1>4, <1>5, <1>6, <1>7

LEMMA CommitKeepsPool ==
  ASSUME OneProcess, KeyInv, PoolInv, NEW p \in Procs,
         RemSaveCfg(p) \/ RemSaveCfgFails(p) \/ RemRollback(p)
  PROVE  PoolInv'
  <1> DEFINE m == job[p].map
             b == job[p].backup
             i == job[p].index
  <1>1. TypeInv /\ maps \in Maps /\ pc[p] \in Between /\ StoredHasMap(cfg, maps, stored)
    BY PoolContext DEF RemSaveCfg, RemSaveCfgFails, RemRollback, Between
  <1>2. /\ job[p].cfg = cfg /\ cfg \in Config /\ cfg # NoCfg /\ Len(cfg.backends) >= 2
        /\ Members(cfg) # {} /\ i \in Positions(cfg)
        /\ Own(m) /\ Own(b) /\ m = Reindexed(b, i)
        /\ m.ver = b.ver + 1 /\ b.ver \in Nat
        /\ Removal(pc[p], job[p], cfg)
        /\ Committing(job[p], cfg, maps, stored, torn)
    BY <1>1, BetweenContext
  <1>3. CASE RemSaveCfg(p)
    <2>1. /\ cfg' = Without(cfg, i) /\ UNCHANGED <<maps, torn>> /\ Finish(p)
          /\ stored' = [o \in Objects |->
               {j \in Positions(cfg') : (IF j < i THEN j ELSE j + 1) \in stored[o]}]
      BY <1>2, <1>3 DEF RemSaveCfg
    <2>2. /\ cfg' \in Config /\ cfg' # NoCfg /\ Members(cfg') # {}
          /\ Members(cfg') \subseteq Members(cfg)
      <3>1. cfg' \in Config /\ Len(cfg'.backends) >= 1
        BY <1>2, <2>1, WithoutFacts, MembersFacts
      <3>2. cfg' # NoCfg
        BY <3>1, RaidAssumption DEF Config
      <3> QED
        BY <1>2, <2>1, <3>1, <3>2, MembersFacts, WithoutMembers
    <2>3. Good(cfg', stored', torn, m)
      <3>1. Good(cfg, stored, torn, b) /\ Fits(cfg, b) /\ b \in ShardMap
        BY <1>2 DEF Committing, Good, Own
      <3>2. /\ Fits(cfg', m)
            /\ \A o \in Objects : m.refs[o] =
                 {j \in Positions(cfg') : (IF j < i THEN j ELSE j + 1) \in b.refs[o]}
        BY <1>2, <2>1, <3>1, ReindexedFits
      <3>3. (\A o \in Objects : b.refs[o] = stored[o]) =>
              \A o \in Objects : m.refs[o] = stored'[o]
        BY <2>1, <3>2
      <3> QED
        BY <3>1, <3>2, <3>3, Zenon DEF Good
    <2>4. \A l \in Members(cfg') : maps[l] = m
      BY <1>2, <2>2 DEF Committing
    <2>5. ASSUME NEW l \in Sealed(maps) \ Members(cfg')
          PROVE  /\ maps[l].ver <= m.ver
                 /\ Good(cfg', stored', torn, maps[l]) \/ maps[l].ver < m.ver
      <3>1. CASE l \in Members(cfg)
        <4>1. maps[l] = m /\ m.ver <= m.ver
          BY <1>2, <3>1 DEF Committing
        <4> QED
          BY <2>3, <4>1
      <3>2. CASE l \notin Members(cfg)
        <4>1. maps[l].ver <= b.ver /\ maps[l].ver \in Nat
          BY <1>1, <1>2, <3>2, SealedFacts DEF Committing
        <4> QED
          BY <1>2, <4>1
      <3> QED
        BY <3>1, <3>2
    <2>6. Settled(cfg', maps, stored', torn) /\ SealedMembers(cfg', maps) # {}
      BY <1>1, <1>2, <2>2, <2>3, <2>4, <2>5, AllHold
    <2>7. StoredHasMap(cfg', maps, stored')
      BY <2>2, <2>6 DEF StoredHasMap
    <2> QED
      BY <1>1, <2>1, <2>6, <2>7, FinishPool
  <1>4. CASE RemSaveCfgFails(p)
    <2>1. /\ pc[p] = "remSaveCfg" /\ UNCHANGED <<cfg, maps, stored, torn>>
          /\ Move(p, "remRollback", job[p])
      BY <1>4 DEF RemSaveCfgFails
    <2>2. Phase("remRollback", job[p], cfg, maps, stored, torn)
      BY <1>2, <2>1 DEF Phase, Between, Adding, Removal, Removing, WithMap
    <2> QED
      BY <1>1, <2>1, <2>2, MovePool
  <1>5. CASE RemRollback(p)
    <2>1. Push(b, Members(cfg)) /\ UNCHANGED <<cfg, stored, torn>> /\ Finish(p)
      BY <1>2, <1>5 DEF RemRollback
    <2>2. /\ maps' \in Maps
          /\ \A l \in Locs : maps'[l] = IF l \in Members(cfg) THEN b ELSE maps[l]
      BY <1>1, <1>2, <2>1, PushTyped DEF Push, Own, Maps
    <2>3. /\ Good(cfg, stored, torn, b)
          /\ \A l \in Members(cfg) : maps'[l] = b
      BY <1>2, <2>2, MembersFacts DEF Committing
    <2>4. ASSUME NEW l \in Sealed(maps') \ Members(cfg)
          PROVE  /\ maps'[l].ver <= b.ver
                 /\ Good(cfg, stored, torn, maps'[l]) \/ maps'[l].ver < b.ver
      <3>1. l \in Sealed(maps) /\ maps'[l] = maps[l]
        BY <2>2 DEF Sealed
      <3> QED
        BY <1>2, <3>1 DEF Committing
    <2>5. Settled(cfg, maps', stored, torn) /\ SealedMembers(cfg, maps') # {}
      BY <1>2, <2>2, <2>3, <2>4, AllHold
    <2>6. StoredHasMap(cfg, maps', stored)
      BY <1>2, <2>5 DEF StoredHasMap
    <2> QED
      BY <1>1, <2>1, <2>5, <2>6, FinishPool
  <1> QED
    BY <1>3, <1>4, <1>5

LEMMA TornKeepsPool ==
  ASSUME OneProcess, KeyInv, PoolInv, NEW p \in Procs,
         StopInPush(p) \/ CrashBetweenWrites(p)
  PROVE  PoolInv'
  <1> DEFINE m == job[p].map
             b == job[p].backup
  <1>1. /\ TypeInv /\ maps \in Maps /\ StoredHasMap(cfg, maps, stored)
        /\ cfg \in Config \cup {NoCfg} /\ job[p] \in Job
        /\ JobFits(pc[p], job[p]) /\ Phase(pc[p], job[p], cfg, maps, stored, torn)
    BY PoolContext
  <1>2. ASSUME pc[p] \in Between, NEW N \in Maps, maps' = N,
               UNCHANGED <<cfg, stored>>, torn' = TRUE, Finish(p),
               \A l \in Members(cfg) : N[l] = m \/ N[l] = b,
               \A l \in Locs \ Members(cfg) : N[l] = maps[l]
        PROVE  PoolInv'
    <2>1. /\ cfg \in Config /\ cfg # NoCfg /\ Members(cfg) # {}
          /\ Own(m) /\ Own(b) /\ m.ver = b.ver + 1 /\ b.ver \in Nat
          /\ Committing(job[p], cfg, maps, stored, torn)
          /\ Fits(cfg, m) /\ Fits(cfg, b)
      BY <1>2, BetweenContext DEF Committing, Good
    <2>2. \A l \in Members(cfg) : Own(N[l]) /\ Fits(cfg, N[l]) /\ N[l].ver >= b.ver
      BY <1>2, <2>1
    <2>3. ASSUME NEW l \in Sealed(N) \ Members(cfg)
          PROVE  N[l].ver <= b.ver /\ (Fits(cfg, N[l]) \/ N[l].ver < b.ver)
      <3>1. l \in Sealed(maps) /\ N[l] = maps[l]
        BY <1>2 DEF Sealed
      <3> QED
        BY <2>1, <3>1 DEF Committing, Good
    <2>4. Settled(cfg, N, stored, TRUE) /\ SealedMembers(cfg, N) # {}
      BY <2>1, <2>2, <2>3, HoldTorn
    <2>5. StoredHasMap(cfg, N, stored)
      BY <2>1, <2>4 DEF StoredHasMap
    <2> QED
      BY <1>1, <1>2, <2>4, <2>5, FinishPool
  <1>3. CASE CrashBetweenWrites(p)
    <2>1. /\ pc[p] \in Between /\ UNCHANGED <<cfg, maps, stored>> /\ torn' = TRUE
          /\ Finish(p)
      BY <1>3 DEF CrashBetweenWrites, Between
    <2>2. \A l \in Members(cfg) : maps[l] = m
      BY <2>1, BetweenContext DEF Committing
    <2> QED
      BY <1>1, <1>2, <2>1, <2>2
  <1>4. ASSUME pc[p] = "remRollback", NEW W \in SUBSET Members(job[p].cfg), Push(b, W),
               StopInPush(p)
        PROVE  PoolInv'
    <2>1. UNCHANGED <<cfg, stored>> /\ torn' = TRUE /\ Finish(p) /\ pc[p] \in Between
      BY <1>4 DEF StopInPush, Between
    <2>2. /\ Members(job[p].cfg) = Members(cfg) /\ Own(b) /\ Members(cfg) \subseteq Locs
          /\ \A l \in Members(cfg) : maps[l] = m
      BY <2>1, BetweenContext, MembersFacts DEF Committing
    <2>3. /\ maps' \in Maps
          /\ \A l \in Locs : maps'[l] = IF l \in W THEN b ELSE maps[l]
      BY <1>1, <1>4, <2>2, PushTyped DEF Push, Own, Maps
    <2>4. /\ \A l \in Members(cfg) : maps'[l] = m \/ maps'[l] = b
          /\ \A l \in Locs \ Members(cfg) : maps'[l] = maps[l]
      BY <2>2, <2>3
    <2>5. PICK N \in Maps : maps' = N
      BY <2>3
    <2> QED
      BY <1>2, <2>1, <2>4, <2>5
  <1>5. ASSUME pc[p] = "remSaveMap", NEW W \in SUBSET Members(job[p].cfg), Push(m, W),
               StopInPush(p)
        PROVE  PoolInv'
    <2>1. UNCHANGED <<cfg, stored>> /\ torn' = TRUE /\ Finish(p)
      BY <1>5 DEF StopInPush
    <2>2. /\ job[p].cfg = cfg /\ cfg \in Config /\ job[p].index \in Positions(cfg)
          /\ job[p].index \in Nat /\ Own(m) /\ b \in ShardMap
          /\ m = Reindexed(b, job[p].index)
          /\ Newest(cfg, maps, stored, torn, b) /\ Settled(cfg, maps, stored, torn)
      BY <1>1, <1>5, RaidAssumption
         DEF JobFits, Phase, Removal, Removing, WithMap, Between, Own, Job
    <2>3. Fits(cfg, m) /\ m.ver = b.ver + 1 /\ b.ver \in Nat
      BY <2>2, ReindexedFits, ReindexedFacts DEF Newest, Good, ShardMap
    <2>4. Above(maps, m)
      BY <1>1, <2>2, <2>3, SealedFacts DEF Newest, Above
    <2>5. /\ maps' \in Maps
          /\ \A l \in Locs : maps'[l] = IF l \in W THEN m ELSE maps[l]
      BY <1>1, <1>5, <2>2, PushTyped DEF Push, Own, Maps
    <2>6. \A l \in Locs : (l \in Members(cfg) /\ maps'[l] = m) \/ maps'[l] = maps[l]
      BY <2>2, <2>5
    <2>7. Settled(cfg, maps', stored, TRUE)
      <3>1. maps \in Maps /\ cfg \in Config /\ Own(m) /\ Settled(cfg, maps, stored, torn)
        BY <1>1, <2>2
      <3>2. Fits(cfg, m) /\ maps' \in Maps
        BY <2>3, <2>5
      <3> HIDE DEF m
      <3> QED
        BY <2>4, <2>6, <3>1, <3>2, PushTorn
    <2>8. StoredHasMap(cfg, maps', stored)
      <3>1. SealedMembers(cfg, maps) \subseteq SealedMembers(cfg, maps')
        BY <1>1, <2>2, <2>5, PushKeepsSealed
      <3> QED
        BY <1>1, <3>1 DEF StoredHasMap
    <2> QED
      BY <1>1, <2>1, <2>7, <2>8, FinishPool
  <1> QED
    BY <1>3, <1>4, <1>5 DEF StopInPush

LEMMA OthersKeepPool ==
  ASSUME OneProcess, KeyInv, PoolInv, NEW p \in Procs,
         \/ \E i \in 0..MaxBackends : RebuildLoad(p, i)
         \/ \E mode \in Modes : ConfigureLoad(p, mode)
         \/ Rebuild(p) \/ RemMigrateFails(p) \/ Stop(p)
  PROVE  PoolInv'
  <1>1. /\ TypeInv /\ cfg \in Config \cup {NoCfg} /\ StoredHasMap(cfg, maps, stored)
        /\ Phase(pc[p], job[p], cfg, maps, stored, torn)
    BY PoolContext
  <1>2. UNCHANGED <<cfg, maps, stored, torn>> /\ pc[p] \notin Between
    BY DEF RebuildLoad, ConfigureLoad, Rebuild, RemMigrateFails, Stop, Between
  <1>3. Settled(cfg, maps, stored, torn)
    BY <1>1, <1>2 DEF Phase
  <1>4. ASSUME NEW i \in 0..MaxBackends, RebuildLoad(p, i) PROVE PoolInv'
    <2>1. PICK j : Move(p, "rebuild", j)
      BY <1>4 DEF RebuildLoad
    <2>2. Phase("rebuild", j, cfg, maps, stored, torn)
      BY <1>3 DEF Phase, Between, Adding, Removal, Removing, WithMap
    <2> QED
      BY <1>1, <1>2, <2>1, <2>2, MovePool
  <1>5. ASSUME NEW mode \in Modes, ConfigureLoad(p, mode) PROVE PoolInv'
    <2>1. PICK c \in OnDisk :
            c # NoCfg /\ Move(p, "saveCfg", [NoJob EXCEPT !.cfg = [c EXCEPT !.mode = mode]])
      BY <1>5 DEF ConfigureLoad
    <2> DEFINE new == [c EXCEPT !.mode = mode]
               j == [NoJob EXCEPT !.cfg = new]
    <2>2. c = cfg /\ c \in Config
      BY <1>1, <2>1, OnDiskFacts
    <2>3. new.backends = cfg.backends /\ j.cfg = new /\ Move(p, "saveCfg", j)
      BY <2>1, <2>2 DEF Config, NoJob
    <2> HIDE DEF j, new
    <2>4. Adding("saveCfg", j, cfg)
      BY <2>2, <2>3, MembersFacts DEF Adding, Members
    <2>5. Phase("saveCfg", j, cfg, maps, stored, torn)
      BY <1>3, <2>4 DEF Phase, Between, Removal, Removing, WithMap
    <2> QED
      BY <1>1, <1>2, <2>3, <2>5, MovePool
  <1>6. CASE Rebuild(p) \/ RemMigrateFails(p) \/ Stop(p)
    <2>1. Finish(p)
      BY <1>6 DEF Rebuild, RemMigrateFails, Stop
    <2> QED
      BY <1>1, <1>2, <1>3, <2>1, FinishPool
  <1> QED
    BY <1>4, <1>5, <1>6

LEMMA EnvironmentKeepsPool ==
  ASSUME OneProcess, KeyInv, PoolInv,
         \/ \E o \in Objects : Upload(o)
         \/ \E l \in Locs, o \in Objects : Damage(l, o)
  PROVE  PoolInv'
  <1>0. PICK p \in Procs : Procs = {p}
    BY DEF OneProcess
  <1>1. /\ TypeInv /\ maps \in Maps
        /\ Phase(pc[p], job[p], cfg, maps, stored, torn)
        /\ StoredHasMap(cfg, maps, stored)
        /\ \A l \in Sealed(maps) : cfg # NoCfg /\ maps[l].key = cfg.key
    BY PoolContext
  <1>2. ASSUME NEW o \in Objects, Upload(o) PROVE PoolInv'
    <2> DEFINE used == UsedBy(cfg)
    <2>1. PICK m \in Loadable(cfg) :
            /\ Quiet /\ cfg \in Config /\ cfg.key \in Keys /\ Formable(cfg)
            /\ m \in ShardMap /\ m.key = cfg.key
            /\ used \subseteq Positions(cfg) /\ used \subseteq Nat
            /\ Push(WithObject(m, o, used), Members(cfg))
            /\ stored' = [stored EXCEPT ![o] = used]
            /\ UNCHANGED <<cfg, pc, job, torn>>
      BY <1>1, <1>2, UploadFacts
    <2> DEFINE n == WithObject(m, o, used)
    <2>2. /\ n \in ShardMap /\ n.key = m.key /\ n.ver = m.ver + 1 /\ m.ver \in Nat
          /\ \A x \in Objects : n.refs[x] = IF x = o THEN used ELSE m.refs[x]
      BY <2>1, WithObjectFacts DEF ShardMap
    <2>3. Own(n) /\ cfg # NoCfg /\ Members(cfg) # {} /\ Members(cfg) \subseteq Locs
      BY <2>1, <2>2, MembersFacts, RaidAssumption DEF Own, Config, Formable
    <2>4. pc[p] = "idle" /\ Settled(cfg, maps, stored, torn)
      BY <1>1, <2>1 DEF Quiet, Phase, Between
    <2>5. Newest(cfg, maps, stored, torn, m)
      BY <1>1, <2>1, <2>4, LoadNewest DEF StoredHasMap
    <2> HIDE DEF n, used
    <2>6. /\ maps' \in Maps
          /\ \A l \in Locs : maps'[l] = IF l \in Members(cfg) THEN n ELSE maps[l]
      BY <1>1, <2>1, <2>2, PushTyped DEF Push, Maps, n
    <2>7. Good(cfg, stored', torn, n)
      <3>1. Fits(cfg, m) /\ (torn \/ \A x \in Objects : m.refs[x] = stored[x])
        BY <2>5 DEF Newest, Good
      <3>2. Fits(cfg, n)
        BY <2>1, <2>2, <3>1 DEF Fits
      <3>3. (\A x \in Objects : m.refs[x] = stored[x]) => \A x \in Objects : n.refs[x] = stored'[x]
        <4>1. stored \in [Objects -> SUBSET Nat]
          BY <1>1 DEF TypeInv, TypeOK
        <4> QED
          BY <2>1, <2>2, <4>1
      <3> QED
        BY <3>1, <3>2, <3>3, Zenon DEF Good
    <2>8. \A l \in Members(cfg) : maps'[l] = n
      BY <2>3, <2>6
    <2>9. ASSUME NEW l \in Sealed(maps') \ Members(cfg)
          PROVE  /\ maps'[l].ver <= n.ver
                 /\ Good(cfg, stored', torn, maps'[l]) \/ maps'[l].ver < n.ver
      <3>1. l \in Sealed(maps) /\ maps'[l] = maps[l]
        BY <2>6 DEF Sealed
      <3>2. maps[l].ver <= m.ver /\ maps[l].ver \in Nat
        BY <1>1, <2>5, <3>1, SealedFacts DEF Newest
      <3> QED
        BY <2>2, <3>1, <3>2
    <2>10. Settled(cfg, maps', stored', torn) /\ SealedMembers(cfg, maps') # {}
      BY <2>1, <2>3, <2>6, <2>7, <2>8, <2>9, AllHold
    <2>11. StoredHasMap(cfg, maps', stored')
      BY <2>3, <2>10 DEF StoredHasMap
    <2>12. Phase("idle", job[p], cfg, maps', stored', torn)
      BY <2>10, IdlePhase
    <2> QED
      BY <1>0, <2>1, <2>4, <2>11, <2>12 DEF PoolInv
  <1>3. ASSUME NEW l \in Locs, NEW o \in Objects, Damage(l, o) PROVE PoolInv'
    BY <1>3 DEF Damage, PoolInv
  <1> QED
    BY <1>2, <1>3

LEMMA PoolStep ==
  ASSUME OneProcess, KeyInv, PoolInv, [Next]_vars
  PROVE  PoolInv'
  <1>1. CASE Next
    BY <1>1, AddKeepsPool, RemoveKeepsPool, CommitKeepsPool, TornKeepsPool, OthersKeepPool,
       EnvironmentKeepsPool DEF Next
  <1>2. CASE UNCHANGED vars
    BY <1>2 DEF vars, PoolInv
  <1> QED
    BY <1>1, <1>2

LEMMA PoolAlways ==
  ASSUME OneProcess PROVE Spec => [](KeyInv /\ PoolInv)
  <1>1. KeyInv /\ PoolInv /\ [Next]_vars => (KeyInv /\ PoolInv)'
    BY KeyStep, PoolStep
  <1> QED
    BY <1>1, KeyInit, PoolInit, PTL DEF Spec

\* What a command may load between the two writes of a removal is the new map,
\* which fits both configurations; otherwise it is the newest one.
LEMMA LoadedFits ==
  ASSUME OneProcess, KeyInv, PoolInv, cfg # NoCfg, NEW m \in Loadable(cfg)
  PROVE  /\ Fits(cfg, m)
         /\ Quiet => Good(cfg, stored, torn, m)
  <1>1. PICK p \in Procs : Procs = {p}
    BY DEF OneProcess
  <1>2. /\ cfg \in Config /\ maps \in Maps
        /\ Phase(pc[p], job[p], cfg, maps, stored, torn)
        /\ StoredHasMap(cfg, maps, stored)
        /\ \A l \in Sealed(maps) : maps[l].key = cfg.key
    BY PoolContext
  <1>3. CASE pc[p] \notin Between
    <2>1. Settled(cfg, maps, stored, torn)
      BY <1>2, <1>3 DEF Phase
    <2>2. Newest(cfg, maps, stored, torn, m)
      BY <1>2, <2>1, LoadNewest DEF StoredHasMap
    <2> QED
      BY <2>2 DEF Newest, Good
  <1>4. CASE pc[p] \in Between
    <2>1. /\ Members(cfg) # {} /\ Fits(cfg, job[p].map) /\ Own(job[p].map)
          /\ \A l \in Members(cfg) : maps[l] = job[p].map
      BY <1>4, BetweenContext DEF Committing
    <2>2. job[p].map.key = cfg.key /\ job[p].map # NoMap
      <3>1. PICK w \in Members(cfg) : w \in Locs /\ maps[w] = job[p].map
        BY <1>2, <2>1, MembersFacts
      <3>2. w \in Sealed(maps)
        BY <1>2, <2>1, <3>1, OwnIsSealed
      <3> QED
        BY <1>2, <3>1, <3>2 DEF Sealed
    <2>3. Verified(cfg) = {job[p].map}
      BY <2>1, <2>2 DEF Verified
    <2>4. m = job[p].map
      BY <2>3 DEF Loadable
    <2>5. ~Quiet
      BY <1>4 DEF Quiet, Between
    <2> QED
      BY <2>1, <2>4, <2>5
  <1> QED
    BY <1>3, <1>4

\* The map a command would load never names a position beyond the end of the
\* configuration, whatever failed or crashed before (raid.rs, the commit of
\* remove-backend).
THEOREM NoPositionDangles ==
  ASSUME OneProcess PROVE Spec => []NoDanglingPosition
  <1>1. KeyInv /\ PoolInv => NoDanglingPosition
    BY LoadedFits DEF NoDanglingPosition, Fits
  <1> QED
    BY <1>1, PoolAlways, PTL

\* While no removal was cut off between its writes, the map places every object
\* where it was stored: a removal that fails and rolls back included.
THEOREM MapAndConfigAgree ==
  ASSUME OneProcess PROVE Spec => []MatchUnlessTorn
  <1>1. KeyInv /\ PoolInv => MatchUnlessTorn
    <2> SUFFICES ASSUME KeyInv, PoolInv, ~torn, Quiet, cfg # NoCfg,
                        NEW m \in Loadable(cfg), NEW o \in Objects
                 PROVE  m.refs[o] = stored[o]
      BY DEF MatchUnlessTorn, MapMatchesConfig
    <2> QED
      BY LoadedFits DEF Good
  <1> QED
    BY <1>1, PoolAlways, PTL
=============================================================================
