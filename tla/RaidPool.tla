------------------------------ MODULE RaidPool ------------------------------
(***************************************************************************)
(* The RAID commands (src/commands/raid.rs): add-backend, remove-backend,  *)
(* configure and rebuild, run by any number of processes over one          *)
(* raid.json and a set of storage locations.                               *)
(*                                                                         *)
(* A set is described twice: by the configuration, which lists the members *)
(* by position, and by the shard map, a copy of which lies on every member *)
(* and names, for each object, the positions that hold a shard of it.  The *)
(* commands keep the two in step without a lock: they read both, compute,  *)
(* and write one after the other.                                          *)
(*                                                                         *)
(* CompositeStorageProvider and RaidRebuilder belong to another crate.     *)
(* They are modelled from the calls made here and from the tests of        *)
(* raid.rs: a map is loaded as the highest version on a member that        *)
(* verifies under the set's key; a save reports success when every member  *)
(* has taken the map; an upload writes to every member it should.          *)
(***************************************************************************)
EXTENDS Integers, Sequences

CONSTANTS
  Procs,         \* processes, each running one command after another
  Locs,          \* storage locations a member can name
  Objects,       \* objects stored through the set
  Keys,          \* composite keys
  NoKey,         \* the key of a configuration written before there were keys
  Foreign,       \* the key of a map some other set left on a location
  NoCfg, NoMap,  \* no raid.json, no shard map on a location
  Modes,         \* the modes `configure` is called with
  StrictErasure, \* whether an erasure set must have exactly k + m members
  Crashes,       \* whether a process may die between two steps
  Faults,        \* whether a write may fail
  Damageable,    \* locations that may lose a shard they hold
  MaxBackends,   \* bound: members of a set
  MaxVer         \* bound: version of the shard map

Mirror == [kind |-> "mirror", k |-> 0, m |-> 0]
Erasure(k, m) == [kind |-> "erasure", k |-> k, m |-> m]
Mode == {Mirror} \cup {Erasure(k, m) : k, m \in 1..MaxBackends}

ASSUME RaidAssumption ==
  /\ NoKey \notin Keys /\ Foreign \notin Keys /\ NoKey # Foreign
  /\ NoCfg \notin [mode : Mode, backends : Seq(Locs), key : Keys \cup {NoKey}]
  /\ NoMap \notin [key : Keys \cup {Foreign}, ver : Nat, refs : [Objects -> SUBSET Nat]]
  /\ Modes \subseteq Mode
  /\ MaxBackends \in Nat /\ MaxVer \in Nat

Config == [mode : Mode, backends : Seq(Locs), key : Keys \cup {NoKey}]
ShardMap == [key : Keys \cup {Foreign}, ver : Nat, refs : [Objects -> SUBSET Nat]]
Shard == {"absent", "present", "damaged"}
Label == {"idle", "addLoadMap", "addSaveMap", "saveCfg", "remLoadMap", "remMigrate",
          "remSaveMap", "remSaveCfg", "remRollback", "rebuild"}

VARIABLES
  cfg,    \* raid.json
  maps,   \* the shard map on each location
  shards, \* what each location holds of each object
  pc,     \* where each process is
  job,    \* what its command has read and computed
  stored, \* history: the positions of raid.json whose member was given each object
  torn    \* history: a removal ended between its two writes

vars == <<cfg, maps, shards, pc, job, stored, torn>>

Job == [cfg : Config \cup {NoCfg}, map : ShardMap \cup {NoMap},
        backup : ShardMap \cup {NoMap}, index : Nat]
NoJob == [cfg |-> NoCfg, map |-> NoMap, backup |-> NoMap, index |-> 0]

TypeOK ==
  /\ cfg \in Config \cup {NoCfg}
  /\ maps \in [Locs -> ShardMap \cup {NoMap}]
  /\ shards \in [Locs -> [Objects -> Shard]]
  /\ pc \in [Procs -> Label]
  /\ job \in [Procs -> Job]
  /\ stored \in [Objects -> SUBSET Nat]
  /\ torn \in BOOLEAN

(***************************************************************************)
(* Configurations and maps.                                                *)
(***************************************************************************)
Members(c) == {c.backends[j] : j \in 1..Len(c.backends)}
Positions(c) == 0..(Len(c.backends) - 1)   \* the code counts from 0
At(c, i) == c.backends[i + 1]

\* Mutant: an old configuration without a key counts as no configuration.
OnDiskRekeyed == IF cfg # NoCfg /\ cfg.key = NoKey THEN {NoCfg} ELSE {cfg}

\* load_raid_config: a configuration without a key is refused.
OnDisk == IF cfg # NoCfg /\ cfg.key = NoKey THEN {} ELSE {cfg}

\* A key that nothing on disk or in a running command has.
FreshKeys ==
  {k \in Keys : /\ cfg # NoCfg => cfg.key # k
                /\ \A p \in Procs : job[p].cfg # NoCfg => job[p].cfg.key # k
                /\ \A l \in Locs : maps[l] # NoMap => maps[l].key # k}

\* Mutant: every command that adds a backend draws a key.
BaseConfigNewKey(c, k) ==
  IF c = NoCfg THEN [mode |-> Mirror, backends |-> <<>>, key |-> k] ELSE [c EXCEPT !.key = k]

\* The first backend creates the set, a mirror, and its key.
BaseConfig(c, k) ==
  IF c = NoCfg THEN [mode |-> Mirror, backends |-> <<>>, key |-> k] ELSE c

Without(c, i) ==
  [c EXCEPT !.backends =
     [j \in 1..(Len(c.backends) - 1) |->
        IF j <= i THEN c.backends[j] ELSE c.backends[j + 1]]]

MinBackends(mode) == IF mode.kind = "erasure" THEN mode.k + mode.m ELSE 2

\* CompositeStorageProvider::new accepts the configuration.
Formable(c) ==
  /\ Len(c.backends) >= 2
  /\ c.mode.kind = "erasure" =>
       IF StrictErasure THEN Len(c.backends) = MinBackends(c.mode)
                        ELSE Len(c.backends) >= MinBackends(c.mode)

EmptyMap(key) == [key |-> key, ver |-> 0, refs |-> [o \in Objects |-> {}]]

Verified(c) == {m \in {maps[l] : l \in Members(c)} : m # NoMap /\ m.key = c.key}

\* What load_shard_map may return: nothing if there are maps and none verifies.
Loadable(c) ==
  IF Verified(c) # {}
  THEN {m \in Verified(c) : \A n \in Verified(c) : n.ver <= m.ver}
  ELSE IF \A l \in Members(c) : maps[l] = NoMap THEN {EmptyMap(c.key)} ELSE {}

\* save_shard_map, when it has reached the members in W.
Push(m, W) == maps' = [l \in Locs |-> IF l \in W THEN m ELSE maps[l]]

\* Mutant: the removed position is dropped and every other one moved down.
ShiftAll(i, refs) == {k - 1 : k \in refs \ {i}}

\* Mutant: positions after the removed one keep their number.
ShiftNone(i, refs) == refs \ {i}

Shift(i, refs) == {IF k > i THEN k - 1 ELSE k : k \in refs \ {i}}

\* The map once position i is gone.
Reindexed(m, i) ==
  [key |-> m.key, ver |-> m.ver + 1, refs |-> [o \in Objects |-> Shift(i, m.refs[o])]]

\* Mutant: the copy for the rollback is taken after the change.
BackupTooLate(m, i) == Reindexed(m, i)

BackupOf(m, i) == m

\* RaidRebuilder: shards the map places at position t and another position of
\* the map still holds are written back to t.
Repairable(c, m, t) ==
  {o \in Objects : /\ t \in m.refs[o]
                   /\ shards[At(c, t)][o] # "present"
                   /\ \E i \in m.refs[o] : i # t /\ shards[At(c, i)][o] = "present"}

Repair(c, t, S) ==
  shards' = [shards EXCEPT ![At(c, t)] =
               [o \in Objects |-> IF o \in S THEN "present" ELSE @[o]]]

(***************************************************************************)
(* Steps shared by the commands.                                           *)
(***************************************************************************)
Move(p, label, j) ==
  /\ pc' = [pc EXCEPT ![p] = label]
  /\ job' = [job EXCEPT ![p] = j]

Finish(p) == Move(p, "idle", NoJob)

\* save_raid_config replaces the file whole (see PrivateFile).
SaveCfg(p) ==
  /\ pc[p] = "saveCfg"
  /\ cfg' = job[p].cfg
  /\ Finish(p)
  /\ UNCHANGED <<maps, shards, stored, torn>>

(***************************************************************************)
(* add-backend                                                             *)
(***************************************************************************)
AddLoad(p, l) ==
  /\ pc[p] = "idle"
  /\ \E c \in OnDisk, k \in Keys :
       LET base == BaseConfig(c, k)
           new  == [base EXCEPT !.backends = Append(@, l)]
       IN /\ c = NoCfg => k \in FreshKeys
          /\ Len(new.backends) <= MaxBackends
          /\ Move(p, IF Formable(new) THEN "addLoadMap" ELSE "saveCfg",
                  [NoJob EXCEPT !.cfg = new])
  /\ UNCHANGED <<cfg, maps, shards, stored, torn>>

AddLoadMap(p) ==
  /\ pc[p] = "addLoadMap"
  /\ \/ \E m \in Loadable(job[p].cfg) : Move(p, "addSaveMap", [job[p] EXCEPT !.map = m])
     \/ /\ Loadable(job[p].cfg) = {} \/ Faults
        /\ Move(p, "saveCfg", job[p])
  /\ UNCHANGED <<cfg, maps, shards, stored, torn>>

\* The configuration is saved whether or not every member took the map.
AddSaveMap(p) ==
  /\ pc[p] = "addSaveMap"
  /\ \E W \in SUBSET Members(job[p].cfg) :
       /\ W # Members(job[p].cfg) => Faults
       /\ Push(job[p].map, W)
  /\ Move(p, "saveCfg", job[p])
  /\ UNCHANGED <<cfg, shards, stored, torn>>

(***************************************************************************)
(* remove-backend                                                          *)
(***************************************************************************)
RemLoad(p, i) ==
  /\ pc[p] = "idle"
  /\ \E c \in OnDisk :
       /\ c # NoCfg
       /\ i \in Positions(c)
       /\ Len(c.backends) - 1 >= MinBackends(c.mode)
       /\ Formable(c)
       /\ Move(p, "remLoadMap", [NoJob EXCEPT !.cfg = c, !.index = i])
  /\ UNCHANGED <<cfg, maps, shards, stored, torn>>

\* Mutant: the configuration is written first.
MapStepConfigFirst == "remSaveCfg"

\* The map is written first (step 1 of the commit), the configuration second.
MapStep == "remSaveMap"

\* An erasure set first rebuilds when the map places shards at the position.
RemLoadMap(p) ==
  /\ pc[p] = "remLoadMap"
  /\ \E m \in Loadable(job[p].cfg) :
       LET i == job[p].index
           migrate == /\ job[p].cfg.mode.kind = "erasure"
                      /\ \E o \in Objects : i \in m.refs[o]
       IN /\ m.ver < MaxVer
          /\ Move(p, IF migrate THEN "remMigrate" ELSE MapStep,
                  [job[p] EXCEPT !.map = Reindexed(m, i), !.backup = BackupOf(m, i)])
  /\ UNCHANGED <<cfg, maps, shards, stored, torn>>

\* Onto the first healthy member but the removed one, whichever that is.
RemMigrate(p) ==
  /\ pc[p] = "remMigrate"
  /\ \E t \in Positions(job[p].cfg) \ {job[p].index} :
       Repair(job[p].cfg, t, Repairable(job[p].cfg, job[p].backup, t))
  /\ Move(p, MapStep, job[p])
  /\ UNCHANGED <<cfg, maps, stored, torn>>

\* One shard that cannot be rebuilt aborts the removal; the others stay written.
RemMigrateFails(p) ==
  /\ Faults
  /\ pc[p] = "remMigrate"
  /\ \E t \in Positions(job[p].cfg) \ {job[p].index} :
       \E S \in SUBSET Repairable(job[p].cfg, job[p].backup, t) :
         /\ S # Repairable(job[p].cfg, job[p].backup, t)
         /\ Repair(job[p].cfg, t, S)
  /\ Finish(p)
  /\ UNCHANGED <<cfg, maps, stored, torn>>

RemSaveMap(p) ==
  /\ pc[p] = "remSaveMap"
  /\ Push(job[p].map, Members(job[p].cfg))
  /\ Move(p, "remSaveCfg", job[p])
  /\ UNCHANGED <<cfg, shards, stored, torn>>

RemSaveCfg(p) ==
  /\ pc[p] = "remSaveCfg"
  /\ cfg' = Without(job[p].cfg, job[p].index)
  /\ stored' = [o \in Objects |->
       {j \in Positions(cfg') : (IF j < job[p].index THEN j ELSE j + 1) \in stored[o]}]
  /\ Finish(p)
  /\ UNCHANGED <<maps, shards, torn>>

RemSaveCfgFails(p) ==
  /\ Faults
  /\ pc[p] = "remSaveCfg"
  /\ Move(p, "remRollback", job[p])
  /\ UNCHANGED <<cfg, maps, shards, stored, torn>>

RemRollback(p) ==
  /\ pc[p] = "remRollback"
  /\ Push(job[p].backup, Members(job[p].cfg))
  /\ Finish(p)
  /\ UNCHANGED <<cfg, shards, stored, torn>>

(***************************************************************************)
(* configure and rebuild                                                   *)
(***************************************************************************)
ConfigureLoad(p, mode) ==
  /\ pc[p] = "idle"
  /\ \E c \in OnDisk :
       /\ c # NoCfg
       /\ mode.kind = "erasure" => mode.k + mode.m = Len(c.backends)
       /\ Move(p, "saveCfg", [NoJob EXCEPT !.cfg = [c EXCEPT !.mode = mode]])
  /\ UNCHANGED <<cfg, maps, shards, stored, torn>>

RebuildLoad(p, t) ==
  /\ pc[p] = "idle"
  /\ \E c \in OnDisk : /\ c # NoCfg
                       /\ Formable(c)
                       /\ t \in Positions(c)
                       /\ Move(p, "rebuild", [NoJob EXCEPT !.cfg = c, !.index = t])
  /\ UNCHANGED <<cfg, maps, shards, stored, torn>>

\* Shards whose repair fails are counted and reported; the others are written.
Rebuild(p) ==
  /\ pc[p] = "rebuild"
  /\ \E m \in Loadable(job[p].cfg) :
       \E S \in SUBSET Repairable(job[p].cfg, m, job[p].index) :
         /\ S # Repairable(job[p].cfg, m, job[p].index) => Faults
         /\ Repair(job[p].cfg, job[p].index, S)
  /\ Finish(p)
  /\ UNCHANGED <<cfg, maps, stored, torn>>

(***************************************************************************)
(* Errors and crashes.  A command that stops has written what it has       *)
(* written: nothing undoes it but the rollback above.                      *)
(***************************************************************************)
\* An error before anything is written, or a process that dies there; the save
\* of the configuration either happens or does not.
Stop(p) ==
  /\ pc[p] \in Label \ {"idle", "remSaveCfg", "remRollback"}
  /\ Crashes \/ Faults \/ (pc[p] \in {"remLoadMap", "rebuild"} /\ Loadable(job[p].cfg) = {})
  /\ Finish(p)
  /\ UNCHANGED <<cfg, maps, shards, stored, torn>>

\* save_shard_map fails, or the process dies, when some members have the map.
StopInPush(p) ==
  /\ Crashes \/ Faults
  /\ \/ pc[p] = "remSaveMap" /\ \E W \in SUBSET Members(job[p].cfg) :
          W # {} /\ Push(job[p].map, W)
     \/ pc[p] = "remRollback" /\ \E W \in SUBSET Members(job[p].cfg) :
          Push(job[p].backup, W)
  /\ torn' = TRUE
  /\ Finish(p)
  /\ UNCHANGED <<cfg, shards, stored>>

CrashBetweenWrites(p) ==
  /\ Crashes
  /\ pc[p] = "remSaveCfg"
  /\ torn' = TRUE
  /\ Finish(p)
  /\ UNCHANGED <<cfg, maps, shards, stored>>

(***************************************************************************)
(* The environment.                                                        *)
(***************************************************************************)
Quiet == \A p \in Procs : pc[p] = "idle"

\* A client of the set stores an object, while no command runs.
Upload(o) ==
  /\ Quiet
  /\ \A l \in Locs : shards[l][o] = "absent"
  /\ \E c \in OnDisk :
       /\ c # NoCfg
       /\ Formable(c)
       /\ \E m \in Loadable(c) :
            LET used == IF c.mode.kind = "erasure"
                        THEN {i \in Positions(c) : i < MinBackends(c.mode)}
                        ELSE Positions(c)
            IN /\ m.ver < MaxVer
               /\ Push([key |-> m.key, ver |-> m.ver + 1,
                        refs |-> [m.refs EXCEPT ![o] = used]], Members(c))
               /\ shards' = [l \in Locs |->
                    IF \E i \in used : l = At(c, i)
                    THEN [shards[l] EXCEPT ![o] = "present"] ELSE shards[l]]
               /\ stored' = [stored EXCEPT ![o] = used]
  /\ UNCHANGED <<cfg, pc, job, torn>>

\* A member loses a file between two commands (the tests delete one behind the
\* set's back).
Damage(l, o) ==
  /\ Quiet
  /\ l \in Damageable
  /\ shards[l][o] = "present"
  /\ shards' = [shards EXCEPT ![l][o] = "damaged"]
  /\ UNCHANGED <<cfg, maps, pc, job, stored, torn>>

\* A first start; a configuration from before there were keys; a location that
\* still has the map of another set.
Init ==
  /\ \/ cfg = NoCfg /\ maps = [l \in Locs |-> NoMap]
     \/ cfg = NoCfg /\ \E f \in Locs :
          maps = [l \in Locs |-> IF l = f THEN EmptyMap(Foreign) ELSE NoMap]
     \/ /\ \E l \in Locs : cfg = [mode |-> Mirror, backends |-> <<l>>, key |-> NoKey]
        /\ maps = [l \in Locs |-> NoMap]
  /\ shards = [l \in Locs |-> [o \in Objects |-> "absent"]]
  /\ pc = [p \in Procs |-> "idle"]
  /\ job = [p \in Procs |-> NoJob]
  /\ stored = [o \in Objects |-> {}]
  /\ torn = FALSE

Next ==
  \/ \E p \in Procs :
       \/ \E l \in Locs : AddLoad(p, l)
       \/ AddLoadMap(p) \/ AddSaveMap(p) \/ SaveCfg(p)
       \/ \E i \in 0..MaxBackends : RemLoad(p, i) \/ RebuildLoad(p, i)
       \/ RemLoadMap(p) \/ RemMigrate(p) \/ RemMigrateFails(p) \/ RemSaveMap(p)
       \/ RemSaveCfg(p) \/ RemSaveCfgFails(p) \/ RemRollback(p)
       \/ \E mode \in Modes : ConfigureLoad(p, mode)
       \/ Rebuild(p)
       \/ Stop(p) \/ StopInPush(p) \/ CrashBetweenWrites(p)
  \/ \E o \in Objects : Upload(o)
  \/ \E l \in Locs, o \in Objects : Damage(l, o)

Spec == Init /\ [][Next]_vars

(***************************************************************************)
(* Properties.                                                             *)
(***************************************************************************)
\* Once raid.json exists its key never changes or goes away: every tag on every
\* member was made under it (comment of RaidConfig.composite_key).
ConfigKeyStays == [][cfg # NoCfg => cfg' # NoCfg /\ cfg'.key = cfg.key]_cfg

\* No map is ever written under a key that is not already in raid.json, so no
\* crash can leave a map behind that nothing can verify.
SealedByKeyOnDisk ==
  \A l \in Locs : maps[l] # NoMap /\ maps[l].key # Foreign =>
    cfg # NoCfg /\ cfg.key = maps[l].key

\* The shard map a command would load now names no position beyond the end of
\* the configuration, whatever has failed or crashed before.
NoDanglingPosition ==
  cfg # NoCfg =>
    \A m \in Loadable(cfg) : \A o \in Objects : m.refs[o] \subseteq Positions(cfg)

\* Map and configuration agree: the map places each object at exactly the
\* positions whose member was given it.
MapMatchesConfig ==
  Quiet /\ cfg # NoCfg =>
    \A m \in Loadable(cfg) : \A o \in Objects : m.refs[o] = stored[o]

\* They agree unless a removal was cut off between its two writes or failed to
\* roll back: a removal that fails and rolls back leaves them agreeing.
MatchUnlessTorn == ~torn => MapMatchesConfig

\* An object that was stored can be read: the map names a member that has it.
StoredStaysReadable ==
  Quiet /\ cfg # NoCfg =>
    \A o \in Objects : (\E l \in Locs : shards[l][o] # "absent") =>
      \E m \in Loadable(cfg) : \E i \in m.refs[o] :
        i \in Positions(cfg) /\ shards[At(cfg, i)][o] = "present"
=============================================================================
