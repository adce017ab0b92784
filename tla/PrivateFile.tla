----------------------------- MODULE PrivateFile -----------------------------
(***************************************************************************)
(* `write_private_file` (src/private_file.rs): how raid.json, OAuth token  *)
(* files and recovery keys reach the disk.  Any number of calls, from one  *)
(* or several processes, write to one path; each call is the sequence of   *)
(* system calls the function makes, and between any two of them another    *)
(* call may run, the process may be killed or the machine may lose power.  *)
(*                                                                         *)
(* A file (inode) is named by the call that creates it.  `dir` is the      *)
(* directory as processes see it: the inode at the path and at each        *)
(* temporary name.  `ddir` is the directory as it is on the disk, some     *)
(* earlier `dir`.  `data` and `disk` are the same two views of the bytes.  *)
(* The file system is not part of the repository: it is modelled by what   *)
(* POSIX promises of create, write, fsync, rename and unlink.              *)
(***************************************************************************)
EXTENDS Naturals

CONSTANTS
  Calls,      \* the calls, each with bytes of its own
  Names,      \* the random 64-bit suffixes of temporary names
  Old,        \* the inode at the path before the first call
  None        \* no inode, no name drawn yet

ASSUME PrivateFileAssumption ==
  /\ Old \notin Calls
  /\ None \notin Calls \cup Names \cup {Old}

VARIABLES
  pc,         \* the system call each call is about to make, or how it ended
  name,       \* the temporary name each call has drawn
  dir, ddir,  \* the directory: visible, and on disk
  data, disk, \* how much of its bytes each inode has: visible, and on disk
  private,    \* whether the permission bits of the inode are owner-only
  pubAt,      \* history: when each inode was renamed into place, 0 for never
  clock       \* history: how many renames there have been

vars == <<pc, name, dir, ddir, data, disk, private, pubAt, clock>>

Inodes == Calls \cup {Old}
Running == {"draw", "create", "write", "sync", "mode", "rename", "remove", "syncdir"}
Ended == {"ok", "warned", "err", "errLeft", "dead"}
Amount == {"empty", "part", "full"}
Directory == [target : Inodes \cup {None}, temp : [Names -> Inodes \cup {None}]]

TypeOK ==
  /\ pc \in [Calls -> Running \cup Ended]
  /\ name \in [Calls -> Names \cup {None}]
  /\ dir \in Directory
  /\ ddir \in Directory
  /\ data \in [Inodes -> Amount]
  /\ disk \in [Inodes -> Amount]
  /\ private \in [Inodes -> BOOLEAN]
  /\ pubAt \in [Inodes -> Nat]
  /\ clock \in Nat

Init ==
  /\ pc = [c \in Calls |-> "draw"]
  /\ name = [c \in Calls |-> None]
  /\ \E t \in {Old, None} : dir = [target |-> t, temp |-> [n \in Names |-> None]]
  /\ ddir = dir
  /\ data = [i \in Inodes |-> IF i = Old THEN "full" ELSE "empty"]
  /\ disk = data
  /\ private \in [Inodes -> BOOLEAN]
  /\ pubAt = [i \in Inodes |-> 0]
  /\ clock = 0

Goto(c, label) == pc' = [pc EXCEPT ![c] = label]

\* Mutant: one name for every call, as with a fixed suffix.
UnusedNotNeeded(n) == TRUE

\* Two draws of 64 random bits do not meet.
Unused(n) == \A d \in Calls : name[d] # n

(***************************************************************************)
(* The steps of one call, in the order of the code.                        *)
(***************************************************************************)
\* A failure here returns at once: nothing has been created yet.
DrawName(c) ==
  /\ pc[c] = "draw"
  /\ \/ \E n \in Names : /\ Unused(n)
                         /\ name' = [name EXCEPT ![c] = n]
                         /\ Goto(c, "create")
     \/ Goto(c, "err") /\ UNCHANGED name
  /\ UNCHANGED <<dir, ddir, data, disk, private, pubAt, clock>>

\* create_new refuses an existing name.  The mode asked for is 0600, but a file
\* system without permission bits gives what it gives.
CreateTemp(c) ==
  /\ pc[c] = "create"
  /\ dir.temp[name[c]] = None
  /\ dir' = [dir EXCEPT !.temp[name[c]] = c]
  /\ \E b \in BOOLEAN : private' = [private EXCEPT ![c] = b]
  /\ Goto(c, "write")
  /\ UNCHANGED <<name, ddir, data, disk, pubAt, clock>>

WriteSome(c) ==
  /\ pc[c] = "write"
  /\ data[c] = "empty"
  /\ data' = [data EXCEPT ![c] = "part"]
  /\ UNCHANGED <<pc, name, dir, ddir, disk, private, pubAt, clock>>

WriteRest(c) ==
  /\ pc[c] = "write"
  /\ data' = [data EXCEPT ![c] = "full"]
  /\ Goto(c, "sync")
  /\ UNCHANGED <<name, dir, ddir, disk, private, pubAt, clock>>

SyncTemp(c) ==
  /\ pc[c] = "sync"
  /\ disk' = [disk EXCEPT ![c] = data[c]]
  /\ Goto(c, "mode")
  /\ UNCHANGED <<name, dir, ddir, data, private, pubAt, clock>>

\* Mutant: the permission bits are not looked at.
CheckModeSkipped(c) ==
  /\ pc[c] = "mode"
  /\ Goto(c, "rename")
  /\ UNCHANGED <<name, dir, ddir, data, disk, private, pubAt, clock>>

CheckMode(c) ==
  /\ pc[c] = "mode"
  /\ private[c]
  /\ Goto(c, "rename")
  /\ UNCHANGED <<name, dir, ddir, data, disk, private, pubAt, clock>>

\* rename moves whatever is at the temporary name.
Rename(c) ==
  /\ pc[c] = "rename"
  /\ dir.temp[name[c]] # None
  /\ dir' = [target |-> dir.temp[name[c]], temp |-> [dir.temp EXCEPT ![name[c]] = None]]
  /\ clock' = clock + 1
  /\ pubAt' = [pubAt EXCEPT ![c] = clock + 1]
  /\ Goto(c, "syncdir")
  /\ UNCHANGED <<name, ddir, data, disk, private>>

\* Mutant: an error leaves the function without the clean-up.
StepFailsNoCleanup(c) ==
  /\ pc[c] \in {"create", "write", "sync", "mode", "rename"}
  /\ Goto(c, "err")
  /\ UNCHANGED <<name, dir, ddir, data, disk, private, pubAt, clock>>

\* Mutant: an error of the directory sync is treated like the others.
StepFailsAfterPublish(c) ==
  /\ pc[c] \in {"create", "write", "sync", "mode", "rename", "syncdir"}
  /\ Goto(c, "remove")
  /\ UNCHANGED <<name, dir, ddir, data, disk, private, pubAt, clock>>

\* Any of the system calls before the publication may fail, a mode that is not
\* owner-only included; the clean-up is next.
StepFails(c) ==
  /\ pc[c] \in {"create", "write", "sync", "mode", "rename"}
  /\ Goto(c, "remove")
  /\ UNCHANGED <<name, dir, ddir, data, disk, private, pubAt, clock>>

\* `let _ = remove_file(..)`: an error of the clean-up is ignored.
RemoveTemp(c) ==
  /\ pc[c] = "remove"
  /\ dir' = [dir EXCEPT !.temp[name[c]] = None]
  /\ Goto(c, "err")
  /\ UNCHANGED <<name, ddir, data, disk, private, pubAt, clock>>

RemoveFails(c) ==
  /\ pc[c] = "remove"
  /\ Goto(c, "errLeft")
  /\ UNCHANGED <<name, dir, ddir, data, disk, private, pubAt, clock>>

\* Mutant: success is reported without the directory reaching the disk.
SyncDirSkipped(c) ==
  /\ pc[c] = "syncdir"
  /\ Goto(c, "ok")
  /\ UNCHANGED <<name, dir, ddir, data, disk, private, pubAt, clock>>

SyncDir(c) ==
  /\ pc[c] = "syncdir"
  /\ ddir' = dir
  /\ Goto(c, "ok")
  /\ UNCHANGED <<name, dir, data, disk, private, pubAt, clock>>

\* Mutant: an error is returned although the file is in place.
SyncDirFailsAsError(c) ==
  /\ pc[c] = "syncdir"
  /\ Goto(c, "errPublished")
  /\ UNCHANGED <<name, dir, ddir, data, disk, private, pubAt, clock>>

\* Reported, not returned as an error: the file is already in place.
SyncDirFails(c) ==
  /\ pc[c] = "syncdir"
  /\ Goto(c, "warned")
  /\ UNCHANGED <<name, dir, ddir, data, disk, private, pubAt, clock>>

(***************************************************************************)
(* The environment: the kernel writes back when it likes, a process may be *)
(* killed, the machine may lose power.                                     *)
(***************************************************************************)
FlushData(i) ==
  /\ disk[i] # data[i]
  /\ disk' = [disk EXCEPT ![i] = data[i]]
  /\ UNCHANGED <<pc, name, dir, ddir, data, private, pubAt, clock>>

FlushDir ==
  /\ ddir # dir
  /\ ddir' = dir
  /\ UNCHANGED <<pc, name, dir, data, disk, private, pubAt, clock>>

Kill(c) ==
  /\ pc[c] \in Running
  /\ Goto(c, "dead")
  /\ UNCHANGED <<name, dir, ddir, data, disk, private, pubAt, clock>>

PowerLoss ==
  /\ dir' = ddir
  /\ data' = disk
  /\ pc' = [c \in Calls |-> IF pc[c] \in Running THEN "dead" ELSE pc[c]]
  /\ UNCHANGED <<name, ddir, disk, private, pubAt, clock>>

CallStep(c) ==
  \/ DrawName(c) \/ CreateTemp(c) \/ WriteSome(c) \/ WriteRest(c) \/ SyncTemp(c)
  \/ CheckMode(c) \/ Rename(c) \/ StepFails(c) \/ RemoveTemp(c) \/ RemoveFails(c)
  \/ SyncDir(c) \/ SyncDirFails(c)

Next ==
  \/ \E c \in Calls : CallStep(c) \/ Kill(c)
  \/ \E i \in Inodes : FlushData(i)
  \/ FlushDir
  \/ PowerLoss

Spec == Init /\ [][Next]_vars

(***************************************************************************)
(* Properties.                                                             *)
(***************************************************************************)
\* What a reader finds at the path is always a whole file, now and after a
\* power loss at this instant: never empty, cut short or half old, half new.
TargetComplete ==
  /\ dir.target # None => data[dir.target] = "full"
  /\ ddir.target # None => disk[ddir.target] = "full"

\* No file that others can read is ever put in place by a call, whatever the
\* file system made of the mode asked for.
PublishedOwnerOnly ==
  \A d \in {dir, ddir} : d.target \in Calls => private[d.target]

\* A call that returned success without the warning stays visible across any
\* later power loss, unless a later call replaced it.
OkSurvivesPowerLoss ==
  \A c \in Calls : pc[c] = "ok" =>
    /\ ddir.target # None
    /\ pubAt[ddir.target] >= pubAt[c]

\* A call that returns an error has not become the file at the path, and its
\* temporary file is gone (errLeft: the error of the clean-up was ignored).
ErrLeavesNothing ==
  [][\A c \in Calls : pc[c] \in Running /\ pc'[c] = "err" =>
        dir'.target # c /\ \A n \in Names : dir'.temp[n] # c]_vars

\* No other call, its clean-up after an error included, takes away the temporary
\* file of a call that is under way.
OwnTempOnly ==
  [][\A c \in Calls : pc[c] \in Running /\ pc'[c] = pc[c] =>
        \A n \in Names : dir.temp[n] = c => dir'.temp[n] = c]_vars

(***************************************************************************)
(* The function implements an atomically replaced file.                    *)
(***************************************************************************)
Shown(inode, bytes) ==
  IF inode = None \/ bytes[inode] = "full" THEN inode ELSE "torn"

ResultOf(label) ==
  CASE label = "syncdir" -> "published"
    [] label = "errLeft" -> "err"
    [] label \in Running \ {"syncdir"} -> "running"
    [] OTHER -> label

Atomic == INSTANCE AtomicFile WITH
  file <- Shown(dir.target, data),
  stable <- Shown(ddir.target, disk),
  result <- [c \in Calls |-> ResultOf(pc[c])]

\* Every behaviour of the system calls, crashes included, is one in which the
\* path is replaced by whole contents in single steps (the doc comment of
\* write_private_file: "Publish bytes at path atomically").
AtomicSpec == Atomic!Spec
=============================================================================
