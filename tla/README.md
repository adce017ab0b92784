# A verification development for axiom-cli

TLA+ models of `axiom`, the command-line program of AxiomVault, with TLC
configurations that model-check them and TLAPS proofs of the results that matter
most. Paths below are relative to the repository unless they name a `.tla` or
`.cfg` file; `raid.rs:456` means `src/commands/raid.rs`, line 456.

## 1. The system

The program is a thin client: cryptography, the vault format, the storage
providers, the sync engine, FUSE and WebDAV come from the `axiomvault-*` crates,
which are another repository. What this repository decides itself is *when* and
*in which order* it reads, changes and writes state: files that hold secrets, the
configuration of a RAID set, an OAuth conversation, a mount's life. There is no
lock anywhere: two `axiom` processes over one vault interleave freely.

| component | state it keeps | operations | hard behaviour | what makes it correct |
|---|---|---|---|---|
| `private_file.rs` | one file, its temporary file | `write_private_file` | failure at each system call, kill, power loss, several writers | the path is always whole, owner-only, replaced in one step; success is durable |
| `commands/raid.rs` | `raid.json` (mode, members, key), the shard map on every member | add-backend, remove-backend, configure, rebuild, status | two stores written one after the other, partial saves, roll-back, crashes, concurrent commands, re-indexing | one key for the life of a set; map and configuration agree; no position past the end; stored data stays readable |
| `commands/remote_oauth.rs`, `gdrive.rs`, `dropbox.rs` | the callback port, one connection, the token file | auth, create, open | late, repeated and stray callbacks, silent peers, time limit, failed exchange or save | success only after the save, failure leaves the file alone, only the flow's own code, foreign files kept |
| `commands/vault.rs`, `password.rs` | a new vault, the `--recovery-out` file, the password file | create, open, list, add, extract, ... | a check before long prompts, the write after them; a vault whose recovery key could not be written; a password file swapped while it is read | an existing file is not overwritten; a failed command says what it left; a password comes from one private file |
| `commands/recovery.rs`, `hardware_key.rs` | the vault configuration | change-password, show-key, reset, enroll, remove, test, open | read-change-write without a lock, a configuration read before a prompt and used after it | a change that was reported is undone only by a command that was past its last prompt by then |
| `commands/fuse.rs`, `webdav.rs` | one mount or server | mount, serve | signals against start-up, a poll against signals, external unmounts, mounts stacked over each other | a mount outlives its process only if that was killed or could not install a handler; a signal or an external unmount ends the command |
| `commands/mount_list.rs` | none: reads `/proc` and the mount table | list | several reads of a moving target; command lines and mount names read back from text | one row per process that stayed, none for what never ran; "listening" and "mounted" are true |
| `commands/sync.rs`, `conversions.rs` | `sync_config.json`, staging directory | sync, status, conflicts, resolve, configure | a file written in place, by overlapping runs, one of which may break off | the file is the last undisturbed run's; a refused run leaves the disk alone |
| `commands/vault_list.rs`, `check.rs`, `icloud.rs` | none | list vaults, check, create/open | a bounded walk over a tree that changes; a file examined and then opened | bounds are kept, nothing that stood is missed, rows are true |
| `cli.rs`, `dispatch.rs`, `main.rs`, `completions.rs` | none | argument definitions, routing, start-up | `mount list` reads the same command lines with a parser of its own | both readings agree |
| `install.sh` | the installed binary, the shell profile | install | interruption, repeated runs | a profile block once; the binary replaced whole |

Interactions: `raid.rs`, `remote_oauth.rs` and `password.rs` all publish their
files through `private_file.rs`. Their models therefore take "the file is
replaced in one step, or the call fails and nothing changed" as one action, and
`PrivateFile` with its refinement of `AtomicFile` is what justifies it. `mount list`
has no connection to the processes it lists but what the kernel tells it: `MountList`
runs over `MountLife`, the outside of a mount process, and `Mounts`, the inside, is
shown to implement it.

## 2. Modules

| module | models | proofs |
|---|---|---|
| `AtomicFile` | the promise of `write_private_file`: a file replaced in one step | refined by `PrivateFile` |
| `PrivateFile` | `write_private_file`, one action per system call | `PrivateFileProofs` |
| `RaidPool` | the RAID commands of `raid.rs` | `RaidPoolProofs` |
| `OAuthFlow` | `complete_oauth_flow_on`, the exchange and the token save of the two `auth` commands | `OAuthFlowProofs` |
| `VaultAccess` | create, open, show-key, change-password, reset and the hardware-key commands | `VaultAccessProofs` |
| `MountLife` | what a mount process shows to others: it starts, serves, is gone; the mount table | refined by `Mounts` |
| `Mounts` | `mount fuse` and `mount webdav` (`fuse.rs`, `webdav.rs`) | `MountsProofs` |
| `MountList` | `mount list` (`mount_list.rs`) over `MountLife` | `MountListProofs` |
| `MountInfo` | a line of the mount table, written by the kernel and read by `parse_mountinfo` | `ReadersProofs` |
| `CommandLine` | the command lines of `axiom mount` (`cli.rs`) and `parse_args` of `mount list` | `ReadersProofs` |
| `VaultList` | `vault list` (`vault_list.rs`) | `VaultListProofs` |
| `PasswordFile` | the reading of `--password-file` (`password.rs`) | `ReadersProofs` |
| `SyncConfig` | `sync configure` (`sync.rs`, `conversions.rs`) | `ReadersProofs` |
| `HardwareResponse` | the decoding of a hardware key's response (`hardware_key.rs`) | `ReadersProofs` |
| `MCPrivateFile`, `MCRaidPool`, `MCOAuthFlow`, `MCVaultAccess`, `MCMounts`, `MCReaders` | the instances TLC checks | |

Operators whose comment begins with "Mutant:" are deliberately wrong variants of
the definition that follows them. They are used nowhere; putting one in place of
its neighbour makes TLC report the property named in `PROJECT.json`.

### PrivateFile and AtomicFile

Any number of calls write to one path. `pc` is the system call a call makes next:
draw the random suffix, create with `create_new`, write (in two parts), fsync,
look at the permission bits, rename, remove after an error, sync the directory.
The directory and the bytes are kept twice, as processes see them (`dir`, `data`)
and as they are on disk (`ddir`, `disk`). The kernel copies the first to the second
when it likes (`FlushData`, `FlushDir`); `SyncTemp` and `SyncDir` force it;
`PowerLoss` copies back and ends every call. `Kill` ends one call anywhere.
`private` is what the file system made of mode 0600, either value.
`err`/`errLeft` tell apart an error whose clean-up worked from one whose clean-up
failed, which the code ignores (line 56); `warned` is success with the warning of
line 68. Assumption: two draws of 64 random bits differ (`Unused`). A directory
reaches the disk as a whole, as a state it had; a file system that reorders entries
of one directory is not modelled.

`AtomicFile` has only the file a reader sees, the file that survives a power loss,
and each call's result. `AtomicSpec` is `AtomicFile!Spec` under the mapping
`Shown`, which maps a file that is not whole to a value that is no content: a torn
file at the path would be a step the abstract specification does not have.

### RaidPool

Variables: `cfg` (raid.json), `maps` (the copy of the shard map on each location),
`shards` (what each location holds), and per process `pc` and `job` (what its
command has read and computed). A command is cut at each of its reads and writes:

| command | steps |
|---|---|
| add-backend | `AddLoad` (read, append, decide), `AddLoadMap`, `AddSaveMap` (errors are warnings), `SaveCfg` |
| remove-backend | `RemLoad` (checks), `RemLoadMap` (load, back up, re-index), `RemMigrate`/`RemMigrateFails` (erasure), `RemSaveMap` (step 1), `RemSaveCfg` (step 2) or `RemSaveCfgFails`, `RemRollback` |
| configure | `ConfigureLoad`, `SaveCfg` |
| rebuild | `RebuildLoad`, `Rebuild` |

`Stop`, `StopInPush` and `CrashBetweenWrites` are the failures and crashes between
and inside those steps; `Upload` and `Damage` are the clients and media around the
set. status only reads. The code's positions count from 0 and so do the model's;
`At` converts to the sequence. The map keeps, per object, the set of positions;
checksums and locations of shards are left out.

`CompositeStorageProvider` and `RaidRebuilder` are external. Assumed of them, from
the calls and the tests of `raid.rs`: a map is loaded as the highest version on any
member that verifies under the set's key; it is empty if no member has one, and an
error if members have maps and none verifies; a save succeeds when every member took the map; a
rebuild writes back shards that another position still holds; an upload writes to
all members of a mirror and to the first k + m of an erasure set. Whether an erasure set
must have exactly k + m members is a constant (`StrictErasure`), as the
repository does not say.

History variables: `stored` (which positions were really given each object, moved
along when the configuration is) and `torn` (a removal ended between its two writes
or inside one of them).

### OAuthFlow

Flows are runs of an auth command with one `--output`. The callback port is the
variable `port`; a connection reaches the flow that holds it (`peer`) and waits to be
accepted. A flow accepts one connection, reads once and decides. `Received` is all
of the request or a first part of it (the code reads once, 4096 bytes). `Request`
keeps whose state parameter the callback carries and whether it has a code, an error
or neither, which is all `parse_callback` distinguishes. The environment sends the
callback of any page that was opened, repeatedly and late, and strays; it may also
send nothing, ever. Another program may write to the output path at any time.
The choice among waiting connections is left open (the kernel makes it).

### VaultAccess

Commands (`Proc`) run at once over several places for a vault (`Location`). `vault` is
the configuration stored at each: the password that opens it, its recovery key (named
after the command that made it) and its hardware key. `out` is what lies at one path
that every command was given as `--recovery-out`. `pc` is where a command is, `job`
its arguments and what it was told and loaded.

| command | steps |
|---|---|
| create | `Create` (first check of the path or of the terminal), `NewPassword`, `MakeVault`, then `Recheck` and `Publish`, or `Show` |
| create on gdrive, dropbox, icloud | `GDriveCreate` ... (terminal), `NewPassword`, `LoadTokens` (not icloud), `MakeVault`, `Show` |
| open and the content commands | `Use` or `GDriveOpen` ..., `LoadTokens`, `OpenVault` |
| show-key | `ShowKey` (terminal), `OpenVault`, `Show` |
| change-password | `ChangePassword`, `NewPassword`, `OpenVault` (and the change in memory), `SaveConfig` |
| password reset | `Reset`, `NewPassword`, `OpenWithWords`, `SaveConfig` |
| hardware-key enroll, remove | `Enroll`, `ReadResponse` or `Remove`, `ReadPassword`; then `OpenVault`, `SaveConfig` |
| hardware-key test, open | `LoadConfig` (before the prompt), `Respond` (after it) |

`GivesUp`, `MakeVaultFails`, `SaveFails` and `Kill` are the errors and kills between them;
`MakeVaultFails` and `SaveFails` are errors after which the vault or the change is there all
the same. `NewPassword`, `ReadResponse` and `ReadPassword` stand for the answers to all of a
command's prompts: nothing is read or written between the first and the last. A place
`failedMade` tells the error of `vault.rs:75`, which says that the vault exists, from any
other. `OtherProgram` puts files at the path and takes them away.
`hardware-key status` only reads.

The vault crate is external. Assumed of it, from the calls and their error texts:
`create_vault` makes a vault only where there is none, whole, and may fail after it did;
`open_vault` and
`recover_vault` load the stored configuration if the credential fits; `save_config`
stores the session's whole configuration; a change of the password or of
the hardware key leaves the recovery key as it is. Whether `save_config` refuses a
session that is no longer current is not said in this repository: the model's refuses
nothing, and since a save may also fail, the behaviours of one that does are among
its own. `recover_vault` is a load and a save like the others. That a recovery key goes on
opening its vault (`GivenKeyOpens`) rests on the assumption about changes; what the run adds
is that no order of this repository's saves takes one away.

History variables: `made`, `written` and `shown` (what commands did), `taken` (whose
path was never free), `blind` (which commands about to publish had their file come
after they looked), `valid` (what fitted a command's vault at some time since it began),
`told` and `over` (which changes had been reported when a command's last prompt was
answered, and when it stored its session).

### MountLife and Mounts

`pc` is where a process is: asking for the password, with its vault open, mounted, with
the handler of SIGTERM, then SIGHUP, installed (`InstallTerm`, `InstallHup`), in a turn
of the loop that has not polled its `ctrl_c()` yet (`turn`) or has (`wait`), out of the loop
(`unmounting`, `joining`) or ended in one of four ways. A WebDAV process is `listening` instead.

| code | actions |
|---|---|
| `fuse.rs:16-56`, `webdav.rs` | `Start`, `OpenVault`, `GivesUp`, `Mount`, `Serve`, `ServeEnds` |
| handlers, 58-63 | `InstallTerm`, `InstallHup`, `InstallFails` |
| the `select!` loop, 64-79 | `Select` (the `ctrl_c()` future is polled for the first time), `Wake` (a signal branch), `Tick` (the poll) |
| 80-90 | `Unmount`, `Join` |
| the FUSE thread | `ThreadEnds` |

`caught` holds the signals a stream or future of the loop has received; `Signal` ends a
process that has no handler for it. External, and modelled from how the code uses it:
the kernel's mount table (mounts of one point lie over each other, `Detach` takes the top
one, a dead process's mount stays), the `AutoUnmount` helper, which goes with
`--allow-other` only, the thread and the unmount of the `axiomvault_fuse` crate, and
tokio's signals. A `Signal` stream keeps what arrives between two polls of it; a
`ctrl_c()` future hears only what arrives while it exists. `select!` polls its
branches in random order and stops at one that is ready, so a turn may end before `ctrl_c()`
was polled: the interval's first tick is due at once. SIGINT's handler is installed with
the first poll of such a future (`sigint`) and stays; until then a Ctrl+C ends the process.

`MountLife` keeps of all that the life of a process and the table. `ImplementsLife` is its
specification with `state` taken from `pc` by `Seen`.

### MountList, MountInfo and CommandLine

A listing is cut at every read: `ReadCmdline` and `ReadCwd` for each process in order of
ids (Linux), `ReadFds` and `ReadTcp` for each WebDAV process, one `ReadTable`; on macOS
one `Ps` and one `Lsof` for each WebDAV process (FUSE is not listed there). Between any
two of them `MountLife` goes on, until the last read: what follows it (`PlaceMount` for each
mount, `PlaceWaiting` for each fuse process left over, `SortRows`) looks at nothing outside. `claims` are the processes found, each with the mount
point its command line names: `names` is nothing for a path the kernel spells otherwise or
a relative one of a process that is gone. `waiting` is `fuse_procs`: the fuse claims that
have no mount yet. `Sorted` puts a row at the place its kind, its process and, among equals,
its old place give it (`sort_by_key` is stable). A mount table that cannot be read (or is not UTF-8) counts as empty, as in the code: the
second outcome of `ReadTable`, which the history variable `blank` remembers. What hides a
process's descriptors or sockets from its own user is not modelled. The history variables `steady` and `ever` hold what was there all the time and at
some time. Command lines, `/proc/net/tcp`, `ps` and `lsof` are read as what they mean.

`MountInfo` is the text of one line of the mount table, byte by byte, since the property is
about the escapes: `InfoLine` is the kernel's writer (external), `parse_mountinfo` and
`unescape_octal`, whose loop turns by `Unescape`, the reader. Names are ASCII; types and
optional fields are printable and none of the latter is a lone hyphen. `CommandLine` builds every command line of `axiom mount` that
clap takes, one argument at a time (`Type`; clap's rules are external, the declarations
they apply to are those of `cli.rs`), and reads it with `parse_args`: `loop` is what the
loop of that function has after the arguments so far. An argument is its
form and its value. Values that begin with a hyphen are `Hyphened`: clap takes them attached
to an option or after `--`, and detached only if they are no more than the hyphen
(`MayBeWord`); `parse_args` has rules of its own for them (`GivesPath`, `IsWord`).

### VaultList

`walk` is a recursion with a loop at each level; the model is its stack of directories
still to visit. Each system call is a step: `Check` (is there a `vault.config`),
`List` (`read_dir`), `Stat` (lstat of one entry), `Push` (the children, sorted, go on the
stack), then for each vault found `LstatConfig` and `OpenConfig`. `Change` is another
program that puts something else at a path. A path is the sequence of the numbers its names
sort by; behind a link lies what the tree holds below the link's path. Directories can be
read. `always` and `sometime` are what was true of the tree from the start until now,
and at some time.

### PasswordFile

`StatPath` (the path), `OpenPath`, `Fstat` (the open file), `ReadMore`,
`UsePassword` (strip the line ending, refuse an empty password or an open mode). Others
`Swap` what is at the path, `Chmod` and `Rewrite` files. `shown` is what each file was at
some time. Bytes are a carriage return, a newline or another.

### SyncConfig

`Validate`, `MakeDir`, `Truncate` (the open of `fs::write`), `WriteCells` (its write calls),
`Written`; `BreakOff` is an error or a kill between them. The text of a configuration is as
many cells of its mode as it has blocks, so that a short text over a long one, a mixture
and a cut can be told apart. No command of this repository reads the file.

### HardwareResponse

`decode_hardware_secret` and `decode_hex_secret` as operators on what was typed so far,
with the filter stated by places: what is `Kept` goes where its rank among the kept is;
characters are kept by what the code does with them: digits, the prefix `hex:`, white space
that `is_ascii_whitespace` knows and white space that only `trim` knows, underscores, others.

## 3. What TLC checks

| run | instance | result |
|---|---|---|
| `private_file` | 2 calls, 2 names | all six hold |
| `raid_pool` | 1 process, 3 locations (a location may be added twice), up to 4 members, 1 object, 2 keys, mirror and erasure 1+1, map versions up to 3, every failure and crash, damaged shards | all five hold |
| `raid_mirror_claim` | 1 process, 4 locations, mirror, no failure | `StoredStaysReadable` is violated |
| `raid_atomic_commit` | as above, 3 locations, crashes | `MapMatchesConfig` is violated |
| `raid_key_stays` | 2 processes, no failure | `ConfigKeyStays` is violated |
| `oauth_flow` | 2 flows, 3 connections | all five hold |
| `oauth_stray_request` | 2 flows, 2 connections | `OnlyOwnStateEnds` is violated |
| `vault_access` | 2 commands, 2 places, 2 passwords, 2 hardware keys | all eight hold |
| `vault_overwrite` | 2 commands, 1 place | `NeverOverwritten` is violated |
| `mounts` | 2 processes (FUSE with and without `--allow-other`, WebDAV), 1 point, 1 mount of another program, 2 acts of others | all five hold |
| `fuse_ctrl_c` | 1 process | `CtrlCUnmounts` is violated |
| `readers` | seven parts, see below | all eleven hold |

`private_file`: `PublishedOwnerOnly`, `OkSurvivesPowerLoss`, `ErrLeavesNothing`,
`OwnTempOnly` and the refinement `AtomicSpec`, under which the path is whole, now and after
a power loss (`TargetComplete` states that part alone and is proved). Two calls are enough for every conflict over the path and over a name.

`raid_pool`: `SealedByKeyOnDisk` (a map never lies on a member under a key that
is not yet in raid.json, because the first backend is saved before there is a composite),
`NoDanglingPosition` (the map the next command loads never points past the
configuration: this is what writing the map first buys), `MatchUnlessTorn` (map
and configuration agree about every object unless a removal was cut off between or
inside its writes; a removal that fails and rolls back leaves them agreeing) and
`ConfigKeyStays`. Four members let a removal happen at either end and in the middle
with one to spare; three versions cover upload, removal, removal; `Damage` gives
rebuild work. The run starts from no set, from a location with another set's map, and from
a configuration without a key.

The three RAID violations are what the code does against what its comments say:
a mirror's members added after an upload hold no data, so removing the original ones
loses it (`raid.rs:307-308`, `369-372`); "step 1/2 of atomic commit" (455, 458) is
not atomic under a crash; and two overlapping first `add-backend`s each create a
set, the later one replacing the key the earlier one asked the user to back up (248, 291).

`oauth_flow`: `ReportsAreTrue` (success is told only of saved tokens, and an answer the
browser does not take does not turn success into failure), `OwnAuthorizationOnly`,
`ReplacesOnlySeen` and the liveness property `EndsUnlessPeerSilent`. Three connections allow a stray, a late and a repeated
callback at once. `oauth_stray_request` shows that the first request to arrive, whatever it
is, ends the flow: the state check comes first but its failure is final.

`vault_access`: `NoVaultForTakenFile` (a file at the path all along is found before
there is a vault), `CreateSaysWhatItDid` (each of the three ways a create can end tells the truth about the vault and its key),
`GivenKeyOpens` (no save of another command, current or stale, takes away a recovery
key that was handed out), `PrintedOnlyToTerminal`, `OpenedByValid` (a configuration
read before a prompt is old by no more than the command), `SuccessIsStored` and
`ReportedChangeStays`: a password or hardware-key change that was reported is in force until
the same part is changed again, or until a command saves that was past its last prompt at
the report. The last is what saving without a look costs: an enrolment that has opened the
vault brings the old password back over a change that was reported meanwhile, unless
`save_config` refuses it. But every command asks for all it needs before it opens the vault
(`hardware_key.rs:23-40`, `recovery.rs:31-49`), so nobody who is still at a prompt can undo
a change; the mutant that opens first and asks then breaks this with two commands. Two commands are every pair that can conflict; two passwords and two keys
let one change undo another; two places let two creates both succeed. Of the two
commands one has a terminal. Places, passwords and hardware keys are interchangeable
(symmetry).

`vault_overwrite` lets a file appear after the second check and
sees it replaced: `README.md:125`, `cli.rs:154` and the message of `password.rs:136` say
"never", the comment at `password.rs:151-152` says it can happen.

`mounts`: `LeftBehind` (a mount without its process was left by one that was killed, that
died of a signal it did not handle yet, or that failed to install a handler; never by one
that reached its unmount), the refinement `ImplementsLife`, and under fairness
`SignalUnmounts` (SIGTERM or SIGHUP, once received, ends the command, also when the poll is
taken first) and `OutsideUnmountEnds`. Two processes on one point give one mount over the
other: there the upper one's unmount lets the lower one live, and a process whose
mount is covered unmounts the other's and waits for its thread. That is why
`SignalUnmounts` excepts a mount that is `Covered`. Two acts let others mount and unmount.
The processes are alike: of two beginnings that differ in their names one is explored
(`InOrder`).

`fuse_ctrl_c`: after mounting the command says "Press Ctrl+C to unmount" (`fuse.rs:56`). A
press that arrives between two turns of the loop, or that the dropped `ctrl_c()` future
had heard when the poll's branch was taken, is heard by nobody and the command serves on.
SIGTERM and SIGHUP have streams made once and are not lost.

`readers` puts seven parts that have nothing to do with each other into one run
(`MCReaders`): each behaviour is of one part, `part`, and the others stay in one initial
state, so the run is the sum of seven runs and no more.

- `MountList`: two processes, a point under the home directory and one elsewhere, one mount
  of another program, four kinds of command lines (one spelled relatively, one otherwise,
  one of another user, one WebDAV). The order of the two processes is the only difference
  between pairs that are left out. `ProcessRowsTrue` (`ProcessesListedOnce` and
  `ListeningIsTrue`) and `MountRowsTrue` (`MountsCounted` and `OwnerFound`) say what the rows
  can be relied on for, although everything is read at a different time: what was there all along is listed, what was there
  at no time is not. `OwnerFound` needs a path spelled as the kernel spells it and no other
  process on the point; otherwise a mounted process may be listed as starting. It and the
  lower of the two counts need a mount table that could be read.
- `VaultList`: a root with two children and two grandchildren, every pair of roots that
  overlap, depth 1 (so that a vault can lie too deep), one change by others at any moment.
  `StandingFound` (a vault that stood all the time is found whatever changes around it),
  `FoundInReach` (nothing too deep, none twice or inside another, never through a link or
  onto another file system that stood there) and `RowsTrue`.
- `PasswordFile`: two files, a pipe, a directory, five texts, two acts of others:
  `PasswordAsWritten` (never the text of one file on the mode of another, and nothing of
  its line ending). Two acts are a swap and a swap back.
- `SyncConfig`: three runs, three modes: `ConfigIsLast`. Three runs
  let two overlap and a third repair what they left.
- `CommandLine`: every line of up to six arguments, of words called like commands, a value, a
  lone hyphen and one with more after it: `ParsedAsRun`. Six are enough for the longest form
  of the serving commands with one option too many. Two lines are read otherwise than they
  run, and the property names them: a path that begins with a hyphen and is attached to `-p`
  is listed as none (`mount_list.rs:81`), and so is a lone hyphen as mount point (83).
- `MountInfo`: every name of up to five bytes after the slash's, of space, backslash, hyphen,
  plus and two digits: `NamesSurvive`. Five bytes hold an imitated escape and one more.
- `HardwareResponse`: everything of up to six characters with a floor of two bytes (the
  code's is larger; nothing else depends on it): `EveryDigitCounts`.

`PartsTypeOK` is the type invariant of the four parts that have state worth one. That a
behaviour of this run is one of each part, so that the theorems about the parts speak of it,
is itself proved (`PartsAreAlone`).
Deadlock checking is off in all runs: calls, commands, flows and listings are finite and
the systems rightly come to rest.

**Fairness.** `OAuthFlow!FairSpec` has weak fairness of each flow's own
steps. The runtime polls a task that can run, `accept` is under a five-minute limit,
and the exchange ends with a token or an error (the HTTP client is external; that it
returns is assumed). No fairness is assumed of peers, users or other programs, so the
property has to admit the one wait without a limit: the read from an accepted connection.
`Mounts` has weak fairness of what a process does by itself and of the end of its thread,
and strong fairness of `Wake`: `select!` polls its branches in random order, so a
signal that stays received is looked at before the poll's branch has won for ever. Nothing
is assumed of users, passwords and other programs. The claim tested by `fuse_ctrl_c` is
refuted under the same fairness.

## 4. What is proved

TLAPS checks every proof; the theorems hold for every value of the constants that
satisfies the modules' assumptions.

`PrivateFileProofs` - for any number of calls, with crashes: `TypeCorrect`, the five
safety properties, and `ImplementsAtomicFile`. The properties are not inductive by
themselves. `Inv` adds who owns a temporary name (`Owner`: so that rename moves the
caller's own file), what is already on disk when a call comes to the rename
(`Secured`), that a call before its rename is at no path (`Unpublished`), that both
views of the path are whole (`Whole`) and that the disk is never ahead of the
visible directory (`Order`).

`RaidPoolProofs` - `TypeCorrect` for any number of processes; `MapsAreSealedByTheKey`,
`TheKeyStays`, `NoPositionDangles` and `MapAndConfigAgree` for one process, any
locations, objects, keys, modes and bounds, with every failure and crash. One process is
necessary: `raid_key_stays` is the counterexample for two. The inductive invariant
`PoolInv` describes, for each place a command can be in, what the newest map on the
members says relative to the configuration: the same (`Settled`), or one
re-indexing ahead of it after a push, whole or partial.

`OAuthFlowProofs` - for any number of flows and connections: `TypeCorrect`,
`ReportsTell`, `CodesAreOwn` and `ReplacesWhatItSaw`. Two facts carry them: the flow under way is the one that holds
the port, and the connection it answers reached its own listener.

`VaultAccessProofs` - for any number of commands, places, passwords and keys:
`TypeCorrect`, `TakenFileStopsCreate`, `CreateIsTruthful`,
`RecoveryKeysWork`, `WordsStayOnTerminals`, `OnlyValidOpens`, `ReplacesUnseen`,
`SuccessStores` and `ChangesStay`. `Inv` says of each
command which places go with which command (`Routed`), what it made (`Made`), what it
printed (`Printed`), what it holds of a configuration (`Held`), what fits (`Fits`) and
what it saw at the path (`Seen`). The lemma `Others` is the heart of it: a step of one
command leaves these facts of the others alone as long as no stored recovery key
changes, and none does, since a session that is saved holds the key that is stored.
`ChangesStay` has an invariant of its own on top, `Kept`: a session that is about to be saved
has every change that was reported before its command's last prompt, unless that was undone
by then (`Fresh`), and what a command was told stays reported (`Past`).

`MountsProofs` - for any processes, points, command lines and other programs: `TypesHold`,
`OnlyTheDeadLeaveMounts` and the refinement `MountsImplementLife`. `LeftBehind` becomes
inductive with `Threads`: a thread that has ended is one of a process that did mount. The
refinement needs the types only; each action is mapped to the step of `MountLife` it is.

`VaultListProofs` - for any finite tree, roots, depth and changes: `WalkTypes`,
`WalkStaysInReach`, `WalkMissesNothing`, `RowsTell` and `OnlySwapsBlockTheWalk` (the
listing waits on a pipe only if it was put there after the file was examined). The stack carries the proof. What is found and what is still to
visit lie one behind the other in the order of the walk (`InOrder`), which a push of the
sorted children keeps because a child lies where its directory lay; what waits was reached
over real directories (`Ways`); and every vault that stands is found, or below something
that waits and, once that is being read, below an entry not yet looked at or kept
(`Covered`). Changes of the tree only take facts out of `always`, so nothing new stands.

`MountListProofs` - for any finite sets of processes and of other programs' mounts, on both
systems, while everything starts, ends, mounts and unmounts between two reads: `ListTypes`,
`ProcessRowsHold`, `MountRowsHold` and the invariant `ListInvariant`. Nothing but the types
is inductive by itself. `LInv` follows a process to its row: it is ahead of the scan, or a
claim, or a fuse claim that waits, or a row, and never two of these (`OneState`, `ClaimInv`);
what was seen of it was so at some time, and what is steady is still so (`RememberedMounts`,
`RowInv`, `StageInv`); the table read holds every steady mount, unless it was `blank`, and none that never was
(`ReadInv`); and there is a function from the rows with a mount point to entries of the
table that takes no two rows to one and reaches every mount of a process placed so far
(`Entries`): the two counts of `MountsCounted` are injections into and out of it.
`OwnerInv` says that a mounted process that alone asks for its point has the row of its
mount, or that its claim still waits and its mount is still to come. `SortedIsPermutation` is what the sort needs: the places of `Sorted`
are each taken once.

`ReadersProofs` - the small readers and writers:

- `PasswordFile`, for any files, texts and number of changes: `PasswordTypes`,
  `PasswordIsAsWritten` and `OnlySwapsBlock` (the reading waits on a pipe only if it was put
  there after the path was examined). What has been read is a beginning of the open file as
  long as nobody rewrites it, and its mode was that file's at some time.
- `SyncConfig`, for any number of runs: `SyncTypes`, `LastRunWins` and `RefusedIsHarmless`.
  Unless something is torn, one run at most is writing and the file is the part of its text
  it has written.
- `CommandLine`, for any values and any number of arguments: `ParsedAsItRuns`. The two
  parsers take the same arguments one by one, and `LineInv` (`LoopKeepsStep`) ties what
  `parse_args` has to what clap has: the option that waits for its value, the words, the
  vault (`Tallies`: the same, or none if its path was `Attached` to `-p`); only of the commands of a vault is the first word all that matters.
- `HardwareResponse`, for any digits, floor and length: `DigitsCount`. The filter is stated by places,
  so this is arithmetic of ranks: those that are kept after the prefix and the digits that
  were typed have the same order.
- `MountInfo`, for names of every length, any optional fields and types: `NamesAreKept`, from
  `EscapesUndone` (`unescape_octal(Mangle(n)) = n` over all 256 bytes) and `LineParsed`. A
  name is told from the separator because its escaped form is unescaped to itself.
- `PartsTypes`: `PartsTypeOK` of the run `readers`, for any constants.

`MountInfo` is recursive over sequences, and what its functions give for every sequence is
proved although the library's induction theorems cannot be used. Induction here is over a
set: from the well-foundedness of `<` on the naturals (`NatLessThanWellFounded`) a set that
holds 0 and with a number its successor holds them all (`SetInduction`), and
likewise for sequences and their fronts (`SeqInduction`). That a recursive function
satisfies its definition needs a function that does, and `Recursion` and `SeqRecursion`
make one.

What the proofs assume is what the modules state: `ListAssumption` (finitely many processes
and foreign mounts, as a kernel has; the listing's counts are cardinalities),
`MountInfoAssumption` (ASCII names and printable kernel fields), and the like in the other modules.

Only model-checked: the liveness properties `EndsUnlessPeerSilent`, `SignalUnmounts` and
`OutsideUnmountEnds` (liveness under fairness is beyond the prover), and the violations. Every
safety invariant and action property of a passing run is the statement of a theorem. Proved
but in no run are `OnlySwapsBlockTheWalk` and `OnlySwapsBlock`, which bound when a reader can
hang on a pipe.

## 5. What is not modelled, and the plan

Left for later:

1. `RaidPool` with two processes beyond the key: which entries of `raid.json` two
   overlapping commands lose. Refinement: one removal implements an atomic removal when
   nothing crashes.
2. `Installer`: `install.sh`, its idempotent profile edit and the replacement of the binary.

Left out for good: the text formats of `/proc/net/tcp`, `ps` and `lsof`, whose fields the
code picks by position and the models read as what they mean; the sync, status, conflicts
and resolve commands, which build an engine of the sync crate and print what it says;
`check`, likewise of the vault crate; `agent`, which hands over to another crate; the rest of
the argument definitions, the dispatcher and the completions, which have no state; the
output of `status` and of the progress bar; the vault, storage, sync, FUSE and WebDAV
crates, which are not in this repository; the release scripts and workflows, which do not
run with the program.
