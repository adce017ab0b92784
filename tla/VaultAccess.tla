----------------------------- MODULE VaultAccess -----------------------------
(***************************************************************************)
(* The commands that create a vault, open it with a password, recovery     *)
(* words or a hardware key, and change how it is opened: vault.rs,         *)
(* recovery.rs, hardware_key.rs, the create and open commands of the three *)
(* remote providers, and the prompts and the --recovery-out file of        *)
(* password.rs.                                                            *)
(*                                                                         *)
(* Commands run at the same time in any number and take no lock.  A        *)
(* command waits for its user between its checks and its writes, works on  *)
(* the configuration it loaded, and saves the whole of it.  The vault      *)
(* crate is external: create_vault makes a vault where there is none, or   *)
(* fails and leaves one all the same; open_vault and recover_vault load    *)
(* the configuration if the credential fits, save_config stores it.  A     *)
(* change of the password or of the hardware key leaves the rest of a      *)
(* configuration as it was loaded.                                         *)
(* Publication of the recovery file is one step (see PrivateFile).         *)
(***************************************************************************)
EXTENDS Naturals

CONSTANTS
  Proc,             \* runs of `axiom`
  Location,         \* places where a vault can be
  Password,
  Secret,           \* responses of hardware keys
  OldKey,           \* the recovery key of a vault that was there before
  Foreign,          \* a file no create command wrote
  None,             \* no vault, no hardware key, no file, nothing entered
  Terminals         \* runs whose standard output is a terminal

\* A vault's recovery key is named after the command that made it.
Key == Proc \cup {OldKey}
Config == [pw : Password, rec : Key, hw : Secret \cup {None}]

ASSUME VaultAssumption ==
  /\ Terminals \subseteq Proc
  /\ OldKey \notin Proc
  /\ Foreign \notin Proc
  /\ None \notin Key \cup Password \cup Secret \cup {Foreign} \cup Config

VARIABLES
  vault,    \* the configuration stored at each location
  out,      \* what is at the --recovery-out path all commands were given
  pc,       \* where each command is
  job,      \* its arguments, what it was told and what it loaded
  made,     \* history: create commands whose create_vault returned a vault
  written,  \* history: create commands that published the recovery file
  shown,    \* history: which command printed which recovery key
  taken,    \* history: commands since whose start the path was never free
  blind,    \* history: commands that saw the path free before its file came
  valid,    \* history: what fitted the vault at any time since a command began
  told,     \* history: changes reported before a command's last prompt was answered
  over      \* history: changes reported before a command stored its session

files == <<vault, out>>
record == <<made, written, shown, taken, blind, valid>>
changed == <<told, over>>
history == <<record, changed>>
vars == <<vault, out, pc, job, made, written, shown, taken, blind, valid, told, over>>

Credential == Key \cup Password \cup Secret
Creates == {"create", "gdriveCreate", "dropboxCreate", "icloudCreate"}
\* Commands that open a vault with its password.
Uses == {"use", "gdriveOpen", "dropboxOpen", "icloudOpen"}
Changes == {"change", "enroll", "remove", "reset"}
Responds == {"hwTest", "hwOpen"}
Command == Creates \cup Uses \cup Changes \cup Responds \cup {"showKey"}
Remote == {"gdriveCreate", "dropboxCreate", "gdriveOpen", "dropboxOpen"}
Ended == {"ok", "failed", "failedMade", "killed"}
Place == {"idle", "prompt", "tokens", "make", "recheck", "publish", "open",
          "words", "save", "respond", "show"} \cup Ended
Job == [cmd : Command \cup {None}, loc : Location, toFile : BOOLEAN,
        new : Password \cup Secret \cup {None}, cred : Credential \cup {None}, read : Config \cup {None}, conf : Config \cup {None}]

TypeOK ==
  /\ vault \in [Location -> Config \cup {None}]
  /\ out \in Proc \cup {Foreign, None}
  /\ pc \in [Proc -> Place]
  /\ job \in [Proc -> Job]
  /\ made \subseteq Proc /\ written \subseteq Proc /\ shown \subseteq Proc \X Key
  /\ taken \subseteq Proc /\ blind \subseteq Proc
  /\ valid \in [Proc -> SUBSET (Credential \cup {None})]
  /\ told \in [Proc -> SUBSET Proc] /\ over \in [Proc -> SUBSET Proc]
  /\ \A p \in Proc : pc[p] \in {"save", "respond"} => job[p].conf # None

Fitting(v) == IF v = None THEN {} ELSE {v.pw, v.rec, v.hw}

Init ==
  /\ vault \in [Location -> {None} \cup {c \in Config : c.rec = OldKey}]
  /\ out \in {None, Foreign}
  /\ pc = [p \in Proc |-> "idle"]
  /\ \E l \in Location :
       job = [p \in Proc |-> [cmd |-> None, loc |-> l, toFile |-> FALSE, new |-> None,
                              cred |-> None, read |-> None, conf |-> None]]
  /\ made = {} /\ written = {} /\ shown = {} /\ taken = {} /\ blind = {}
  /\ valid = [p \in Proc |-> {}] /\ told = [p \in Proc |-> {}] /\ over = [p \in Proc |-> {}]

-----------------------------------------------------------------------------
(* Steps common to several commands. *)

Goto(p, place) == pc' = [pc EXCEPT ![p] = place]

\* The command begins: its arguments are fixed.
Begin(p, cmd, l, toFile, place) ==
  /\ pc[p] = "idle"
  /\ Goto(p, place)
  /\ job' = [job EXCEPT ![p] = [@ EXCEPT !.cmd = cmd, !.loc = l, !.toFile = toFile]]
  /\ valid' = [valid EXCEPT ![p] = Fitting(vault[l])]
  /\ taken' = IF out # None THEN taken \cup {p} ELSE taken
  /\ UNCHANGED <<files, changed, made, written, shown, blind>>

\* The configuration at l becomes c.
Store(l, c) ==
  /\ vault' = [vault EXCEPT ![l] = c]
  /\ valid' = [p \in Proc |-> IF pc[p] # "idle" /\ job[p].loc = l
                              THEN valid[p] \cup Fitting(c) ELSE valid[p]]

\* The file at the path becomes f; `by` wrote it, or nobody did.
Put(f, by) ==
  /\ out' = f
  /\ taken' = IF f = None THEN {} ELSE taken
  /\ blind' = IF out = None THEN {p \in Proc \ by : pc[p] = "publish"} ELSE blind

\* check_recovery_out: something, whatever it is, is at the path.
Taken == out # None

\* may_print_recovery_words: recovery words may go to standard output.
MayPrint(p) == p \in Terminals

\* The changes that were reported as done.
Reported == {q \in Proc : pc[q] = "ok" /\ job[q].cmd \in Changes}

\* p's last prompt was answered; x is what the vault is to have from it.
Answer(p, x, place) ==
  /\ pc[p] = "prompt"
  /\ job' = [job EXCEPT ![p].new = x]
  /\ told' = [told EXCEPT ![p] = Reported]
  /\ Goto(p, place)
  /\ UNCHANGED <<files, record, over>>

\* A command gives up: a prompt without a terminal, passwords that differ or
\* are too short, an invalid name, a flag or file it cannot use, an error of
\* the vault crate.
GivesUp(p) ==
  /\ pc[p] \in {"prompt", "tokens", "make", "open", "words", "respond"}
  /\ Goto(p, "failed")
  /\ UNCHANGED <<files, job, history>>

Kill(p) ==
  /\ pc[p] \notin {"idle"} \cup Ended
  /\ Goto(p, "killed")
  /\ UNCHANGED <<files, job, history>>

-----------------------------------------------------------------------------
(* Creating a vault. *)

\* Mutant: --recovery-out is not checked at the start.
CreateUnchecked(p, l, toFile) ==
  Begin(p, "create", l, toFile, IF ~toFile /\ ~MayPrint(p) THEN "failed" ELSE "prompt")

\* cmd_create: know where the recovery key can go before asking for a password.
Create(p, l, toFile) ==
  LET refused == IF toFile THEN Taken ELSE ~MayPrint(p)
  IN  Begin(p, "create", l, toFile, IF refused THEN "failed" ELSE "prompt")

GDriveCreate(p, l) ==
  \E place \in {"failed"} \cup (IF MayPrint(p) THEN {"prompt"} ELSE {}) :
    Begin(p, "gdriveCreate", l, FALSE, place)

DropboxCreate(p, l) ==
  Begin(p, "dropboxCreate", l, FALSE, IF MayPrint(p) THEN "prompt" ELSE "failed")

ICloudCreate(p, l) ==
  Begin(p, "icloudCreate", l, FALSE, IF MayPrint(p) THEN "prompt" ELSE "failed")

\* The new password was entered twice and is long enough.
NewPassword(p) ==
  /\ job[p].cmd \in Creates \cup {"change", "reset"}
  /\ \E pw \in Password :
       Answer(p, pw, CASE job[p].cmd \in Remote -> "tokens"
                       [] job[p].cmd \in Creates \ Remote -> "make"
                       [] job[p].cmd = "change" -> "open"
                       [] job[p].cmd = "reset" -> "words")

\* The token file of the remote was read; GivesUp if it is not usable.
LoadTokens(p) ==
  /\ pc[p] = "tokens"
  /\ Goto(p, IF job[p].cmd \in Creates THEN "make" ELSE "open")
  /\ UNCHANGED <<files, job, history>>

\* The vault that p makes is in its place.
NewConfig(p) == [pw |-> job[p].new, rec |-> p, hw |-> None]

StoreVault(p) ==
  /\ pc[p] = "make"
  /\ vault[job[p].loc] = None
  /\ Store(job[p].loc, NewConfig(p))
  /\ UNCHANGED <<out, written, shown, taken, blind, changed>>

\* create_vault returned the vault it made.
MakeVault(p) ==
  /\ StoreVault(p)
  /\ job' = [job EXCEPT ![p].conf = NewConfig(p)]
  /\ made' = made \cup {p}
  /\ Goto(p, IF job[p].toFile THEN "recheck" ELSE "show")

\* create_vault failed and left a vault; GivesUp if it left none.
MakeVaultFails(p) ==
  /\ StoreVault(p)
  /\ Goto(p, "failed")
  /\ UNCHANGED <<job, made>>

\* write_recovery_words looks at the path again before it writes.
Recheck(p) ==
  /\ pc[p] = "recheck"
  /\ Goto(p, IF Taken THEN "failedMade" ELSE "publish")
  /\ UNCHANGED <<files, job, history>>

\* Mutant: a failed write of the recovery file is not reported.
PublishQuietly(p) ==
  /\ pc[p] = "publish"
  /\ \/ Put(p, {p}) /\ written' = written \cup {p}
     \/ UNCHANGED <<out, written, taken, blind>>
  /\ Goto(p, "ok")
  /\ UNCHANGED <<vault, job, made, shown, valid, changed>>

\* write_private_file: an error leaves the path as it was.
Publish(p) ==
  /\ pc[p] = "publish"
  /\ \/ /\ Put(p, {p})
        /\ written' = written \cup {p}
        /\ Goto(p, "ok")
     \/ /\ Goto(p, "failedMade")
        /\ UNCHANGED <<out, written, taken, blind>>
  /\ UNCHANGED <<vault, job, made, shown, valid, changed>>

\* display_recovery_words, at the end of create and of show-key.
Show(p) ==
  /\ pc[p] = "show"
  /\ shown' = shown \cup {<<p, job[p].conf.rec>>}
  /\ Goto(p, "ok")
  /\ UNCHANGED <<files, job, made, written, taken, blind, valid, changed>>

-----------------------------------------------------------------------------
(* Opening a vault, and changing how it is opened. *)

\* The commands of vault.rs on an existing vault: open, info, list, add,
\* extract, mkdir, remove.  What they do to files is the vault crate's.
Use(p, l) == Begin(p, "use", l, FALSE, "open")

GDriveOpen(p, l) ==
  \E place \in {"failed", "tokens"} : Begin(p, "gdriveOpen", l, FALSE, place)

DropboxOpen(p, l) == Begin(p, "dropboxOpen", l, FALSE, "tokens")

ICloudOpen(p, l) == Begin(p, "icloudOpen", l, FALSE, "open")

\* Mutant: show-key prints wherever standard output goes.
ShowKeyAnywhere(p, l) == Begin(p, "showKey", l, FALSE, "open")

ShowKey(p, l) == Begin(p, "showKey", l, FALSE, IF MayPrint(p) THEN "open" ELSE "failed")

ChangePassword(p, l) == Begin(p, "change", l, FALSE, "prompt")

Reset(p, l) == Begin(p, "reset", l, FALSE, "prompt")

Enroll(p, l) == Begin(p, "enroll", l, FALSE, "prompt")

Remove(p, l) == Begin(p, "remove", l, FALSE, "prompt")

\* cmd_enroll asks for the password and for the key's response, then opens.
ReadResponse(p) ==
  /\ job[p].cmd = "enroll"
  /\ \E s \in Secret : Answer(p, s, "open")

\* cmd_remove asks for the password.
ReadPassword(p) ==
  /\ job[p].cmd = "remove"
  /\ Answer(p, None, "open")

\* The session of p: it loaded v with credential c, and holds `conf` now.
Session(p, v, c, conf) ==
  job' = [job EXCEPT ![p] = [@ EXCEPT !.cred = c, !.read = v, !.conf = conf]]

\* What the command does in memory with the configuration v that was opened.
Proceed(p, v) ==
  \/ /\ job[p].cmd \in Uses
     /\ Session(p, v, v.pw, v) /\ Goto(p, "ok")
  \/ /\ job[p].cmd = "showKey"
     /\ Session(p, v, v.pw, v) /\ Goto(p, "show")
  \/ /\ job[p].cmd = "change"
     /\ Session(p, v, v.pw, [v EXCEPT !.pw = job[p].new]) /\ Goto(p, "save")
  \/ /\ job[p].cmd = "enroll"
     /\ Session(p, v, v.pw, [v EXCEPT !.hw = job[p].new]) /\ Goto(p, "save")
  \/ /\ job[p].cmd = "remove" /\ v.hw = None
     /\ Session(p, v, v.pw, v) /\ Goto(p, "ok")
  \/ /\ job[p].cmd = "remove" /\ v.hw # None
     /\ Session(p, v, v.pw, [v EXCEPT !.hw = None]) /\ Goto(p, "save")

\* Mutant: the vault is opened before the last prompt, not after it.
OpenVaultThenAsk(p) ==
  /\ pc[p] = "open"
  /\ vault[job[p].loc] # None
  /\ \/ /\ job[p].read = None
        /\ job' = [job EXCEPT ![p].read = vault[job[p].loc]]
        /\ UNCHANGED <<pc, told>>
     \/ /\ job[p].read # None
        /\ Proceed(p, job[p].read)
        /\ told' = [told EXCEPT ![p] = Reported]
  /\ UNCHANGED <<files, record, over>>

\* open_vault with the right password.
OpenVault(p) ==
  /\ pc[p] = "open"
  /\ vault[job[p].loc] # None
  /\ Proceed(p, vault[job[p].loc])
  /\ UNCHANGED <<files, history>>

\* Mutant: the reset makes a new recovery key and shows it to nobody.
OpenWithWordsNewKey(p) ==
  LET v == vault[job[p].loc]
  IN  /\ pc[p] = "words"
      /\ v # None
      /\ Session(p, v, v.rec, [v EXCEPT !.pw = job[p].new, !.rec = p])
      /\ Goto(p, "save")
      /\ UNCHANGED <<files, history>>

\* recover_vault with the right words: it sets the new password and saves.
OpenWithWords(p) ==
  LET v == vault[job[p].loc]
  IN  /\ pc[p] = "words"
      /\ v # None
      /\ Session(p, v, v.rec, [v EXCEPT !.pw = job[p].new])
      /\ Goto(p, "save")
      /\ UNCHANGED <<files, history>>

\* The configuration of the session is stored whole.
StoreSession(p) ==
  /\ Store(job[p].loc, job[p].conf)
  /\ over' = [over EXCEPT ![p] = Reported]

SaveConfig(p) ==
  /\ pc[p] = "save"
  /\ StoreSession(p)
  /\ Goto(p, "ok")
  /\ UNCHANGED <<out, job, made, written, shown, taken, blind, told>>

\* Mutant: the error of save_config is dropped.
SaveFailsQuietly(p) ==
  /\ pc[p] = "save"
  /\ StoreSession(p) \/ UNCHANGED <<vault, valid, over>>
  /\ Goto(p, "ok")
  /\ UNCHANGED <<out, job, made, written, shown, taken, blind, told>>

\* The command fails; the configuration may have been stored all the same.
SaveFails(p) ==
  /\ pc[p] = "save"
  /\ StoreSession(p) \/ UNCHANGED <<vault, valid, over>>
  /\ Goto(p, "failed")
  /\ UNCHANGED <<out, job, made, written, shown, taken, blind, told>>

\* Mutant: the configuration is not looked for before it is loaded.
LoadConfigUnchecked(p, l, cmd) ==
  /\ cmd \in Responds
  /\ pc[p] = "idle"
  /\ Goto(p, "respond")
  /\ job' = [job EXCEPT ![p] = [@ EXCEPT !.cmd = cmd, !.loc = l, !.read = vault[l], !.conf = vault[l]]]
  /\ valid' = [valid EXCEPT ![p] = Fitting(vault[l])]
  /\ taken' = IF out # None THEN taken \cup {p} ELSE taken
  /\ UNCHANGED <<files, changed, made, written, shown, blind>>

\* hardware-key test and open load the configuration BEFORE the prompt.
LoadConfig(p, l, cmd) ==
  LET v == vault[l]
  IN  /\ cmd \in Responds
      /\ pc[p] = "idle"
      /\ Goto(p, IF v = None THEN "failed" ELSE "respond")
      /\ job' = [job EXCEPT ![p] = [@ EXCEPT !.cmd = cmd, !.loc = l, !.read = v, !.conf = v]]
      /\ valid' = [valid EXCEPT ![p] = Fitting(v)]
      /\ taken' = IF out # None THEN taken \cup {p} ELSE taken
      /\ UNCHANGED <<files, changed, made, written, shown, blind>>

\* Mutant: any response opens the vault.
RespondAnything(p) ==
  /\ pc[p] = "respond"
  /\ \E s \in Secret : job' = [job EXCEPT ![p].cred = s]
  /\ Goto(p, "ok")
  /\ UNCHANGED <<files, history>>

\* The response fits the configuration that was loaded.
Respond(p) ==
  /\ pc[p] = "respond"
  /\ \E s \in Secret : /\ job[p].conf.hw = s
                       /\ job' = [job EXCEPT ![p].cred = s]
  /\ Goto(p, "ok")
  /\ UNCHANGED <<files, history>>

-----------------------------------------------------------------------------
(* The other users of the path: a file appears there or is removed. *)

OtherProgram ==
  /\ \/ out # Foreign /\ Put(Foreign, {})
     \/ out # None /\ Put(None, {})
  /\ UNCHANGED <<vault, pc, job, made, written, shown, valid, changed>>

CreateStep(p) ==
  \/ \E l \in Location :
       \/ \E toFile \in BOOLEAN : Create(p, l, toFile)
       \/ GDriveCreate(p, l) \/ DropboxCreate(p, l) \/ ICloudCreate(p, l)
  \/ MakeVault(p) \/ MakeVaultFails(p) \/ Recheck(p) \/ Publish(p)

OpenStep(p) ==
  \/ \E l \in Location :
       \/ Use(p, l) \/ GDriveOpen(p, l) \/ DropboxOpen(p, l) \/ ICloudOpen(p, l)
       \/ ShowKey(p, l) \/ \E cmd \in Responds : LoadConfig(p, l, cmd)
  \/ OpenVault(p) \/ OpenWithWords(p) \/ Respond(p)

ChangeStep(p) ==
  \/ \E l \in Location : ChangePassword(p, l) \/ Reset(p, l) \/ Enroll(p, l) \/ Remove(p, l)
  \/ ReadResponse(p) \/ ReadPassword(p) \/ SaveConfig(p) \/ SaveFails(p)

CommonStep(p) == NewPassword(p) \/ LoadTokens(p) \/ Show(p) \/ GivesUp(p) \/ Kill(p)

Next ==
  \/ \E p \in Proc : CreateStep(p) \/ OpenStep(p) \/ ChangeStep(p) \/ CommonStep(p)
  \/ OtherProgram

Spec == Init /\ [][Next]_vars

-----------------------------------------------------------------------------
(* Properties. *)

\* README.md:125: that the recovery file exists "is checked before the vault is
\* created".  A file that has been at the path ever since the command began is
\* found before there is a vault, however long the prompts take.
NoVaultForTakenFile ==
  \A p \in made : job[p].toFile => p \notin taken

\* The check before the write: a command that publishes over a file did not have
\* it in view at its second check; the file came after (password.rs:151-152).
ReplacesOnlyUnseen ==
  [][\A p \in Proc : p \notin written /\ p \in written' /\ out # None => p \in blind]_vars

\* What create says of itself is so.  A plain error: it was given no vault.  The
\* error that names the vault (vault.rs:71-82): it was made, and its key was not
\* written.  Success: it was made, and its key was written or printed.
CreateSaysWhatItDid ==
  \A p \in Proc : job[p].cmd \in Creates =>
    /\ pc[p] = "failed" => p \notin made
    /\ pc[p] = "failedMade" => p \in made /\ p \notin written
    /\ pc[p] = "ok" => /\ p \in made
                       /\ IF job[p].toFile THEN p \in written ELSE <<p, p>> \in shown

\* Every recovery key that a user was given, in a file or on the terminal, still
\* opens the vault it was given for, whatever commands saved there since.
GivenKeyOpens ==
  /\ \A p \in written : vault[job[p].loc] # None /\ vault[job[p].loc].rec = p
  /\ \A s \in shown : vault[job[s[1]].loc] # None /\ vault[job[s[1]].loc].rec = s[2]

\* Recovery words are printed to a terminal only (may_print_recovery_words), and
\* never when they were to go to a file.
PrintedOnlyToTerminal ==
  \A s \in shown : s[1] \in Terminals /\ ~job[s[1]].toFile

\* A command that opened a vault did it with a password, words or a response
\* that fitted at some time between its start and its end: a configuration that
\* was loaded before a prompt is old by no more than that.
OpenedByValid ==
  \A p \in Proc : pc[p] = "ok" /\ job[p].cmd \notin Creates =>
    job[p].cred \in valid[p] \ {None}

\* Which part of the configuration a change is of, and whether it is in force.
SetsPassword(q) == job[q].cmd \in {"change", "reset"}

InForce(q) ==
  LET v == vault[job[q].loc]
  IN  v # None /\ IF SetsPassword(q) THEN v.pw = job[q].new ELSE v.hw = job[q].new

\* When a command reports that it changed the password or the hardware key, the
\* stored configuration has the change (hardware_key.rs:53-58, recovery.rs:58-60).
SuccessIsStored ==
  [][\A p \in Proc : pc[p] # "ok" /\ pc'[p] = "ok" /\ job[p].cmd \in Changes => InForce(p)']_vars

\* p stored a configuration after q's change was reported, and either it is a
\* change of the same part or p's user had answered all of p's prompts before
\* the report.
Undoes(p, q) ==
  /\ job[p].loc = job[q].loc
  /\ q \in over[p]
  /\ (SetsPassword(p) <=> SetsPassword(q)) \/ q \notin told[p]

\* A change that was reported stays in force until it is replaced, or until a
\* command saves that was past its last prompt at the report.  Saves are of whole
\* configurations and look at nothing, so a session that is old brings back what
\* it loaded; but every command asks for all it needs before it opens the vault
\* (hardware_key.rs:23-40, recovery.rs:31-49), so a change is safe from all
\* commands that are still at a prompt.
ReportedChangeStays ==
  \A q \in Reported : InForce(q) \/ \E p \in Proc : Undoes(p, q)

\* README.md:125 and cli.rs:154: "an existing file is never overwritten".
NeverOverwritten ==
  [][\A p \in Proc : p \notin written /\ p \in written' => out = None]_vars
=============================================================================
