---------------------------- MODULE PasswordFile ----------------------------
(***************************************************************************)
(* Reading the password of a vault from --password-file (password.rs),     *)
(* while other programs put another file at the path, rewrite the file or  *)
(* change its mode.                                                        *)
(*                                                                         *)
(* A text is a sequence of bytes: carriage return, newline, anything else. *)
(* A mode is whether group or others have any access.                      *)
(***************************************************************************)
EXTENDS Naturals, SequencesExt

CONSTANTS
  Inode,       \* the files, pipes and directories there are
  Missing,     \* nothing at the path
  KindOf,      \* what each inode is
  Texts,       \* what the files can hold
  MaxMeddling  \* bound: changes by other programs

CR == "cr"
LF == "lf"
Byte == {CR, LF, "other"}

ASSUME PasswordFileAssumption ==
  /\ Missing \notin Inode
  /\ KindOf \in [Inode -> {"file", "pipe", "dir"}]
  /\ Texts \subseteq Seq(Byte)
  /\ MaxMeddling \in Nat

File == {i \in Inode : KindOf[i] = "file"}

VARIABLES
  linked,    \* what is at the path
  private,   \* the mode of each file
  text,      \* the bytes of each file
  phase,     \* where the command is
  held,      \* the inode it has open
  mode,      \* whether that was private when it was asked
  bytes,     \* what it has read
  secret,    \* the password it uses
  meddling,  \* how often other programs interfered
  shown      \* history: what each file was at some time

outside == <<linked, private, text, meddling, shown>>
passwordVars == <<outside, phase, held, mode, bytes, secret>>

PasswordTypeOK ==
  /\ linked \in Inode \cup {Missing} /\ held \in Inode \cup {Missing}
  /\ private \in [File -> BOOLEAN] /\ mode \in BOOLEAN
  /\ text \in [File -> Texts]
  /\ phase \in {"stat", "open", "fstat", "read", "used", "refused", "blocked"}
  /\ bytes \in Seq(Byte) /\ secret \in Seq(Byte)
  /\ phase \in {"read", "used"} => held \in File
  /\ phase = "used" => secret # <<>>
  /\ meddling \in 0..MaxMeddling

State(i) == [private |-> private[i], text |-> text[i]]

PasswordInit ==
  /\ linked \in Inode \cup {Missing}
  /\ private \in [File -> BOOLEAN]
  /\ text \in [File -> Texts]
  /\ phase = "stat" /\ held = Missing /\ mode = FALSE /\ bytes = <<>> /\ secret = <<>>
  /\ meddling = 0
  /\ shown = [i \in File |-> {State(i)}]

-----------------------------------------------------------------------------
(* read_password_file. *)

\* The file at the path is looked at.
StatPath ==
  /\ phase = "stat"
  /\ phase' = IF linked \in File THEN "open" ELSE "refused"
  /\ UNCHANGED <<outside, held, mode, bytes, secret>>

\* What is at the path now is opened; a pipe nobody writes blocks.
OpenPath ==
  /\ phase = "open"
  /\ IF linked = Missing
     THEN phase' = "refused" /\ UNCHANGED held
     ELSE /\ phase' = IF KindOf[linked] = "pipe" THEN "blocked" ELSE "fstat"
          /\ held' = linked
  /\ UNCHANGED <<outside, mode, bytes, secret>>

\* Mutant: the path is asked again instead of the open file.
FstatPath ==
  /\ phase = "fstat"
  /\ linked \in File /\ held \in File
  /\ mode' = private[linked]
  /\ phase' = "read"
  /\ UNCHANGED <<outside, held, bytes, secret>>

\* The open file is looked at.
Fstat ==
  /\ phase = "fstat"
  /\ IF held \in File
     THEN phase' = "read" /\ mode' = private[held]
     ELSE phase' = "refused" /\ UNCHANGED mode
  /\ UNCHANGED <<outside, held, bytes, secret>>

Rest == SubSeq(text[held], Len(bytes) + 1, Len(text[held]))

\* read_to_end: reads until there is nothing more.
ReadMore ==
  /\ phase = "read" /\ Rest # <<>>
  /\ bytes' = bytes \o Rest
  /\ UNCHANGED <<outside, phase, held, mode, secret>>

Ending(b) ==
  IF IsSuffix(<<CR, LF>>, b) THEN 2 ELSE IF IsSuffix(<<LF>>, b) THEN 1 ELSE 0

\* password_from_file_bytes strips one \n or \r\n.
Stripped(b) == SubSeq(b, 1, Len(b) - Ending(b))

\* password_from_file_bytes: the mode found with the open file, then the bytes.
UsePassword ==
  /\ phase = "read" /\ Rest = <<>>
  /\ IF mode /\ Stripped(bytes) # <<>>
     THEN phase' = "used" /\ secret' = Stripped(bytes)
     ELSE phase' = "refused" /\ UNCHANGED secret
  /\ UNCHANGED <<outside, held, mode, bytes>>

-----------------------------------------------------------------------------
(* Other programs. *)

Meddle ==
  /\ meddling < MaxMeddling
  /\ phase \notin {"used", "refused", "blocked"}
  /\ meddling' = meddling + 1
  /\ shown' = [i \in File |-> shown[i] \cup {State(i)'}]
  /\ UNCHANGED <<phase, held, mode, bytes, secret>>

Swap(i) ==
  /\ i # linked
  /\ linked' = i
  /\ UNCHANGED <<private, text>>
  /\ Meddle

Chmod(i) ==
  /\ private' = [private EXCEPT ![i] = ~@]
  /\ UNCHANGED <<linked, text>>
  /\ Meddle

Rewrite(i, t) ==
  /\ t # text[i]
  /\ text' = [text EXCEPT ![i] = t]
  /\ UNCHANGED <<linked, private>>
  /\ Meddle

PasswordNext ==
  \/ StatPath \/ OpenPath \/ Fstat \/ ReadMore \/ UsePassword
  \/ \E i \in Inode \cup {Missing} : Swap(i)
  \/ \E i \in File : Chmod(i) \/ \E t \in Texts : Rewrite(i, t)

PasswordSpec == PasswordInit /\ [][PasswordNext]_passwordVars

-----------------------------------------------------------------------------
(* Properties. *)

WasPrivate(i) == \E s \in shown[i] : s.private
NeverRewritten(i) == \A s \in shown[i] : s.text = text[i]

\* A password comes from one file, which was regular and at some time closed to
\* group and others, however the path was swapped meanwhile: it is never the
\* text of one file accepted on the mode of another (password.rs:68).
SecretOfOneFile ==
  phase = "used" =>
    \E i \in File :
      /\ WasPrivate(i)
      /\ NeverRewritten(i) =>
           \E e \in {<<>>, <<LF>>, <<CR, LF>>} : text[i] = secret \o e

\* The same password is used whether an editor ended the file with nothing, with
\* a newline or with a carriage return and a newline; of two newlines one stays.
EndingDoesNotMatter ==
  phase = "used" =>
    \A e \in {<<LF>>, <<CR, LF>>} :
      LET base == SubSeq(bytes, 1, Len(bytes) - Len(e))
      IN  bytes = base \o e /\ ~IsSuffix(<<CR>>, base) => secret = base

\* The password is what somebody wrote into one file that was closed to others,
\* and nothing of its line ending.
PasswordAsWritten == SecretOfOneFile /\ EndingDoesNotMatter

\* The command waits on a pipe only if somebody put it there after the first
\* look; "so a swap after the first check is caught" does not cover that case.
BlockedBySwap == phase = "blocked" => meddling > 0
=============================================================================
