--------------------------- MODULE ReadersProofs ---------------------------
(***************************************************************************)
(* Theorems about the small parts that read or write one thing:            *)
(* PasswordFile, for any files, texts and interference, SyncConfig, for    *)
(* any number of runs, CommandLine, for any values and any length,         *)
(* HardwareResponse, for any digits and any length, and MountInfo, for any *)
(* names of any length.                                                    *)
(***************************************************************************)
EXTENDS MCReaders, MountListProofs, VaultListProofs,
        SequenceTheorems, FiniteSetTheorems, WellFoundedInduction, TLAPS

(***************************************************************************)
(* PasswordFile.  The properties speak of the end of a read.  They follow  *)
(* from what holds on the way: the file that is open was private when it   *)
(* was asked, and as long as nobody rewrites it the bytes read are the     *)
(* beginning of its text (ReadSoFar).                                        *)
(***************************************************************************)


Snapshot == [private : BOOLEAN, text : Texts]

Shown ==
  /\ shown \in [File -> SUBSET Snapshot]
  /\ \A i \in File : State(i) \in shown[i]

Looked == phase = "open" /\ meddling = 0 => linked \in File

ReadSoFar ==
  /\ phase \in {"stat", "open", "fstat"} => bytes = <<>>
  /\ phase \in {"read", "used"} /\ mode => WasPrivate(held)
  /\ phase = "read" /\ NeverRewritten(held) =>
       Len(bytes) <= Len(text[held]) /\ bytes = SubSeq(text[held], 1, Len(bytes))
  /\ phase = "used" =>
       mode /\ secret = Stripped(bytes) /\ (NeverRewritten(held) => bytes = text[held])

PInv == PasswordTypeOK /\ Shown /\ Looked /\ ReadSoFar /\ BlockedBySwap

-----------------------------------------------------------------------------
(* Endings. *)

\* The two endings, as they are at the end of a text.
LEMMA EndsIn ==
  ASSUME NEW b \in Seq(Byte)
  PROVE  /\ IsSuffix(<<LF>>, b) <=> Len(b) >= 1 /\ b[Len(b)] = LF
         /\ IsSuffix(<<CR>>, b) <=> Len(b) >= 1 /\ b[Len(b)] = CR
         /\ IsSuffix(<<CR, LF>>, b) <=> Len(b) >= 2 /\ b[Len(b)] = LF /\ b[Len(b) - 1] = CR
  BY DEF IsSuffix, IsPrefix, Reverse

\* What Stripped takes off is one of the endings.
LEMMA StrippedSplits ==
  ASSUME NEW b \in Seq(Byte)
  PROVE  /\ Stripped(b) \in Seq(Byte)
         /\ \E e \in {<<>>, <<LF>>, <<CR, LF>>} : b = Stripped(b) \o e
  <1>1. CASE IsSuffix(<<CR, LF>>, b)
    BY <1>1, EndsIn, SMTT(30) DEF Stripped, Ending
  <1>2. CASE ~IsSuffix(<<CR, LF>>, b) /\ IsSuffix(<<LF>>, b)
    BY <1>2, EndsIn DEF Stripped, Ending
  <1>3. CASE ~IsSuffix(<<CR, LF>>, b) /\ ~IsSuffix(<<LF>>, b)
    BY <1>3 DEF Stripped, Ending
  <1> QED BY <1>1, <1>2, <1>3

\* A text that ends in e, and not in a carriage return before it, loses just e.
LEMMA StrippedBase ==
  ASSUME NEW b \in Seq(Byte), NEW e \in {<<LF>>, <<CR, LF>>}, NEW base \in Seq(Byte),
         b = base \o e, ~IsSuffix(<<CR>>, base)
  PROVE  Stripped(b) = base
  <1>0. Len(b) = Len(base) + Len(e) /\ Len(base) \in Nat /\ Len(b) \in Nat
    BY DEF Byte, LF, CR
  <1>1. \A i \in 1..Len(base) : b[i] = base[i]
    BY DEF Byte, LF, CR
  <1>2. base = SubSeq(b, 1, Len(base))
    BY <1>0, <1>1
  <1>3. CASE e = <<LF>>
    <2>1. Len(e) = 1 /\ b[Len(b)] = LF
      BY <1>3, <1>0
    <2>5. IsSuffix(<<LF>>, b) <=> Len(b) >= 1 /\ b[Len(b)] = LF
      BY EndsIn
    <2>2. IsSuffix(<<LF>>, b)
      BY <1>0, <2>1, <2>5
    <2>3. ~IsSuffix(<<CR, LF>>, b)
      <3> SUFFICES ASSUME Len(b) >= 2, b[Len(b) - 1] = CR PROVE FALSE
        BY <1>0, EndsIn
      <3>1. Len(base) >= 1 /\ Len(b) - 1 = Len(base)
        BY <1>0, <2>1
      <3>2. base[Len(base)] = CR
        BY <3>1, <1>1
      <3> QED BY <3>1, <3>2, EndsIn
    <2>4. Stripped(b) = SubSeq(b, 1, Len(b) - 1)
      BY <2>2, <2>3 DEF Stripped, Ending
    <2> QED BY <1>0, <1>2, <2>1, <2>4
  <1>4. CASE e = <<CR, LF>>
    <2>1. Len(e) = 2 /\ b[Len(b)] = LF /\ b[Len(b) - 1] = CR
      BY <1>4, <1>0
    <2>5. IsSuffix(<<CR, LF>>, b) <=> Len(b) >= 2 /\ b[Len(b)] = LF /\ b[Len(b) - 1] = CR
      BY EndsIn
    <2>2. IsSuffix(<<CR, LF>>, b)
      BY <1>0, <2>1, <2>5
    <2>3. Stripped(b) = SubSeq(b, 1, Len(b) - 2)
      BY <2>2 DEF Stripped, Ending
    <2> QED BY <1>0, <1>2, <2>1, <2>3
  <1> QED BY <1>3, <1>4

-----------------------------------------------------------------------------
(* The invariant. *)

\* What the others do.  A file that was never rewritten still has its text, and one
\* that was private once was.
LEMMA MeddleInv ==
  ASSUME PInv, Meddle,
         linked' \in Inode \cup {Missing}, private' \in [File -> BOOLEAN], text' \in [File -> Texts]
  PROVE  PInv'
  <1> USE DEF PInv, Meddle
  <1>0. /\ UNCHANGED <<phase, held, mode, bytes, secret>>
        /\ meddling' \in 1..MaxMeddling
    BY PasswordFileAssumption DEF PasswordTypeOK
  <1>1. PasswordTypeOK'
    BY <1>0 DEF PasswordTypeOK
  <1>2. Shown'
    BY <1>1 DEF Shown, Snapshot, State, PasswordTypeOK
  <1>3. \A i \in File : (WasPrivate(i) => WasPrivate(i)') /\ (NeverRewritten(i)' => NeverRewritten(i) /\ text'[i] = text[i])
    <2> TAKE i \in File
    <2>1. State(i) \in shown[i] /\ shown'[i] = shown[i] \cup {State(i)'} /\ State(i).text = text[i]
      BY DEF Shown, State
    <2> QED BY <2>1 DEF WasPrivate, NeverRewritten
  <1>4. ReadSoFar'
    BY <1>0, <1>3 DEF ReadSoFar, PasswordTypeOK
  <1> QED BY <1>0, <1>1, <1>2, <1>4 DEF Looked, BlockedBySwap

LEMMA SwapInv ==
  ASSUME PInv, NEW i \in Inode \cup {Missing}, Swap(i)
  PROVE  PInv'
  BY MeddleInv DEF Swap, PInv, PasswordTypeOK

LEMMA ChmodInv ==
  ASSUME PInv, NEW i \in File, Chmod(i)
  PROVE  PInv'
  BY MeddleInv DEF Chmod, PInv, PasswordTypeOK

LEMMA RewriteInv ==
  ASSUME PInv, NEW i \in File, NEW t \in Texts, Rewrite(i, t)
  PROVE  PInv'
  BY MeddleInv DEF Rewrite, PInv, PasswordTypeOK

LEMMA StatPathInv ==
  ASSUME PInv, StatPath
  PROVE  PInv'
  <1> USE DEF PInv, StatPath, outside
  <1>1. PasswordTypeOK'
    BY DEF PasswordTypeOK
  <1>2. Shown' /\ Looked' /\ BlockedBySwap'
    BY DEF Shown, Looked, BlockedBySwap, State
  <1>3. ReadSoFar'
    BY DEF ReadSoFar
  <1> QED BY <1>1, <1>2, <1>3

LEMMA OpenPathInv ==
  ASSUME PInv, OpenPath
  PROVE  PInv'
  <1> USE DEF PInv, OpenPath, outside
  <1>1. PasswordTypeOK'
    BY DEF PasswordTypeOK
  <1>2. Shown'
    BY DEF Shown, State
  <1>3. Looked' /\ BlockedBySwap'
    BY DEF Looked, BlockedBySwap, File, PasswordTypeOK
  <1>4. ReadSoFar'
    BY DEF ReadSoFar
  <1> QED BY <1>1, <1>2, <1>3, <1>4

LEMMA FstatInv ==
  ASSUME PInv, Fstat
  PROVE  PInv'
  <1> USE DEF PInv, Fstat, outside
  <1>1. PasswordTypeOK'
    BY DEF PasswordTypeOK
  <1>2. Shown' /\ Looked' /\ BlockedBySwap'
    BY DEF Shown, Looked, BlockedBySwap, State
  <1>3. CASE held \in File
    <2>1. private[held] => WasPrivate(held)'
      BY <1>3 DEF Shown, State, WasPrivate
    <2>2. text[held] \in Seq(Byte) /\ bytes = <<>>
      BY <1>3, PasswordFileAssumption DEF PasswordTypeOK, ReadSoFar
    <2>3. Len(bytes) <= Len(text[held]) /\ bytes = SubSeq(text[held], 1, Len(bytes))
      BY <2>2
    <2> QED BY <1>1, <1>2, <1>3, <2>1, <2>2, <2>3 DEF ReadSoFar
  <1>4. CASE held \notin File
    BY <1>1, <1>2, <1>4 DEF ReadSoFar
  <1> QED BY <1>3, <1>4

LEMMA ReadMoreInv ==
  ASSUME PInv, ReadMore
  PROVE  PInv'
  <1> USE DEF PInv, ReadMore, outside
  <1>1. held \in File /\ text[held] \in Seq(Byte) /\ bytes \in Seq(Byte)
    BY PasswordFileAssumption DEF PasswordTypeOK
  <1>2. Rest \in Seq(Byte)
    BY <1>1 DEF Rest
  <1>3. PasswordTypeOK'
    BY <1>1, <1>2 DEF PasswordTypeOK
  <1>4. Shown' /\ Looked' /\ BlockedBySwap'
    BY DEF Shown, Looked, BlockedBySwap, State
  <1>5. ASSUME NeverRewritten(held) PROVE bytes' = text[held]
    <2>1. Len(bytes) <= Len(text[held]) /\ bytes = SubSeq(text[held], 1, Len(bytes))
      BY <1>5 DEF ReadSoFar
    <2> QED BY <1>1, <2>1 DEF Rest
  <1>6. text[held] = SubSeq(text[held], 1, Len(text[held]))
    BY <1>1
  <1>7. mode => WasPrivate(held)'
    BY DEF ReadSoFar, WasPrivate
  <1>8. NeverRewritten(held)' <=> NeverRewritten(held)
    BY DEF NeverRewritten
  <1>9. ReadSoFar'
    BY <1>1, <1>5, <1>6, <1>7, <1>8 DEF ReadSoFar
  <1> QED BY <1>3, <1>4, <1>9

LEMMA UsePasswordInv ==
  ASSUME PInv, UsePassword
  PROVE  PInv'
  <1> USE DEF PInv, UsePassword, outside
  <1>1. held \in File /\ text[held] \in Seq(Byte) /\ bytes \in Seq(Byte)
    BY PasswordFileAssumption DEF PasswordTypeOK
  <1>2. PasswordTypeOK'
    BY <1>1, StrippedSplits DEF PasswordTypeOK
  <1>3. Shown' /\ Looked' /\ BlockedBySwap'
    BY DEF Shown, Looked, BlockedBySwap, State
  <1>4. ASSUME NeverRewritten(held) PROVE bytes = text[held]
    <2>1. Len(bytes) <= Len(text[held]) /\ bytes = SubSeq(text[held], 1, Len(bytes))
      BY <1>4 DEF ReadSoFar
    <2>2. SubSeq(text[held], Len(bytes) + 1, Len(text[held])) = <<>>
      BY DEF Rest
    <2>3. Len(bytes) = Len(text[held])
      <3> SUFFICES ASSUME Len(bytes) < Len(text[held]) PROVE FALSE
        BY <1>1, <2>1
      <3>1. Len(SubSeq(text[held], Len(bytes) + 1, Len(text[held]))) = Len(text[held]) - Len(bytes)
        BY <1>1
      <3>2. Len(SubSeq(text[held], Len(bytes) + 1, Len(text[held]))) = 0
        <4>1. Len(<<>>) = 0
          OBVIOUS
        <4> QED BY <2>2, <4>1, Zenon
      <3>3. Len(bytes) \in Nat /\ Len(text[held]) \in Nat
        BY <1>1
      <3> HIDE DEF PInv, UsePassword
      <3> QED BY <3>1, <3>2, <3>3
    <2> QED BY <1>1, <2>1, <2>3
  <1>5. mode => WasPrivate(held)'
    BY DEF ReadSoFar, WasPrivate
  <1>6. NeverRewritten(held)' <=> NeverRewritten(held)
    BY DEF NeverRewritten
  <1>7. ReadSoFar'
    BY <1>4, <1>5, <1>6 DEF ReadSoFar
  <1> QED BY <1>2, <1>3, <1>7

LEMMA InitPInv == PasswordInit => PInv
  <1> SUFFICES ASSUME PasswordInit PROVE PInv
    OBVIOUS
  <1> USE DEF PasswordInit
  <1>1. PasswordTypeOK
    <2>1. bytes \in Seq(Byte) /\ secret \in Seq(Byte)
      OBVIOUS
    <2>2. meddling \in 0..MaxMeddling
      BY PasswordFileAssumption
    <2>3. mode \in BOOLEAN /\ held = Missing /\ phase = "stat"
      OBVIOUS
    <2>4. linked \in Inode \cup {Missing} /\ private \in [File -> BOOLEAN] /\ text \in [File -> Texts]
      OBVIOUS
    <2> HIDE DEF PasswordInit
    <2> QED BY <2>1, <2>2, <2>3, <2>4 DEF PasswordTypeOK
  <1>2. Shown
    BY DEF Shown, State, Snapshot
  <1> QED BY <1>1, <1>2 DEF PInv, Looked, ReadSoFar, BlockedBySwap

LEMMA StepPInv == PInv /\ [PasswordNext]_passwordVars => PInv'
  <1> SUFFICES ASSUME PInv, [PasswordNext]_passwordVars PROVE PInv'
    OBVIOUS
  <1>1. CASE UNCHANGED passwordVars
    BY <1>1 DEF PInv, PasswordTypeOK, Shown, Looked, ReadSoFar, BlockedBySwap, State, WasPrivate,
       NeverRewritten, passwordVars, outside
  <1>2. CASE PasswordNext
    BY <1>2, StatPathInv, OpenPathInv, FstatInv, ReadMoreInv, UsePasswordInv, SwapInv, ChmodInv,
       RewriteInv DEF PasswordNext
  <1> QED BY <1>1, <1>2

LEMMA AlwaysPInv == PasswordSpec => []PInv
  BY InitPInv, StepPInv, PTL DEF PasswordSpec

-----------------------------------------------------------------------------
(* The theorems. *)

\* The variables have their types; a password in use is never empty.
THEOREM PasswordTypes == PasswordSpec => []PasswordTypeOK
  <1>1. PInv => PasswordTypeOK
    BY DEF PInv
  <1> QED BY <1>1, AlwaysPInv, PTL

\* A password is the text of one file that was closed to group and others, without
\* its ending, if nobody rewrote it: the second look at the open file suffices.
\* However its editor ended the file, the same password comes out of it.
THEOREM PasswordIsAsWritten == PasswordSpec => []PasswordAsWritten
  <1>1. PInv => SecretOfOneFile
    <2> SUFFICES ASSUME PInv, phase = "used"
                 PROVE  /\ held \in File /\ WasPrivate(held)
                        /\ NeverRewritten(held) =>
                             \E e \in {<<>>, <<LF>>, <<CR, LF>>} : text[held] = secret \o e
      BY DEF SecretOfOneFile
    <2>1. held \in File /\ bytes \in Seq(Byte)
      BY DEF PInv, PasswordTypeOK
    <2>2. mode /\ secret = Stripped(bytes) /\ WasPrivate(held)
      BY DEF PInv, ReadSoFar
    <2>3. NeverRewritten(held) => bytes = text[held]
      BY DEF PInv, ReadSoFar
    <2> QED BY <2>1, <2>2, <2>3, StrippedSplits
  <1>2. PInv => EndingDoesNotMatter
    <2> SUFFICES ASSUME PInv, phase = "used", NEW e \in {<<LF>>, <<CR, LF>>},
                        NEW base, base = SubSeq(bytes, 1, Len(bytes) - Len(e)),
                        bytes = base \o e, ~IsSuffix(<<CR>>, base)
                 PROVE  secret = base
      BY DEF EndingDoesNotMatter
    <2>1. bytes \in Seq(Byte) /\ secret = Stripped(bytes)
      BY DEF PInv, PasswordTypeOK, ReadSoFar
    <2>2. base \in Seq(Byte)
      BY <2>1
    <2> QED BY <2>1, <2>2, StrippedBase
  <1>3. PInv => PasswordAsWritten
    BY <1>1, <1>2 DEF PasswordAsWritten
  <1> QED BY <1>3, AlwaysPInv, PTL

\* The command waits on a pipe only if somebody interfered.
THEOREM OnlySwapsBlock == PasswordSpec => []BlockedBySwap
  <1>1. PInv => BlockedBySwap
    BY DEF PInv
  <1> QED BY <1>1, AlwaysPInv, PTL

(***************************************************************************)
(* SyncConfig.  ConfigIsLast needs what holds while a run writes: as long  *)
(* as nothing disturbed it there is no other writer and the file holds     *)
(* just the part of its text it has written (Alone).                       *)
(***************************************************************************)


Cells == Seq(SyncMode \cup {Hole})

\* How far a run has come says what it has done.
Progress ==
  \A r \in Run :
    /\ syncing[r] \in {"start", "dir", "open"} => offset[r] = 0
    /\ syncing[r] \in {"start", "refused"} => r \notin touched
    /\ syncing[r] \in {"dir", "open", "write", "done"} => Accepted(asked[r])
    /\ syncing[r] \in {"open", "write"} => syncDir
    /\ Writing(r) => config \in Cells

Alone ==
  ~torn => \A r \in Run : Writing(r) =>
    /\ \A q \in Run : Writing(q) => q = r
    /\ config = [i \in 1..offset[r] |-> asked[r].mode]

SInv ==
  /\ SyncTypeOK
  /\ Progress
  /\ Alone
  /\ ConfigIsLast
  /\ last # NoRun => syncing[last] = "done"

-----------------------------------------------------------------------------

\* A text is as long as its mode asks.
LEMMA TextLength ==
  ASSUME NEW m \in SyncMode
  PROVE  /\ TextOf(m) \in Cells /\ Len(TextOf(m)) = Size(m) /\ Size(m) \in 2..3
  <1>1. Size(m) \in 2..3
    BY DEF Size
  <1>2. TextOf(m) \in Cells
    BY <1>1 DEF TextOf, Cells
  <1>3. Len(TextOf(m)) = Size(m)
    BY <1>1 DEF TextOf
  <1> QED BY <1>1, <1>2, <1>3

LEMMA ModeType ==
  ASSUME SyncTypeOK, NEW r \in Run
  PROVE  /\ asked[r].mode \in SyncMode /\ offset[r] \in 0..3
         /\ Len(MyText(r)) = Size(asked[r].mode) /\ Size(asked[r].mode) \in 2..3
         /\ offset[r] <= Size(asked[r].mode)
  <1>1. asked[r] \in [mode : SyncMode, interval : Interval]
    BY SyncConfigAssumption DEF SyncTypeOK
  <1>2. asked[r].mode \in SyncMode
    BY <1>1
  <1>3. Len(MyText(r)) = Size(asked[r].mode) /\ Size(asked[r].mode) \in 2..3
    BY <1>2, TextLength DEF MyText
  <1>4. offset[r] \in 0..3 /\ offset[r] <= Len(MyText(r))
    BY DEF SyncTypeOK
  <1> QED BY <1>2, <1>3, <1>4

\* Nobody writes at first, and there is no file.
LEMMA InitSInv == SyncInit => SInv
  <1> SUFFICES ASSUME SyncInit PROVE SInv
    OBVIOUS
  <1> USE DEF SyncInit
  <1>1. \A r \in Run : offset[r] <= Len(MyText(r))
    <2> TAKE r \in Run
    <2>1. asked[r].mode \in SyncMode
      BY SyncConfigAssumption
    <2>2. Len(MyText(r)) \in 2..3
      BY <2>1, TextLength DEF MyText
    <2> QED BY <2>2
  <1>2. SyncTypeOK
    <2>1. asked \in [Run -> Asks]
      OBVIOUS
    <2>2. syncing \in [Run -> {"start", "dir", "open", "write", "done", "refused", "failed", "killed"}]
      OBVIOUS
    <2>3. offset \in [Run -> 0..3]
      OBVIOUS
    <2>4. syncDir \in BOOLEAN /\ config = NoFile /\ last \in Run \cup {NoRun} /\ torn \in BOOLEAN /\ touched \subseteq Run
      OBVIOUS
    <2> HIDE DEF SyncInit
    <2> QED BY <1>1, <2>1, <2>2, <2>3, <2>4 DEF SyncTypeOK
  <1>3. Progress /\ Alone /\ ConfigIsLast
    BY DEF Progress, Alone, ConfigIsLast, Writing
  <1> QED BY <1>2, <1>3 DEF SInv

LEMMA ValidateInv ==
  ASSUME SInv, NEW r \in Run, Validate(r)
  PROVE  SInv'
  <1> USE DEF SInv, Validate
  <1>0. \A q \in Run : (Writing(q)' <=> Writing(q)) /\ MyText(q)' = MyText(q)
    BY DEF Writing, MyText, SyncTypeOK
  <1>1. SyncTypeOK'
    BY <1>0 DEF SyncTypeOK
  <1>2. Progress'
    BY <1>0 DEF Progress, SyncTypeOK, Accepted
  <1>3. Alone'
    BY <1>0 DEF Alone
  <1>4. ConfigIsLast' /\ (last' # NoRun => syncing'[last'] = "done")
    BY <1>0 DEF ConfigIsLast, SyncTypeOK, MyText, Accepted
  <1> QED BY <1>1, <1>2, <1>3, <1>4

LEMMA MakeDirInv ==
  ASSUME SInv, NEW r \in Run, MakeDir(r)
  PROVE  SInv'
  <1> USE DEF SInv, MakeDir
  <1>0. \A q \in Run : (Writing(q)' <=> Writing(q)) /\ MyText(q)' = MyText(q)
    BY DEF Writing, MyText, SyncTypeOK
  <1>1. SyncTypeOK'
    BY <1>0 DEF SyncTypeOK
  <1>2. Progress'
    BY <1>0 DEF Progress, SyncTypeOK, Accepted
  <1>3. Alone'
    BY <1>0 DEF Alone
  <1>4. ConfigIsLast' /\ (last' # NoRun => syncing'[last'] = "done")
    BY <1>0 DEF ConfigIsLast, SyncTypeOK, MyText, Accepted
  <1> QED BY <1>1, <1>2, <1>3, <1>4

LEMMA TruncateInv ==
  ASSUME SInv, NEW r \in Run, Truncate(r)
  PROVE  SInv'
  <1> USE DEF SInv, Truncate
  <1>0. /\ \A q \in Run : MyText(q)' = MyText(q)
        /\ \A q \in Run \ {r} : Writing(q)' <=> Writing(q)
        /\ Writing(r)' /\ offset[r] = 0 /\ syncDir
    BY DEF Writing, MyText, SyncTypeOK, Progress
  <1>1. SyncTypeOK'
    BY <1>0 DEF SyncTypeOK
  <1>2. Progress'
    BY <1>0 DEF Progress, SyncTypeOK, Accepted, Cells
  <1>3. Alone'
    <2>1. [i \in 1..0 |-> asked[r].mode] = <<>>
      OBVIOUS
    <2> QED BY <1>0, <2>1 DEF Alone
  <1>4. ConfigIsLast' /\ (last' # NoRun => syncing'[last'] = "done")
    BY <1>0 DEF ConfigIsLast, SyncTypeOK
  <1> QED BY <1>1, <1>2, <1>3, <1>4

LEMMA WriteCellsInv ==
  ASSUME SInv, NEW r \in Run, NEW n \in 1..3, WriteCells(r, n)
  PROVE  SInv'
  <1> USE DEF SInv
  <1>0. /\ \A q \in Run : (Writing(q)' <=> Writing(q)) /\ MyText(q)' = MyText(q)
        /\ UNCHANGED <<asked, syncing, syncDir, last, torn, touched>>
        /\ Writing(r) /\ offset' = [offset EXCEPT ![r] = n]
    BY DEF WriteCells, Writing, MyText
  <1>1. /\ asked[r].mode \in SyncMode /\ offset[r] \in 0..3 /\ n <= Len(MyText(r)) /\ n > offset[r]
        /\ Len(MyText(r)) \in 2..3
    <2>1. /\ asked[r].mode \in SyncMode /\ offset[r] \in 0..3
          /\ Len(MyText(r)) \in 2..3
      BY ModeType
    <2>2. n \in offset[r] + 1..Len(MyText(r))
      BY DEF WriteCells
    <2> QED BY <2>1, <2>2
  <1>2. config \in Cells /\ Len(config) \in Nat /\ syncDir
    <2>1. config \in Cells /\ syncDir
      BY <1>0 DEF Progress, Writing
    <2> QED BY <2>1 DEF Cells
  <1> DEFINE m == IF n > Len(config) THEN n ELSE Len(config)
             cell(i) == IF i > offset[r] /\ i <= n THEN asked[r].mode
                        ELSE IF i <= Len(config) THEN config[i] ELSE Hole
  <1>3. config' = [i \in 1..m |-> cell(i)]
    BY DEF WriteCells
  <1>4. m \in Nat
    BY <1>2
  <1>5. \A i \in 1..m : cell(i) \in SyncMode \cup {Hole}
    BY <1>1, <1>2 DEF Cells
  <1>6. config' \in Cells
    <2> HIDE DEF m, cell
    <2> QED BY <1>3, <1>4, <1>5 DEF Cells
  <1>7. SyncTypeOK'
    <2>1. offset' \in [Run -> 0..3]
      BY <1>0, <1>1 DEF SyncTypeOK
    <2>2. \A q \in Run : offset'[q] <= Len(MyText(q)')
      BY <1>0, <1>1 DEF SyncTypeOK
    <2> QED BY <1>0, <1>2, <1>6, <2>1, <2>2 DEF SyncTypeOK, Cells
  <1>8. Progress'
    BY <1>0, <1>6 DEF Progress, SyncTypeOK, Accepted, Writing
  <1>9. Alone'
    <2> SUFFICES ASSUME ~torn PROVE Alone'
      BY <1>0 DEF Alone
    <2>1. \A q \in Run : Writing(q) => q = r
      BY <1>0 DEF Alone
    <2>2. config = [i \in 1..offset[r] |-> asked[r].mode] /\ Len(config) = offset[r]
      <3>1. config = [i \in 1..offset[r] |-> asked[r].mode]
        BY <1>0 DEF Alone
      <3> QED BY <1>1, <3>1
    <2>3. m = n /\ \A i \in 1..n : cell(i) = asked[r].mode
      BY <1>1, <2>2
    <2>4. config' = [i \in 1..n |-> asked[r].mode]
      <3> HIDE DEF m, cell
      <3> QED BY <1>3, <2>3
    <2>5. offset'[r] = n
      BY <1>0 DEF SyncTypeOK
    <2> HIDE DEF m, cell
    <2> QED BY <1>0, <2>1, <2>4, <2>5 DEF Alone
  <1>10. ConfigIsLast' /\ (last' # NoRun => syncing'[last'] = "done")
    BY <1>0 DEF ConfigIsLast
  <1> QED BY <1>7, <1>8, <1>9, <1>10

LEMMA WrittenInv ==
  ASSUME SInv, NEW r \in Run, Written(r)
  PROVE  SInv'
  <1> USE DEF SInv, Written
  <1>0. /\ \A q \in Run : MyText(q)' = MyText(q)
        /\ \A q \in Run \ {r} : Writing(q)' <=> Writing(q)
        /\ ~Writing(r)' /\ Writing(r) /\ syncing'[r] = "done"
    BY DEF Writing, MyText, SyncTypeOK
  <1>1. SyncTypeOK'
    BY <1>0 DEF SyncTypeOK
  <1>2. Progress'
    BY <1>0 DEF Progress, SyncTypeOK, Accepted, Writing
  <1>3. Alone'
    BY <1>0 DEF Alone
  <1>4. ConfigIsLast'
    <2> SUFFICES ASSUME ~torn PROVE config = MyText(r) /\ Accepted(asked[r])
      BY <1>0, SyncConfigAssumption DEF ConfigIsLast, MyText, Accepted
    <2>1. config = [i \in 1..offset[r] |-> asked[r].mode]
      BY <1>0 DEF Alone
    <2>2. offset[r] = Size(asked[r].mode)
      BY ModeType
    <2> QED BY <1>0, <2>1, <2>2 DEF Progress, MyText, TextOf, Writing
  <1> QED BY <1>0, <1>1, <1>2, <1>3, <1>4

LEMMA BreakOffInv ==
  ASSUME SInv, NEW r \in Run, NEW how \in {"failed", "killed"}, BreakOff(r, how)
  PROVE  SInv'
  <1> USE DEF SInv, BreakOff
  <1>0. /\ \A q \in Run : MyText(q)' = MyText(q)
        /\ \A q \in Run \ {r} : Writing(q)' <=> Writing(q)
        /\ ~Writing(r)' /\ syncing'[r] = how
    BY DEF Writing, MyText, SyncTypeOK
  <1>1. SyncTypeOK'
    BY <1>0 DEF SyncTypeOK
  <1>2. Progress'
    BY <1>0 DEF Progress, SyncTypeOK, Accepted, Writing
  <1>3. Alone'
    BY <1>0 DEF Alone
  <1>4. ConfigIsLast' /\ (last' # NoRun => syncing'[last'] = "done")
    BY <1>0 DEF ConfigIsLast, SyncTypeOK, MyText, Accepted
  <1> QED BY <1>1, <1>2, <1>3, <1>4

LEMMA StepSInv == SInv /\ [SyncNext]_syncVars => SInv'
  <1> SUFFICES ASSUME SInv, [SyncNext]_syncVars PROVE SInv'
    OBVIOUS
  <1>1. CASE UNCHANGED syncVars
    BY <1>1 DEF SInv, SyncTypeOK, Progress, Alone, ConfigIsLast, Writing, MyText, Accepted, syncVars
  <1>2. CASE SyncNext
    BY <1>2, ValidateInv, MakeDirInv, TruncateInv, WriteCellsInv, WrittenInv, BreakOffInv
    DEF SyncNext
  <1> QED BY <1>1, <1>2

LEMMA AlwaysSInv == SyncSpec => []SInv
  BY InitSInv, StepSInv, PTL DEF SyncSpec

\* The variables have their types.
THEOREM SyncTypes == SyncSpec => []SyncTypeOK
  <1>1. SInv => SyncTypeOK
    BY DEF SInv
  <1> QED BY <1>1, AlwaysSInv, PTL

\* The file is that of the run that finished last, whenever no run is writing and
\* the last one to write was alone and came to its end.
THEOREM LastRunWins == SyncSpec => []ConfigIsLast
  <1>1. SInv => ConfigIsLast
    BY DEF SInv
  <1> QED BY <1>1, AlwaysSInv, PTL

\* A refused mode or interval leaves the disk as it was.
THEOREM RefusedIsHarmless == SyncSpec => []RefusedChangesNothing
  <1>1. SInv => RefusedChangesNothing
    BY DEF SInv, Progress, RefusedChangesNothing
  <1> QED BY <1>1, AlwaysSInv, PTL

-----------------------------------------------------------------------------
(***************************************************************************)
(* CommandLine.  What the loop has is a function of what clap has (Due,    *)
(* Words), but for what it passes over (Tallies, and a lone hyphen),       *)
(* except in the commands of a vault, whose first word is enough.          *)
(***************************************************************************)

Said == Value \cup Names \cup {Nothing}
Wanting == {"-p", "--path", "--port", "--password-file"}

LineTypes ==
  /\ clap \in [at : {"axiom"} \cup Names, wants : Wanting \cup {Nothing}, escaped : BOOLEAN,
               path : Said, point : Said, port : Said]
  /\ loop \in [due : {"any", "rest", "path", "value"}, positional : Seq(Said), vault : Said]
  /\ line \in Seq(Token)

\* The loop has v where clap has path p.
Tallies(v, p) == v = p \/ (v = Nothing /\ Attached(p))

\* What becomes of the next argument.
Due ==
  IF clap.wants = Nothing
  THEN IF clap.escaped THEN "rest" ELSE "any"
  ELSE IF clap.wants \in {"-p", "--path"} THEN "path" ELSE "value"

\* The words of the command so far.
Words ==
  IF clap.at = "axiom" THEN <<>>
  ELSE IF clap.at = "mount" THEN <<"mount">>
  ELSE IF clap.at = "fuse" /\ clap.point # Nothing THEN <<"mount", "fuse", clap.point>>
  ELSE <<"mount", clap.at>>

Alike ==
  /\ clap.wants # Nothing => ~clap.escaped
  /\ clap.at # "fuse" => clap.point = Nothing
  /\ clap.at = "vault" => loop.positional # <<>> /\ loop.positional[1] = "vault"
  /\ clap.at # "vault" =>
       /\ loop.due = Due /\ Tallies(loop.vault, clap.path)
       /\ \/ loop.positional = Words
          \/ /\ clap.at = "fuse" /\ clap.point = "-"
             /\ loop.positional = <<"mount", "fuse">>

LineInv == LineTypes /\ Alike

\* The forms of a token are told apart by their strings.
LEMMA TokenForms ==
  ASSUME NEW t \in Token
  PROVE  /\ t.val \in Said
         /\ t.form \in Option \cup {"word", "--"}
         /\ t = [form |-> t.form, val |-> t.val]
         /\ t.form = "word" => t.val \in Value \cup Names
         /\ t.form \in WithValue => t.val \in Value
  BY DEF Token, Word, Said, Option, WithValue

\* What was attached stays so, and what comes attached is so.
LEMMA AttachedKeeps ==
  ASSUME line \in Seq(Token), NEW t \in Token, line' = Append(line, t)
  PROVE  /\ line' \in Seq(Token)
         /\ \A v, p : Tallies(v, p) => Tallies(v, p)'
         /\ t.form = "-pv" /\ t.val \in Hyphened => Attached(t.val)'
  <1>1. /\ line' \in Seq(Token) /\ Len(line') = Len(line) + 1 /\ Len(line) \in Nat
        /\ \A i \in 1..Len(line) : line'[i] = line[i]
        /\ line'[Len(line) + 1] = t
    OBVIOUS
  <1>2. \A v : Attached(v) => Attached(v)'
    BY <1>1 DEF Attached
  <1>3. t.form = "-pv" /\ t.val \in Hyphened => Attached(t.val)'
    BY <1>1 DEF Attached
  <1>4. \A v, p : Tallies(v, p) => Tallies(v, p)'
    BY <1>2 DEF Tallies
  <1> QED BY <1>1, <1>3, <1>4

\* A tuple that is longer by one at the end.
LEMMA AppendIs ==
  ASSUME NEW S, NEW s \in Seq(S), NEW r \in Seq(S), NEW v \in S, Len(r) = Len(s) + 1,
         r[Len(r)] = v, \A i \in 1..Len(s) : r[i] = s[i]
  PROVE  Append(s, v) = r
  <1>1. Append(s, v) \in Seq(S) /\ Len(Append(s, v)) = Len(r)
    OBVIOUS
  <1>2. \A i \in 1..Len(r) : Append(s, v)[i] = r[i]
    OBVIOUS
  <1> QED BY <1>1, <1>2, SeqEqual

LEMMA AppendToPair ==
  ASSUME NEW S, NEW a \in S, NEW b \in S, NEW v \in S
  PROVE  /\ Append(<<a>>, v) = <<a, v>>
         /\ Append(<<a, b>>, v) = <<a, b, v>>
  <1> DEFINE s == <<a>>  r == <<a, v>>  s2 == <<a, b>>  r2 == <<a, b, v>>
  <1>1. s \in Seq(S) /\ r \in Seq(S) /\ Len(r) = Len(s) + 1 /\ r[Len(r)] = v
    OBVIOUS
  <1>2. \A i \in 1..Len(s) : r[i] = s[i]
    OBVIOUS
  <1>3. s2 \in Seq(S) /\ r2 \in Seq(S) /\ Len(r2) = Len(s2) + 1 /\ r2[Len(r2)] = v
    OBVIOUS
  <1>4. \A i \in 1..Len(s2) : r2[i] = s2[i]
    OBVIOUS
  <1> HIDE DEF s, r, s2, r2
  <1>5. Append(s, v) = r
    BY <1>1, <1>2, AppendIs
  <1>6. Append(s2, v) = r2
    BY <1>3, <1>4, AppendIs
  <1> QED BY <1>5, <1>6 DEF s, r, s2, r2

\* What a turn of the loop can do.
LEMMA TurnKeepsTypes ==
  ASSUME LineTypes, NEW t \in Token
  PROVE  /\ TakeArgument(loop, t).due \in {"any", "rest", "path", "value"}
         /\ TakeArgument(loop, t).vault \in Said
         /\ TakeArgument(loop, t).positional \in {loop.positional, Append(loop.positional, t.val)}
         /\ TakeArgument(loop, t) \in
              [due : {"any", "rest", "path", "value"}, positional : Seq(Said), vault : Said]
         /\ (loop.due = "rest" \/ (loop.due = "any" /\ IsWord(t))) =>
              TakeArgument(loop, t) = [loop EXCEPT !.positional = Append(@, t.val)]
  <1>1. t.val \in Said
    BY TokenForms
  <1>2. CASE loop.due = "rest" \/ (loop.due = "any" /\ IsWord(t))
    <2>1. TakeArgument(loop, t) = [loop EXCEPT !.positional = Append(@, t.val)]
      BY <1>2 DEF TakeArgument, GivesPath, IsWord
    <2>2. Append(loop.positional, t.val) \in Seq(Said)
      BY <1>1 DEF LineTypes
    <2>3. [loop EXCEPT !.positional = Append(@, t.val)] =
            [due |-> loop.due, positional |-> Append(loop.positional, t.val), vault |-> loop.vault]
      <3>1. loop \in [due : {"any", "rest", "path", "value"}, positional : Seq(Said), vault : Said]
        BY DEF LineTypes
      <3> QED BY <3>1
    <2> HIDE DEF TakeArgument
    <2> QED BY <2>1, <2>2, <2>3 DEF LineTypes
  <1>3. CASE ~(loop.due = "rest" \/ (loop.due = "any" /\ IsWord(t)))
    <2>1. \/ TakeArgument(loop, t) = [loop EXCEPT !.vault = t.val, !.due = "any"]
          \/ TakeArgument(loop, t) = [loop EXCEPT !.vault = t.val]
          \/ TakeArgument(loop, t) = [loop EXCEPT !.due = "any"]
          \/ TakeArgument(loop, t) = [loop EXCEPT !.due = "rest"]
          \/ TakeArgument(loop, t) = [loop EXCEPT !.due = "path"]
          \/ TakeArgument(loop, t) = [loop EXCEPT !.due = "value"]
          \/ TakeArgument(loop, t) = loop
      <3>1. CASE loop.due # "any"
        <4>1. CASE loop.due = "path"
          BY <4>1 DEF TakeArgument
        <4>2. CASE loop.due = "value"
          BY <4>2 DEF TakeArgument
        <4>3. loop.due \in {"path", "value"}
          BY <1>3, <3>1 DEF LineTypes
        <4> QED BY <4>1, <4>2, <4>3
      <3>2. CASE loop.due = "any"
        BY <1>3, <3>2 DEF TakeArgument, IsWord, GivesPath
      <3> QED BY <3>1, <3>2
    <2> QED BY <1>1, <1>3, <2>1 DEF LineTypes
  <1> QED BY <1>2, <1>3

LEMMA LineStarts == LineInit => LineInv
  BY DEF LineInit, LineInv, LineTypes, Alike, Fresh, BeforeLoop, Due, Words, Said, Names, Nothing,
         Wanting, Tallies

\* Both take an argument the same way: a value that is due, a word, the "--" and
\* an option, each of them a case.
LEMMA TypeKeeps ==
  ASSUME LineInv, NEW t \in Token, Type(t)
  PROVE  LineInv'
  <1> USE TokenForms DEF LineInv
  <1>1. /\ LineTypes /\ Alike /\ Takes(clap, t)
        /\ clap' = AfterToken(clap, t) /\ loop' = TakeArgument(loop, t)
        /\ line' = Append(line, t) /\ line \in Seq(Token)
    BY DEF Type, LineTypes
  <1>0. /\ line' \in Seq(Token) /\ \A v, p : Tallies(v, p) => Tallies(v, p)'
        /\ t.form = "-pv" /\ t.val \in Hyphened => Attached(t.val)'
    BY <1>1, AttachedKeeps
  <1>2. CASE clap.at = "vault"
    <2>1. clap' = clap
      BY <1>1, <1>2 DEF AfterToken
    <2>2. loop' \in [due : {"any", "rest", "path", "value"}, positional : Seq(Said), vault : Said]
      BY <1>1, TurnKeepsTypes
    <2>3. loop'.positional # <<>> /\ loop'.positional[1] = "vault"
      <3>1. loop'.positional \in {loop.positional, Append(loop.positional, t.val)}
        BY <1>1, TurnKeepsTypes
      <3>2. loop.positional \in Seq(Said) /\ loop.positional # <<>> /\ loop.positional[1] = "vault"
        BY <1>1, <1>2 DEF LineTypes, Alike
      <3> QED BY <3>1, <3>2
    <2> QED BY <1>0, <1>1, <1>2, <2>1, <2>2, <2>3 DEF LineTypes, Alike
  <1>3. CASE clap.at # "vault" /\ clap.wants # Nothing
    <2>1. t.form = "word"
      BY <1>1, <1>3 DEF Takes
    <2>2. clap' = [WithOption(clap, clap.wants, t.val) EXCEPT !.wants = Nothing]
      BY <1>1, <1>3 DEF AfterToken
    <2>3. CASE clap.wants \in {"-p", "--path"}
      <3>1. clap' = [clap EXCEPT !.path = t.val, !.wants = Nothing]
        BY <1>1, <2>2, <2>3 DEF WithOption, LineTypes
      <3>2. loop' = [loop EXCEPT !.vault = t.val, !.due = "any"]
        BY <1>1, <1>3, <2>3 DEF TakeArgument, Alike, Due, LineTypes
      <3>3. Tallies(loop.vault, clap.path)'
        BY <1>1, <3>1, <3>2 DEF Tallies, LineTypes
      <3> QED BY <1>0, <1>1, <1>3, <3>1, <3>2, <3>3 DEF LineTypes, Alike, Due, Words
    <2>4. CASE clap.wants \in {"--port", "--password-file"}
      <3>1. \/ clap' = [clap EXCEPT !.port = t.val, !.wants = Nothing]
            \/ clap' = [clap EXCEPT !.wants = Nothing]
        BY <1>1, <2>2, <2>4 DEF WithOption, LineTypes
      <3>2. loop' = [loop EXCEPT !.due = "any"]
        BY <1>1, <1>3, <2>4 DEF TakeArgument, Alike, Due, LineTypes
      <3> QED BY <1>0, <1>1, <1>3, <3>1, <3>2 DEF LineTypes, Alike, Due, Words
    <2> QED BY <1>1, <1>3, <2>3, <2>4 DEF LineTypes, Wanting
  <1>4. CASE clap.at # "vault" /\ clap.wants = Nothing /\ t.form = "word"
    <2>1. TakesWord(clap, t.val)
      BY <1>1, <1>4 DEF Takes, Option
    <2>2. loop.due = Due /\ Due \in {"any", "rest"} /\ (Due = "rest" <=> clap.escaped)
      BY <1>1, <1>4 DEF Alike, Due, LineTypes
    <2>3. clap.escaped \/ t.val \notin Hyphened \/ t.val = "-"
      BY <1>1, <1>4 DEF Takes, MayBeWord, Option
    <2>4. clap.escaped \/ t.val \notin Hyphened
            => loop' = [loop EXCEPT !.positional = Append(@, t.val)]
      BY <1>1, <1>4, <2>2, TurnKeepsTypes DEF IsWord
    <2>5. CASE clap.at \in DOMAIN Sub
      <3>1. clap' = [clap EXCEPT !.at = t.val]
        BY <1>1, <1>4, <2>5 DEF AfterToken, WithValue
      <3>2. clap.at \in {"axiom", "mount"} /\ t.val \in Sub[clap.at]
        BY <2>1, <2>5 DEF TakesWord, Sub
      <3>3. t.val \in Names
        BY <3>2 DEF Sub, Names
      <3>4. /\ loop.positional = Words /\ t.val \in Said
            /\ loop' = [loop EXCEPT !.positional = Append(@, t.val)]
        BY <1>1, <1>4, <2>4, <3>2, <3>3, CommandLineAssumption DEF Alike
      <3>5. CASE clap.at = "axiom"
        <4>1. t.val \in {"mount", "vault"} /\ Words = <<>>
          BY <3>2, <3>5 DEF Sub, Words
        <4>2. loop'.positional = <<t.val>>
          BY <1>1, <3>4, <4>1 DEF LineTypes
        <4>3. LineTypes'
          BY <1>0, <1>1, <3>1, <3>3, TurnKeepsTypes DEF LineTypes
        <4>4. /\ clap'.wants = Nothing /\ clap'.point = Nothing /\ clap'.path = clap.path
              /\ clap'.at = t.val /\ clap'.escaped = clap.escaped
              /\ loop'.due = loop.due /\ loop'.vault = loop.vault
          BY <1>1, <1>4, <3>1, <3>4, <3>5 DEF LineTypes, Alike
        <4>5. Alike'
          <5>1. loop.due = Due /\ Due' = Due /\ Tallies(loop.vault, clap.path)'
            BY <1>0, <1>1, <1>4, <4>4 DEF Alike, Due
          <5>2. CASE t.val = "vault"
            <6>1. loop'.positional # <<>> /\ loop'.positional[1] = "vault"
              BY <4>2, <5>2
            <6> QED BY <4>4, <5>2, <6>1 DEF Alike
          <5>3. CASE t.val = "mount"
            <6>1. loop'.positional = Words'
              BY <4>2, <4>4, <5>3 DEF Words
            <6> QED BY <4>4, <5>1, <5>3, <6>1 DEF Alike
          <5> QED BY <4>1, <5>2, <5>3
        <4> QED BY <4>3, <4>5
      <3>6. CASE clap.at = "mount"
        <4>1. t.val \in {"fuse", "webdav", "list"} /\ Words = <<"mount">>
          BY <3>2, <3>6 DEF Sub, Words
        <4>2. loop'.positional = <<"mount", t.val>>
          <5>1. "mount" \in Said
            BY DEF Said, Names
          <5>2. Append(<<"mount">>, t.val) = <<"mount", t.val>>
            BY <3>4, <5>1, AppendToPair
          <5> QED BY <1>1, <3>4, <4>1, <5>2 DEF LineTypes
        <4> QED BY <1>0, <1>1, <1>4, <3>1, <3>4, <3>6, <4>1, <4>2, TurnKeepsTypes
                DEF LineTypes, Alike, Due, Words, Names
      <3> QED BY <3>2, <3>5, <3>6
    <2>6. CASE clap.at \notin DOMAIN Sub
      <3>1. clap' = [clap EXCEPT !.point = t.val]
        BY <1>1, <1>4, <2>6 DEF AfterToken, WithValue
      <3>2. clap.at = "fuse" /\ clap.point = Nothing /\ t.val # Nothing
        BY <1>4, <2>1, <2>6, CommandLineAssumption DEF TakesWord, Names, Nothing
      <3>3. loop.positional = <<"mount", "fuse">> /\ t.val \in Said
        BY <1>1, <1>4, <3>2 DEF Alike, Words
      <3>4. CASE clap.escaped \/ t.val \notin Hyphened
        <4>1. "mount" \in Said /\ "fuse" \in Said
          BY DEF Said, Names
        <4>2. Append(<<"mount", "fuse">>, t.val) = <<"mount", "fuse", t.val>>
          BY <3>3, <4>1, AppendToPair
        <4>3. loop'.positional = <<"mount", "fuse", t.val>>
          BY <1>1, <2>4, <3>3, <3>4, <4>2 DEF LineTypes
        <4> QED BY <1>0, <1>1, <1>4, <2>4, <3>1, <3>2, <3>4, <4>3, TurnKeepsTypes
                DEF LineTypes, Alike, Due, Words
      <3>5. CASE ~clap.escaped /\ t.val \in Hyphened
        <4>1. t.val = "-" /\ loop' = loop
          BY <1>1, <1>4, <2>2, <2>3, <3>5 DEF TakeArgument, IsWord, GivesPath
        <4> QED BY <1>0, <1>1, <1>4, <3>1, <3>2, <3>3, <4>1 DEF LineTypes, Alike, Due
      <3> QED BY <3>4, <3>5
    <2> QED BY <2>5, <2>6
  <1>5. CASE clap.at # "vault" /\ clap.wants = Nothing /\ t.form = "--"
    <2>1. clap' = [clap EXCEPT !.escaped = TRUE] /\ ~clap.escaped
      BY <1>1, <1>5 DEF AfterToken, Takes, Option, WithValue
    <2>2. loop' = [loop EXCEPT !.due = "rest"]
      BY <1>1, <1>5, <2>1 DEF TakeArgument, Alike, Due, GivesPath, IsWord
    <2> QED BY <1>0, <1>1, <1>5, <2>1, <2>2 DEF LineTypes, Alike, Due, Words
  <1>6. CASE clap.at # "vault" /\ clap.wants = Nothing /\ t.form \in Option
    <2>1. ~clap.escaped /\ loop.due = "any"
      BY <1>1, <1>6 DEF Takes, Option, Alike, Due
    <2>2. CASE t.form \in {"--path=", "-p=", "-pv"}
      <3>1. clap' = [clap EXCEPT !.path = t.val]
        BY <1>1, <1>6, <2>2 DEF AfterToken, WithOption, WithValue
      <3>2. clap.path = Nothing
        BY <1>1, <1>6, <2>2 DEF Takes, Allowed, Option
      <3>3. CASE GivesPath(t)
        <4>1. loop' = [loop EXCEPT !.vault = t.val]
          BY <1>1, <2>1, <2>2, <3>3 DEF TakeArgument, IsWord
        <4>2. Tallies(loop.vault, clap.path)'
          BY <1>1, <3>1, <4>1 DEF Tallies, LineTypes
        <4> QED BY <1>0, <1>1, <1>6, <2>1, <3>1, <4>1, <4>2 DEF LineTypes, Alike, Due, Words
      <3>4. CASE ~GivesPath(t)
        <4>1. t.form = "-pv" /\ t.val \in Hyphened /\ loop' = loop
          BY <1>1, <2>1, <2>2, <3>4 DEF TakeArgument, GivesPath, IsWord
        <4>2. loop.vault = Nothing
          BY <1>1, <1>6, <3>2 DEF Alike, Tallies
        <4>3. Tallies(loop.vault, clap.path)'
          BY <1>0, <1>1, <3>1, <4>1, <4>2 DEF Tallies, LineTypes
        <4> QED BY <1>0, <1>1, <1>6, <2>1, <3>1, <4>1, <4>3 DEF LineTypes, Alike, Due, Words
      <3> QED BY <3>3, <3>4
    <2>3. CASE t.form \in {"--port=", "--password-file="}
      <3>1. clap' = [clap EXCEPT !.port = t.val] \/ clap' = clap
        BY <1>1, <1>6, <2>3 DEF AfterToken, WithOption, WithValue
      <3>2. loop' = loop
        BY <1>1, <2>1, <2>3 DEF TakeArgument, GivesPath, IsWord
      <3> QED BY <1>0, <1>1, <1>6, <2>1, <3>1, <3>2 DEF LineTypes, Alike, Due, Words
    <2>4. CASE t.form \in {"-p", "--path"}
      <3>1. clap' = [clap EXCEPT !.wants = t.form]
        BY <1>1, <1>6, <2>4 DEF AfterToken, WithValue
      <3>2. loop' = [loop EXCEPT !.due = "path"]
        BY <1>1, <2>1, <2>4 DEF TakeArgument, GivesPath, IsWord
      <3> QED BY <1>0, <1>1, <1>6, <2>1, <2>4, <3>1, <3>2
              DEF LineTypes, Alike, Due, Words, Wanting, Nothing
    <2>5. CASE t.form \in {"--port", "--password-file"}
      <3>1. clap' = [clap EXCEPT !.wants = t.form]
        BY <1>1, <1>6, <2>5 DEF AfterToken, WithValue
      <3>2. loop' = [loop EXCEPT !.due = "value"]
        BY <1>1, <2>1, <2>5 DEF TakeArgument, GivesPath, IsWord
      <3> QED BY <1>0, <1>1, <1>6, <2>1, <2>5, <3>1, <3>2
              DEF LineTypes, Alike, Due, Words, Wanting, Nothing
    <2>6. CASE t.form \in {"--read-only", "-v", "--json"}
      <3>1. clap' = clap
        BY <1>1, <1>6, <2>6 DEF AfterToken, WithValue
      <3>2. loop' = loop
        BY <1>1, <2>1, <2>6 DEF TakeArgument, GivesPath, IsWord
      <3> QED BY <1>0, <1>1, <3>1, <3>2 DEF LineTypes, Alike, Due, Words
    <2> QED BY <1>6, <2>2, <2>3, <2>4, <2>5, <2>6 DEF Option
  <1> QED BY <1>2, <1>3, <1>4, <1>5, <1>6

\* The loop of parse_args (mount_list.rs:72) is never out of step with clap.
THEOREM LoopKeepsStep == LineSpec => []LineInv
  <1>1. LineInv /\ [LineNext]_lineVars => LineInv'
    <2>1. LineInv /\ UNCHANGED lineVars => LineInv'
      BY DEF lineVars, LineInv, LineTypes, Alike, Due, Words, Tallies, Attached
    <2> QED BY <2>1, TypeKeeps DEF LineNext
  <1> QED BY <1>1, LineStarts, PTL DEF LineSpec

LEMMA AlikeParsesAsRun == LineInv => ParsedAsRun
  <1> SUFFICES ASSUME LineInv, Complete(clap) PROVE ParsedAsRun
    BY DEF ParsedAsRun
  <1>1. CASE clap.at = "vault"
    BY <1>1 DEF ParsedAsRun, LineInv, LineTypes, Alike, parse_args, Serves
  <1>2. CASE clap.at = "list"
    BY <1>2 DEF ParsedAsRun, LineInv, LineTypes, Alike, Words, parse_args, Serves
  <1>3. CASE clap.at = "webdav"
    <2>1. loop.positional = <<"mount", "webdav">> /\ Tallies(loop.vault, clap.path)
      BY <1>3 DEF LineInv, LineTypes, Alike, Words
    <2>2. clap.point = Nothing
      BY <1>3 DEF LineInv, Alike
    <2> QED BY <1>3, <2>1, <2>2 DEF ParsedAsRun, parse_args, Serves, Tallies
  <1>4. CASE clap.at = "fuse"
    <2>1. /\ Tallies(loop.vault, clap.path)
          /\ \/ loop.positional = <<"mount", "fuse", clap.point>>
             \/ loop.positional = <<"mount", "fuse">> /\ clap.point = "-"
      BY <1>4 DEF LineInv, LineTypes, Alike, Words, Complete
    <2>2. CASE loop.positional = <<"mount", "fuse", clap.point>>
      BY <1>4, <2>1, <2>2 DEF ParsedAsRun, parse_args, Serves, Tallies
    <2>3. CASE loop.positional = <<"mount", "fuse">> /\ clap.point = "-"
      BY <1>4, <2>1, <2>3 DEF ParsedAsRun, parse_args, Serves, Tallies
    <2> QED BY <2>1, <2>2, <2>3
  <1> QED BY <1>1, <1>2, <1>3, <1>4 DEF Complete

\* `mount list` takes from a command line what the process took from it, for any
\* values of options and any number of arguments.
THEOREM ParsedAsItRuns == LineSpec => []ParsedAsRun
  BY LoopKeepsStep, AlikeParsesAsRun, PTL

-----------------------------------------------------------------------------
(***************************************************************************)
(* HardwareResponse.  The digits that are kept and the digits that were    *)
(* typed are the same set but for the place of the prefix (UpToShifts),    *)
(* and a digit's place in it is where the filter puts it (CleanedKeeps).   *)
(* Nothing here needs induction: the filter is defined by places.          *)
(***************************************************************************)

\* A set of natural numbers has a least element.
LEMMA LeastExists ==
  ASSUME NEW T \in SUBSET Nat, T # {}
  PROVE  \E x \in T : \A y \in T : x <= y
  <1> DEFINE R == OpToRel(<, Nat)
  <1>1. IsWellFoundedOn(R, Nat)
    BY NatLessThanWellFounded
  <1>2. \A x, y \in Nat : x < y => <<x, y>> \in R
    BY DEF OpToRel
  <1> HIDE DEF R
  <1>3. PICK x \in T : \A y \in T : <<y, x>> \notin R
    BY <1>1, WFMin
  <1>4. \A y \in T : ~(y < x)
    BY <1>2, <1>3
  <1>5. \A y \in T : y \in Int /\ x \in Int
    OBVIOUS
  <1> QED BY <1>4, <1>5

\* How many there are up to an element tells the elements apart.
LEMMA UpToOrders ==
  ASSUME NEW n \in Nat, NEW S \in SUBSET (1..n)
  PROVE  /\ Cardinality(S) \in Nat
         /\ \A i \in S : UpTo(S, i) \in 1..Cardinality(S)
         /\ \A i, j \in S : UpTo(S, i) = UpTo(S, j) => i = j
  <1> DEFINE Low(i) == {j \in S : j <= i}
  <1>1. IsFiniteSet(S) /\ Cardinality(S) \in Nat
    <2>1. IsFiniteSet(1..n)
      BY FS_Interval
    <2>2. IsFiniteSet(S)
      BY <2>1, FS_Subset
    <2> QED BY <2>2, FS_CardinalityType
  <1>2. \A i \in S : /\ IsFiniteSet(Low(i)) /\ Cardinality(Low(i)) \in Nat
                     /\ Cardinality(Low(i)) <= Cardinality(S) /\ Low(i) # {}
    <2> TAKE i \in S
    <2>1. Low(i) \in SUBSET S /\ i \in Low(i)
      OBVIOUS
    <2> HIDE DEF Low
    <2> QED BY <1>1, <2>1, FS_Subset, FS_CardinalityType
  <1>3. \A i \in S : Cardinality(Low(i)) # 0
    <2> TAKE i \in S
    <2> HIDE DEF Low
    <2> QED BY <1>2, FS_EmptySet
  <1>4. ASSUME NEW i \in S, NEW j \in S, i < j
        PROVE  Cardinality(Low(i)) # Cardinality(Low(j))
    <2>4. \A k \in S : k \in Int
      OBVIOUS
    <2>1. Low(i) \in SUBSET Low(j) /\ j \in Low(j) /\ j \notin Low(i)
      <3>1. \A k \in S : k <= i => k <= j
        BY <1>4, <2>4
      <3>2. j <= j /\ ~(j <= i)
        BY <1>4, <2>4
      <3> QED BY <3>1, <3>2
    <2>2. IsFiniteSet(Low(j))
      BY <1>2
    <2> HIDE DEF Low
    <2>3. Low(i) # Low(j)
      BY <2>1
    <2> QED BY <2>1, <2>2, <2>3, FS_Subset
  <1>5. \A i, j \in S : Cardinality(Low(i)) = Cardinality(Low(j)) => i = j
    <2> TAKE i, j \in S
    <2>1. i \in Int /\ j \in Int
      OBVIOUS
    <2>2. i = j \/ i < j \/ j < i
      BY <2>1
    <2> HIDE DEF Low
    <2> QED BY <1>4, <2>2
  <1> HIDE DEF Low
  <1>6. \A i \in S : Cardinality(Low(i)) \in 1..Cardinality(S)
    BY <1>1, <1>2, <1>3
  <1> QED BY <1>1, <1>5, <1>6 DEF UpTo, Low

\* Moving a set up moves the elements' places with it.
LEMMA UpToShifts ==
  ASSUME NEW n \in Nat, NEW S \in SUBSET (1..n), NEW d \in Nat, NEW T,
         T = {x + d : x \in S}
  PROVE  /\ Cardinality(T) = Cardinality(S)
         /\ \A x \in S : UpTo(T, x + d) = UpTo(S, x)
  <1>1. \A A \in SUBSET (1..n) : Cardinality({x + d : x \in A}) = Cardinality(A)
    <2> TAKE A \in SUBSET (1..n)
    <2> DEFINE B == {x + d : x \in A}  f == [x \in A |-> x + d]  g == [t \in B |-> t - d]
    <2>1. IsFiniteSet(A)
      <3>1. IsFiniteSet(1..n)
        BY FS_Interval
      <3> QED BY <3>1, FS_Subset
    <2>2. f \in [A -> B] /\ \A x, y \in A : f[x] = f[y] => x = y
      OBVIOUS
    <2>3. g \in [B -> A] /\ \A x, y \in B : g[x] = g[y] => x = y
      OBVIOUS
    <2> HIDE DEF f, g, B
    <2>4. f \in Injection(A, B) /\ g \in Injection(B, A)
      BY <2>2, <2>3 DEF Injection, IsInjective
    <2>5. IsFiniteSet(B) /\ Cardinality(B) <= Cardinality(A)
      BY <2>1, <2>4, FS_Injection
    <2>6. Cardinality(A) <= Cardinality(B)
      BY <2>4, <2>5, FS_Injection
    <2>7. Cardinality(A) \in Nat /\ Cardinality(B) \in Nat
      BY <2>1, <2>5, FS_CardinalityType
    <2>8. Cardinality(B) = Cardinality(A)
      BY <2>5, <2>6, <2>7
    <2> QED BY <2>8 DEF B
  <1>2. ASSUME NEW x \in S
        PROVE  UpTo(T, x + d) = UpTo(S, x)
    <2> DEFINE A == {j \in S : j <= x}
    <2>1. A \in SUBSET (1..n)
      OBVIOUS
    <2>2. {j \in T : j <= x + d} = {y + d : y \in A}
      OBVIOUS
    <2> HIDE DEF A
    <2>3. Cardinality({y + d : y \in A}) = Cardinality(A)
      BY <1>1, <2>1
    <2>4. UpTo(T, x + d) = Cardinality({y + d : y \in A})
      BY <2>2 DEF UpTo
    <2>5. UpTo(S, x) = Cardinality(A)
      BY DEF UpTo, A
    <2> QED BY <2>3, <2>4, <2>5
  <1> QED BY <1>1, <1>2

\* A character that is kept stands at its place among those that are kept.
LEMMA CleanedKeeps ==
  ASSUME NEW s \in Seq(Int)
  PROVE  /\ Cardinality(Kept(s)) \in Nat
         /\ Len(Cleaned(s)) = Cardinality(Kept(s))
         /\ \A i \in Kept(s) : /\ UpTo(Kept(s), i) \in 1..Len(Cleaned(s))
                               /\ Cleaned(s)[UpTo(Kept(s), i)] = s[i]
  <1>1. Len(s) \in Nat /\ Kept(s) \in SUBSET (1..Len(s))
    BY DEF Kept
  <1>2. /\ Cardinality(Kept(s)) \in Nat
        /\ \A i \in Kept(s) : UpTo(Kept(s), i) \in 1..Cardinality(Kept(s))
        /\ \A i, j \in Kept(s) : UpTo(Kept(s), i) = UpTo(Kept(s), j) => i = j
    BY <1>1, UpToOrders
  <1>3. Len(Cleaned(s)) = Cardinality(Kept(s))
    BY <1>2 DEF Cleaned
  <1>4. ASSUME NEW i \in Kept(s)
        PROVE  Cleaned(s)[UpTo(Kept(s), i)] = s[i]
    <2> DEFINE k == UpTo(Kept(s), i)
    <2>1. k \in 1..Cardinality(Kept(s))
      BY <1>2
    <2>2. (CHOOSE j \in Kept(s) : UpTo(Kept(s), j) = k) = i
      BY <1>2
    <2> HIDE DEF k
    <2>3. Cleaned(s)[k] = s[CHOOSE j \in Kept(s) : UpTo(Kept(s), j) = k]
      BY <2>1 DEF Cleaned
    <2>4. Cleaned(s)[k] = s[i]
      BY <2>2, <2>3
    <2> QED BY <2>4 DEF k
  <1> QED BY <1>2, <1>3, <1>4

\* trim takes off blanks, and no more, at both ends.
LEMMA TrimIs ==
  ASSUME NEW s \in Seq(Int), Trim(s) # <<>>
  PROVE  \E f, l \in 1..Len(s) :
           /\ f <= l /\ Trim(s) = SubSeq(s, f, l)
           /\ \A i \in 1..Len(s) : i < f \/ l < i => IsBlank(s[i])
  <1> DEFINE kept == {i \in 1..Len(s) : ~IsBlank(s[i])}
             first == CHOOSE i \in kept : \A j \in kept : i <= j
             final == CHOOSE i \in kept : \A j \in kept : j <= i
  <1>1. kept # {} /\ Trim(s) = SubSeq(s, first, final)
    BY DEF Trim
  <1>2. kept \in SUBSET (1..Len(s)) /\ Len(s) \in Nat
    OBVIOUS
  <1>3. \A i \in 1..Len(s) : i \notin kept => IsBlank(s[i])
    OBVIOUS
  <1> HIDE DEF kept
  <1>4. \E i \in kept : \A j \in kept : i <= j
    BY <1>1, <1>2, LeastExists
  <1>5. \E i \in kept : \A j \in kept : j <= i
    <2> DEFINE flipped == {Len(s) - i : i \in kept}
    <2>1. flipped \in SUBSET Nat /\ flipped # {}
      <3>1. \A i \in kept : Len(s) - i \in Nat
        BY <1>2
      <3> QED BY <1>1, <3>1
    <2>2. PICK x \in flipped : \A y \in flipped : x <= y
      BY <2>1, LeastExists
    <2>3. PICK i \in kept : x = Len(s) - i
      OBVIOUS
    <2>4. \A j \in kept : Len(s) - i <= Len(s) - j
      BY <2>2, <2>3
    <2>5. i \in kept /\ \A j \in kept : j \in Int /\ i \in Int /\ Len(s) \in Int
      BY <1>2
    <2>6. \A j \in kept : j <= i
      BY <2>4, <2>5
    <2> QED BY <2>5, <2>6
  <1>6. first \in kept /\ \A j \in kept : first <= j
    BY <1>4
  <1>7. final \in kept /\ \A j \in kept : j <= final
    BY <1>5
  <1> HIDE DEF first, final
  <1>8. first \in 1..Len(s) /\ final \in 1..Len(s) /\ first <= final
    BY <1>2, <1>6, <1>7
  <1>9. \A i \in 1..Len(s) : i < first \/ final < i => i \notin kept
    BY <1>2, <1>6, <1>7, <1>8
  <1>10. /\ first <= final /\ Trim(s) = SubSeq(s, first, final)
         /\ \A i \in 1..Len(s) : i < first \/ final < i => IsBlank(s[i])
    BY <1>1, <1>3, <1>8, <1>9
  <1> QED BY <1>8, <1>10

-----------------------------------------------------------------------------

TypedOK == typed \in Seq(Char)

LEMMA Chars ==
  /\ \A c \in Char : c \in Int
  /\ \A c \in Digit : /\ c \in 0..15 /\ ~IsBlank(c)
                     /\ c \notin {Prefix, Blank, WideBlank, Underscore, Letter}
  /\ Prefix \notin Digit \cup {Blank, WideBlank, Underscore} /\ ~IsBlank(Prefix)
  BY HardwareResponseAssumption
     DEF Char, IsBlank, Prefix, Blank, WideBlank, Underscore, Letter

LEMMA Nibbles ==
  ASSUME NEW x \in 0..15, NEW y \in 0..15
  PROVE  (16 * x + y) \div 16 = x /\ (16 * x + y) % 16 = y
  OBVIOUS

LEMMA Halves ==
  ASSUME NEW k \in Nat
  PROVE  /\ k \div 2 \in Nat /\ (k + 1) \div 2 \in Nat
         /\ k % 2 = 1 => k = 2 * ((k + 1) \div 2) - 1
         /\ k % 2 # 1 => k = 2 * (k \div 2)
  OBVIOUS

\* What is refused is not the bytes of anything.
LEMMA DecodedHex ==
  ASSUME NEW s \in Seq(Char), decode_hex_secret(s) # Refused
  PROVE  LET c == Cleaned(s)  r == decode_hex_secret(s)
         IN  /\ Len(c) \in Nat /\ Len(c) = 2 * Len(r) /\ Len(r) \in Nat
             /\ \A k \in 1..Len(c) :
                  /\ c[k] \in Digit
                  /\ c[k] = IF k % 2 = 1 THEN r[(k + 1) \div 2] \div 16 ELSE r[k \div 2] % 16
  <1> DEFINE c == Cleaned(s)  r == decode_hex_secret(s)
  <1>1. /\ Len(c) % 2 = 0 /\ \A k \in 1..Len(c) : c[k] \in Digit
        /\ r = Pairs(c)
    BY DEF decode_hex_secret
  <1>2. Len(c) \in Nat
    <2>1. s \in Seq(Int)
      BY Chars
    <2> QED BY <2>1, CleanedKeeps
  <1> HIDE DEF c, r
  <1>3. Len(c) \div 2 \in Nat /\ Len(c) = 2 * (Len(c) \div 2)
    BY <1>1, <1>2
  <1>4. Len(r) = Len(c) \div 2 /\ \A k \in 1..Len(r) : r[k] = 16 * c[2 * k - 1] + c[2 * k]
    BY <1>1, <1>3 DEF Pairs
  <1>5. \A k \in 1..Len(c) : c[k] \in 0..15
    BY <1>1, Chars
  <1>6. ASSUME NEW k \in 1..Len(c)
        PROVE  c[k] = IF k % 2 = 1 THEN r[(k + 1) \div 2] \div 16 ELSE r[k \div 2] % 16
    <2>1. CASE k % 2 = 1
      <3> DEFINE h == (k + 1) \div 2
      <3>1. h \in 1..Len(r) /\ k = 2 * h - 1 /\ 2 * h \in 1..Len(c)
        <4>1. h \in Nat /\ k = 2 * h - 1
          BY <2>1, Halves
        <4>2. Len(r) \in Nat /\ Len(c) = 2 * Len(r)
          BY <1>3, <1>4
        <4> HIDE DEF h
        <4> QED BY <4>1, <4>2
      <3> HIDE DEF h
      <3>2. r[h] = 16 * c[k] + c[2 * h]
        BY <1>4, <3>1
      <3>3. c[k] \in 0..15 /\ c[2 * h] \in 0..15
        BY <1>5, <3>1
      <3>4. r[h] \div 16 = c[k]
        <4>1. (16 * c[k] + c[2 * h]) \div 16 = c[k]
          BY <3>3, Nibbles
        <4> QED BY <3>2, <4>1
      <3> QED BY <2>1, <3>4 DEF h
    <2>2. CASE k % 2 # 1
      <3> DEFINE h == k \div 2
      <3>1. h \in 1..Len(r) /\ k = 2 * h /\ 2 * h - 1 \in 1..Len(c)
        <4>1. h \in Nat /\ k = 2 * h
          BY <2>2, Halves
        <4>2. Len(r) \in Nat /\ Len(c) = 2 * Len(r)
          BY <1>3, <1>4
        <4> HIDE DEF h
        <4> QED BY <4>1, <4>2
      <3> HIDE DEF h
      <3>2. r[h] = 16 * c[2 * h - 1] + c[k]
        BY <1>4, <3>1
      <3>3. c[k] \in 0..15 /\ c[2 * h - 1] \in 0..15
        BY <1>5, <3>1
      <3>4. r[h] % 16 = c[k]
        <4>1. (16 * c[2 * h - 1] + c[k]) % 16 = c[k]
          BY <3>3, Nibbles
        <4> QED BY <3>2, <4>1
      <3> QED BY <2>2, <3>4 DEF h
    <2> QED BY <2>1, <2>2
  <1>7. Len(c) = 2 * Len(r) /\ Len(r) \in Nat
    BY <1>3, <1>4
  <1>8. /\ Len(c) \in Nat /\ Len(c) = 2 * Len(r) /\ Len(r) \in Nat
        /\ \A k \in 1..Len(c) :
             /\ c[k] \in Digit
             /\ c[k] = IF k % 2 = 1 THEN r[(k + 1) \div 2] \div 16 ELSE r[k \div 2] % 16
    BY <1>1, <1>2, <1>6, <1>7
  <1> QED BY <1>8 DEF c, r

\* What is kept of the text after the prefix are the digits, moved by the place
\* of the prefix, and nothing but blanks and underscores stands around them.
LEMMA TypedDigitsCount == TypedOK => EveryDigitCounts
  <1> DEFINE r == decode_hardware_secret(typed)  t == Trim(typed)  u == Tail(t)
  <1> SUFFICES ASSUME TypedOK, r # Refused
               PROVE  EveryDigitCounts
    BY DEF EveryDigitCounts
  <1>1. /\ t # <<>> /\ t[1] = Prefix
        /\ decode_hex_secret(u) # Refused
        /\ r = decode_hex_secret(u) /\ Len(r) >= MinResponseBytes
    <2> DEFINE b == decode_hex_secret(u)
    <2>1. r = IF t = <<>> \/ t[1] # Prefix THEN Refused
              ELSE IF b = Refused \/ Len(b) < MinResponseBytes THEN Refused ELSE b
      BY DEF decode_hardware_secret
    <2>2. t # <<>> /\ t[1] = Prefix /\ b # Refused /\ r = b /\ ~(Len(b) < MinResponseBytes)
      <3> HIDE DEF r, t, u, b
      <3> QED BY <2>1
    <2>3. Len(b) \in Int /\ MinResponseBytes \in Int
      BY <2>2, HardwareResponseAssumption DEF decode_hex_secret, Pairs
    <2> QED BY <2>2, <2>3
  <1>2. typed \in Seq(Char) /\ typed \in Seq(Int) /\ Len(typed) \in Nat
    BY Chars DEF TypedOK
  <1>3. PICK f, l \in 1..Len(typed) :
          /\ f <= l /\ t = SubSeq(typed, f, l)
          /\ \A i \in 1..Len(typed) : i < f \/ l < i => IsBlank(typed[i])
    BY <1>1, <1>2, TrimIs
  <1>4. /\ u \in Seq(Char) /\ u \in Seq(Int) /\ Len(u) = l - f
        /\ \A k \in 1..Len(u) : u[k] = typed[k + f]
        /\ typed[f] = Prefix
    <2>1. t \in Seq(Char) /\ Len(t) = l - f + 1 /\ \A k \in 1..Len(t) : t[k] = typed[k + f - 1]
      BY <1>2, <1>3, SMTT(30)
    <2> HIDE DEF t
    <2>2. u \in Seq(Char) /\ Len(u) = l - f /\ \A k \in 1..Len(u) : u[k] = t[k + 1]
      BY <1>1, <2>1
    <2>3. u \in Seq(Int)
      BY <2>2, Chars
    <2>4. \A k \in 1..Len(u) : u[k] = typed[k + f]
      BY <2>1, <2>2
    <2>5. typed[f] = Prefix
      BY <1>1, <1>3, <2>1
    <2> QED BY <2>2, <2>3, <2>4, <2>5
  <1> DEFINE c == Cleaned(u)  K == Kept(u)
  <1>5. /\ Len(c) \in Nat /\ Len(c) = 2 * Len(r) /\ Len(r) \in Nat
        /\ \A k \in 1..Len(c) :
             /\ c[k] \in Digit
             /\ c[k] = IF k % 2 = 1 THEN r[(k + 1) \div 2] \div 16 ELSE r[k \div 2] % 16
    BY <1>1, <1>4, DecodedHex
  <1>6. /\ Len(c) = Cardinality(K)
        /\ \A i \in K : UpTo(K, i) \in 1..Len(c) /\ c[UpTo(K, i)] = u[i]
    BY <1>4, CleanedKeeps
  <1>7. K \in SUBSET (1..Len(u)) /\ \A k \in 1..Len(u) : k \notin K => u[k] \in {Blank, Underscore}
    BY DEF Kept
  <1> HIDE DEF r, t, u, c, K
  <1>8. \A k \in K : u[k] \in Digit
    BY <1>5, <1>6
  <1>9. \A i \in 1..Len(typed) :
          \/ i \in (1..Len(typed)) \ (f..l) /\ IsBlank(typed[i])
          \/ i = f /\ typed[i] = Prefix
          \/ i - f \in K /\ typed[i] = u[i - f] /\ typed[i] \in Digit
          \/ i \in (f + 1)..l /\ i - f \notin K /\ typed[i] \in {Blank, Underscore}
    <2> TAKE i \in 1..Len(typed)
    <2>1. CASE i < f \/ l < i
      BY <1>3, <2>1
    <2>2. CASE i = f
      BY <1>4, <2>2
    <2>3. CASE f < i /\ i <= l
      <3>1. i - f \in 1..Len(u) /\ typed[i] = u[i - f]
        BY <1>4, <2>3
      <3> QED BY <1>7, <1>8, <2>3, <3>1
    <2> QED BY <2>1, <2>2, <2>3
  <1>10. \A k \in K : k + f \in Digits /\ typed[k + f] = u[k]
    <2> TAKE k \in K
    <2>1. k \in 1..Len(u) /\ u[k] \in Digit /\ u[k] = typed[k + f]
      BY <1>4, <1>7, <1>8
    <2>2. k + f \in 1..Len(typed)
      BY <1>2, <1>3, <1>4, <2>1
    <2> QED BY <2>1, <2>2 DEF Digits
  <1>11. \A i \in Digits : f < i /\ i - f \in K /\ i = (i - f) + f
    <2> TAKE i \in Digits
    <2>1. i \in 1..Len(typed) /\ typed[i] \in Digit
      BY DEF Digits
    <2>2. i - f \in K
      BY <1>9, <2>1, Chars
    <2> QED BY <1>7, <2>1, <2>2
  <1>12. Digits = {k + f : k \in K}
    BY <1>10, <1>11
  <1>13. /\ Cardinality(Digits) = Cardinality(K)
         /\ \A k \in K : UpTo(Digits, k + f) = UpTo(K, k)
    <2>1. Len(u) \in Nat /\ f \in Nat
      BY <1>2, <1>4
    <2>2. K \in SUBSET (1..Len(u))
      BY <1>7
    <2> QED BY <1>12, <2>1, <2>2, UpToShifts, ZenonT(30)
  <1>14. \A i \in Digits :
           LET n == UpTo(Digits, i)
           IN  typed[i] = IF n % 2 = 1 THEN r[(n + 1) \div 2] \div 16 ELSE r[n \div 2] % 16
    <2> TAKE i \in Digits
    <2> DEFINE n == UpTo(K, i - f)
    <2>1. i - f \in K /\ UpTo(Digits, i) = n
      BY <1>11, <1>13
    <2>2. n \in 1..Len(c) /\ c[n] = u[i - f]
      BY <1>6, <2>1
    <2>3. typed[i] = u[i - f]
      BY <1>10, <1>11
    <2> HIDE DEF n
    <2>4. typed[i] = IF n % 2 = 1 THEN r[(n + 1) \div 2] \div 16 ELSE r[n \div 2] % 16
      BY <1>5, <2>2, <2>3
    <2> QED BY <2>1, <2>4
  <1>15. Marks = {f}
    <2>1. f \in Marks
      BY <1>4, Chars DEF Marks
    <2>2. \A i \in Marks : i = f
      BY <1>9, Chars DEF Marks, IsBlank
    <2> QED BY <2>1, <2>2
  <1>16. /\ Len(r) >= MinResponseBytes /\ Cardinality(Digits) = 2 * Len(r)
         /\ \E p \in 1..Len(typed) :
              Marks = {p} /\ typed[p] = Prefix /\ \A i \in Digits : p < i
    BY <1>1, <1>4, <1>5, <1>6, <1>11, <1>13, <1>15
  <1> QED BY <1>14, <1>16 DEF EveryDigitCounts, r

\* A response that is accepted is all of the digits that were typed, and no other
\* (decode_hardware_secret in hardware_key.rs), for any digits and any length.
THEOREM DigitsCount == ResponseSpec => []EveryDigitCounts
  <1>1. ResponseInit => TypedOK
    BY DEF ResponseInit, TypedOK
  <1>2. TypedOK /\ [ResponseNext]_typed => TypedOK'
    BY DEF TypedOK, ResponseNext, TypeChar
  <1> QED BY <1>1, <1>2, TypedDigitsCount, PTL DEF ResponseSpec

-----------------------------------------------------------------------------
(***************************************************************************)
(* MountInfo.  Its functions over sequences are recursive, so what they do *)
(* for every sequence is shown by induction, over sets and not over        *)
(* predicates: SetInduction and SeqInduction follow from Nat being well    *)
(* founded, and Recursion and SeqRecursion show that a recursive           *)
(* definition has a function that satisfies it.  Then splitting a line     *)
(* undoes the joining of its fields, unescape_octal undoes Mangle, and the *)
(* separator is found in its place.                                        *)
(***************************************************************************)

LEMMA SetInduction ==
  ASSUME NEW S, 0 \in S, \A n \in Nat : n \in S => n + 1 \in S
  PROVE  Nat \subseteq S
  <1> SUFFICES ASSUME Nat \ S # {} PROVE FALSE
    OBVIOUS
  <1>1. PICK n \in Nat \ S : \A y \in Nat \ S : n <= y
    BY LeastExists
  <1>2. n # 0 /\ n - 1 \in Nat
    BY <1>1
  <1>3. n - 1 \in S
    BY <1>1, <1>2
  <1> QED BY <1>1, <1>2, <1>3

Runs(N, X, x0, g) ==
  {f \in [0..N -> X] : f[0] = x0 /\ \A n \in 1..N : f[n] = g[n][f[n - 1]]}

\* A value for each of the numbers up to N, made from the one before.
LEMMA Recursion ==
  ASSUME NEW N \in Nat, NEW X, NEW x0 \in X, NEW g \in [1..N -> [X -> X]]
  PROVE  Runs(N, X, x0, g) # {}
  <1> DEFINE Good(m, f) == f[0] = x0 /\ \A n \in 1..N : n <= m => f[n] = g[n][f[n - 1]]
             S == {m \in Nat : m <= N => \E f \in [0..N -> X] : Good(m, f)}
  <1>1. 0 \in S
    <2> DEFINE f == [n \in 0..N |-> x0]
    <2>1. f \in [0..N -> X] /\ Good(0, f)
      OBVIOUS
    <2> QED BY <2>1
  <1>2. ASSUME NEW m \in Nat, m \in S PROVE m + 1 \in S
    <2> SUFFICES ASSUME m + 1 <= N PROVE \E f \in [0..N -> X] : Good(m + 1, f)
      OBVIOUS
    <2>1. PICK f \in [0..N -> X] : Good(m, f)
      BY <1>2
    <2> DEFINE h == [f EXCEPT ![m + 1] = g[m + 1][f[m]]]
    <2>2. m \in 0..N /\ m + 1 \in 1..N
      OBVIOUS
    <2>3. g[m + 1][f[m]] \in X
      BY <2>2
    <2>4. h \in [0..N -> X] /\ h[0] = f[0]
      BY <2>2, <2>3
    <2>5. ASSUME NEW n \in 1..N, n <= m + 1
          PROVE  h[n] = g[n][h[n - 1]]
      <3>1. n - 1 \in 0..N /\ n - 1 # m + 1 /\ h[n - 1] = f[n - 1]
        BY <2>5
      <3>2. CASE n = m + 1
        BY <2>2, <3>1, <3>2
      <3>3. CASE n # m + 1
        <4>1. h[n] = f[n] /\ n <= m
          BY <2>5, <3>3
        <4> HIDE DEF h
        <4> QED BY <2>1, <3>1, <4>1
      <3> QED BY <3>2, <3>3
    <2>6. Good(m + 1, h)
      BY <2>1, <2>4, <2>5
    <2> QED BY <2>4, <2>6
  <1>3. N \in S
    <2> HIDE DEF S
    <2> QED BY <1>1, <1>2, SetInduction
  <1>4. PICK f \in [0..N -> X] : Good(N, f)
    BY <1>3
  <1>5. f[0] = x0 /\ \A n \in 1..N : f[n] = g[n][f[n - 1]]
    BY <1>4
  <1> QED BY <1>5 DEF Runs

LEMMA FrontIs ==
  ASSUME NEW B, NEW s \in Seq(B), s # <<>>
  PROVE  /\ Front(s) \in Seq(B) /\ Len(Front(s)) = Len(s) - 1 /\ Len(s) \in Nat \ {0}
         /\ Last(s) \in B
         /\ \A n \in 1..Len(s) - 1 : Front(s)[n] = s[n]
         /\ s = Append(Front(s), Last(s))
  <1>1. Len(s) \in Nat \ {0}
    BY EmptySeq
  <1>2. Front(s) \in Seq(B) /\ Len(Front(s)) = Len(s) - 1 /\ \A n \in 1..Len(s) - 1 : Front(s)[n] = s[n]
    <2> DEFINE m == Len(s) - 1
    <2>1. m \in Nat /\ m <= Len(s) /\ \A i \in 1..m : s[i] \in B
      BY <1>1
    <2> HIDE DEF m
    <2>2. SubSeq(s, 1, m) \in Seq(B) /\ Len(SubSeq(s, 1, m)) = m /\ \A n \in 1..m : SubSeq(s, 1, m)[n] = s[n]
      BY <2>1
    <2> QED BY <2>2 DEF Front, m
  <1>3. Last(s) \in B
    BY <1>1 DEF Last
  <1>4. Append(Front(s), Last(s)) \in Seq(B) /\ Len(Append(Front(s), Last(s))) = Len(s)
    BY <1>1, <1>2, <1>3
  <1>5. \A n \in 1..Len(s) : Append(Front(s), Last(s))[n] = s[n]
    BY <1>1, <1>2, <1>3 DEF Last
  <1>6. s = Append(Front(s), Last(s))
    BY <1>4, <1>5, SeqEqual
  <1> QED BY <1>1, <1>2, <1>3, <1>6

LEMMA FrontOfAppend ==
  ASSUME NEW B, NEW s \in Seq(B), NEW b \in B
  PROVE  /\ Append(s, b) \in Seq(B) \ {<<>>}
         /\ Front(Append(s, b)) = s /\ Last(Append(s, b)) = b
  <1>1. Append(s, b) \in Seq(B) /\ Append(s, b) # <<>> /\ Len(Append(s, b)) = Len(s) + 1
    BY AppendProperties
  <1>2. Last(Append(s, b)) = b
    BY <1>1, AppendProperties DEF Last
  <1>3. /\ Front(Append(s, b)) \in Seq(B) /\ Len(Front(Append(s, b))) = Len(s)
        /\ \A n \in 1..Len(s) : Front(Append(s, b))[n] = Append(s, b)[n]
    <2> DEFINE t == Append(s, b)
    <2>1. t \in Seq(B) /\ t # <<>> /\ Len(t) - 1 = Len(s)
      BY <1>1
    <2> HIDE DEF t
    <2>2. Front(t) \in Seq(B) /\ Len(Front(t)) = Len(t) - 1 /\ \A n \in 1..Len(t) - 1 : Front(t)[n] = t[n]
      BY <2>1, FrontIs
    <2> QED BY <2>1, <2>2 DEF t
  <1>4. \A n \in 1..Len(s) : Front(Append(s, b))[n] = s[n]
    BY <1>3, AppendProperties
  <1>5. Front(Append(s, b)) = s
    BY <1>3, <1>4, SeqEqual
  <1> QED BY <1>1, <1>2, <1>5

\* Sequences are made by putting elements at the end.
LEMMA SeqInduction ==
  ASSUME NEW B, NEW S, <<>> \in S, \A s \in Seq(B) \ {<<>>} : Front(s) \in S => s \in S
  PROVE  Seq(B) \subseteq S
  <1> DEFINE T == {n \in Nat : \A s \in Seq(B) : Len(s) = n => s \in S}
  <1>1. 0 \in T
    BY EmptySeq
  <1>2. ASSUME NEW n \in Nat, n \in T PROVE n + 1 \in T
    <2> SUFFICES ASSUME NEW s \in Seq(B), Len(s) = n + 1 PROVE s \in S
      OBVIOUS
    <2>1. s # <<>>
      BY EmptySeq
    <2>2. Front(s) \in Seq(B) /\ Len(Front(s)) = n
      BY <2>1, FrontIs
    <2> QED BY <1>2, <2>1, <2>2
  <1>3. Nat \subseteq T
    <2> HIDE DEF T
    <2> QED BY <1>1, <1>2, SetInduction
  <1> QED BY <1>3

\* A value for each sequence, made from the sequence and the value of its front.
Folds(X, B, x0, g) ==
  {f \in [Seq(B) -> X] :
     f[<<>>] = x0 /\ \A s \in Seq(B) \ {<<>>} : f[s] = g[s][f[Front(s)]]}

LEMMA SeqRecursion ==
  ASSUME NEW X, NEW B, NEW x0 \in X, NEW g \in [Seq(B) -> [X -> X]]
  PROVE  Folds(X, B, x0, g) # {}
  <1> DEFINE step(s) == [n \in 1..Len(s) |-> g[SubSeq(s, 1, n)]]
             run(s) == Runs(Len(s), X, x0, step(s))
             pick(s) == CHOOSE r \in run(s) : TRUE
             f == [s \in Seq(B) |-> pick(s)[Len(s)]]
  <1>1. ASSUME NEW s \in Seq(B)
        PROVE  /\ pick(s) \in [0..Len(s) -> X] /\ pick(s)[0] = x0
               /\ \A n \in 1..Len(s) : pick(s)[n] = g[SubSeq(s, 1, n)][pick(s)[n - 1]]
    <2>1. step(s) \in [1..Len(s) -> [X -> X]] /\ Len(s) \in Nat
      <3>1. \A n \in 1..Len(s) : SubSeq(s, 1, n) \in Seq(B)
        OBVIOUS
      <3>2. \A n \in 1..Len(s) : g[SubSeq(s, 1, n)] \in [X -> X]
        BY <3>1
      <3>3. step(s) \in [1..Len(s) -> [X -> X]]
        BY <3>2
      <3> QED BY <3>3
    <2> HIDE DEF step
    <2>2. run(s) # {}
      BY <2>1, Recursion
    <2>3. pick(s) \in run(s)
      BY <2>2
    <2> HIDE DEF pick
    <2>4. /\ pick(s) \in [0..Len(s) -> X] /\ pick(s)[0] = x0
          /\ \A n \in 1..Len(s) : pick(s)[n] = step(s)[n][pick(s)[n - 1]]
      BY <2>3 DEF Runs
    <2>5. \A n \in 1..Len(s) : step(s)[n] = g[SubSeq(s, 1, n)]
      BY DEF step
    <2> QED BY <2>4, <2>5
  <1> HIDE DEF pick
  <1>2. ASSUME NEW s \in Seq(B) \ {<<>>}
        PROVE  pick(s)[Len(s) - 1] = pick(Front(s))[Len(s) - 1]
    <2> DEFINE N == Len(s) - 1
               S == {n \in Nat : n <= N => pick(s)[n] = pick(Front(s))[n]}
    <2>1. Front(s) \in Seq(B) /\ Len(Front(s)) = N /\ N \in Nat
      <3>1. s \in Seq(B) /\ s # <<>>
        OBVIOUS
      <3>2. Front(s) \in Seq(B) /\ Len(Front(s)) = Len(s) - 1 /\ Len(s) \in Nat \ {0}
        BY <3>1, FrontIs
      <3> QED BY <3>2
    <2>2. 0 \in S
      BY <1>1, <2>1
    <2>3. ASSUME NEW n \in Nat, n \in S PROVE n + 1 \in S
      <3> SUFFICES ASSUME n + 1 <= N PROVE pick(s)[n + 1] = pick(Front(s))[n + 1]
        OBVIOUS
      <3>1. pick(s)[n] = pick(Front(s))[n]
        BY <2>1, <2>3
      <3>2. n + 1 \in 1..Len(s) /\ n + 1 \in 1..Len(Front(s)) /\ n + 1 - 1 = n
        BY <2>1
      <3>3. SubSeq(s, 1, n + 1) = SubSeq(Front(s), 1, n + 1)
        BY <2>1 DEF Front
      <3>4. pick(s)[n + 1] = g[SubSeq(s, 1, n + 1)][pick(s)[n]]
        BY <1>1, <3>2
      <3>5. pick(Front(s))[n + 1] = g[SubSeq(Front(s), 1, n + 1)][pick(Front(s))[n]]
        BY <1>1, <2>1, <3>2, SMTT(30)
      <3> QED BY <3>1, <3>3, <3>4, <3>5
    <2>4. Nat \subseteq S
      <3> HIDE DEF S
      <3> QED BY <2>2, <2>3, SetInduction
    <2> QED BY <2>1, <2>4
  <1>3. f \in [Seq(B) -> X]
    BY <1>1, SMTT(30)
  <1>4. f[<<>>] = x0
    <2>1. <<>> \in Seq(B) /\ Len(<<>>) = 0
      OBVIOUS
    <2> QED BY <1>1, <2>1
  <1>5. ASSUME NEW s \in Seq(B) \ {<<>>}
        PROVE  f[s] = g[s][f[Front(s)]]
    <2>1. Front(s) \in Seq(B) /\ Len(Front(s)) = Len(s) - 1 /\ Len(s) \in Nat \ {0}
      BY FrontIs
    <2>2. SubSeq(s, 1, Len(s)) = s
      BY <2>1
    <2>3. pick(s)[Len(s)] = g[SubSeq(s, 1, Len(s))][pick(s)[Len(s) - 1]]
      BY <1>1, <2>1, SMTT(30)
    <2>4. pick(s)[Len(s) - 1] = f[Front(s)]
      BY <1>2, <2>1
    <2> QED BY <2>2, <2>3, <2>4
  <1> HIDE DEF f
  <1> QED BY <1>3, <1>4, <1>5 DEF Folds

-----------------------------------------------------------------------------

LEMMA MangledIs ==
  ASSUME NEW b \in Octet
  PROVE  /\ Mangled(b) \in Seq(Octet) /\ Len(Mangled(b)) \in {1, 4}
         /\ \A i \in 1..Len(Mangled(b)) : Mangled(b)[i] # SPACE
  <1>1. CASE b \in {SPACE, 9, 10, BACKSLASH}
    <2>1. /\ ZERO + (b \div 64) \in 48..55 /\ ZERO + ((b \div 8) % 8) \in 48..55
          /\ ZERO + (b % 8) \in 48..55
      BY <1>1 DEF SPACE, BACKSLASH, ZERO
    <2>2. Mangled(b) = <<BACKSLASH, ZERO + (b \div 64), ZERO + ((b \div 8) % 8), ZERO + (b % 8)>>
      BY <1>1 DEF Mangled
    <2> QED BY <2>1, <2>2 DEF Octet, SPACE, BACKSLASH
  <1>2. CASE b \notin {SPACE, 9, 10, BACKSLASH}
    BY <1>2 DEF Mangled
  <1> QED BY <1>1, <1>2

\* Mangle goes over a name from its first byte to its last.
LEMMA MangleIs ==
  /\ Mangle(<<>>) = <<>>
  /\ \A s \in Seq(Octet) : Mangle(s) \in Seq(Octet)
  /\ \A s \in Seq(Octet), b \in Octet : Mangle(Append(s, b)) = Mangle(s) \o Mangled(b)
  <1> DEFINE X == Seq(Octet)
             g == [t \in X |-> [x \in X |-> IF t = <<>> THEN x ELSE x \o Mangled(Last(t))]]
             Is(f) == f = [t \in X |-> IF t = <<>> THEN <<>> ELSE f[Front(t)] \o Mangled(Last(t))]
             M == CHOOSE f : Is(f)
  <1>1. \A t \in X \ {<<>>} : Front(t) \in X /\ Mangled(Last(t)) \in X
    BY FrontIs, MangledIs
  <1>2. <<>> \in X /\ g \in [X -> [X -> X]]
    BY <1>1
  <1>3. Folds(X, Octet, <<>>, g) # {}
    <2> HIDE DEF g
    <2> QED BY <1>2, SeqRecursion
  <1>4. PICK f \in [X -> X] : f[<<>>] = <<>> /\ \A t \in X \ {<<>>} : f[t] = g[t][f[Front(t)]]
    <2> HIDE DEF g
    <2> QED BY <1>3 DEF Folds
  <1>5. \A t \in X \ {<<>>} : f[t] = f[Front(t)] \o Mangled(Last(t))
    <2> TAKE t \in X \ {<<>>}
    <2>1. f[Front(t)] \in X
      BY <1>1
    <2>2. g[t][f[Front(t)]] = f[Front(t)] \o Mangled(Last(t))
      BY <2>1
    <2> HIDE DEF g
    <2> QED BY <1>4, <2>2
  <1>6. Is(f)
    <2>1. \A t \in X : f[t] = IF t = <<>> THEN <<>> ELSE f[Front(t)] \o Mangled(Last(t))
      BY <1>4, <1>5
    <2> HIDE DEF X
    <2> QED BY <2>1
  <1>7. Is(M)
    <2> HIDE DEF Is
    <2> QED BY <1>6
  <1>8. \A s : Mangle(s) = M[s]
    BY DEF Mangle
  <1> HIDE DEF M
  <1>9. M[<<>>] = <<>> /\ \A t \in X \ {<<>>} : M[t] = M[Front(t)] \o Mangled(Last(t))
    <2> HIDE DEF X
    <2> QED BY <1>2, <1>7
  <1>10. \A s \in X : M[s] \in X
    <2> DEFINE S == {s \in X : M[s] \in X}
    <2>1. <<>> \in S
      BY <1>2, <1>9
    <2>2. ASSUME NEW s \in X \ {<<>>}, Front(s) \in S PROVE s \in S
      <3>1. M[s] = M[Front(s)] \o Mangled(Last(s)) /\ M[Front(s)] \in X /\ Mangled(Last(s)) \in X
        BY <1>1, <1>9, <2>2
      <3> DEFINE h == M[Front(s)]  t == Mangled(Last(s))
      <3>2. h \o t \in X
        <4> HIDE DEF h, t
        <4>1. h \in X /\ t \in X
          BY <3>1 DEF h, t
        <4> QED BY <4>1
      <3> QED BY <3>1, <3>2
    <2>3. X \subseteq S
      <3> HIDE DEF S
      <3> QED BY <2>1, <2>2, SeqInduction
    <2> QED BY <2>3
  <1>11. \A s \in X, b \in Octet : M[Append(s, b)] = M[s] \o Mangled(b)
    <2> TAKE s \in X, b \in Octet
    <2>1. Append(s, b) \in X \ {<<>>} /\ Front(Append(s, b)) = s /\ Last(Append(s, b)) = b
      BY FrontOfAppend
    <2> HIDE DEF X
    <2> QED BY <1>9, <2>1
  <1> QED BY <1>8, <1>9, <1>10, <1>11

LEMMA JoinedIs ==
  /\ \A f \in Seq(Octet) : Joined(<<f>>) = f
  /\ \A s \in Seq(Seq(Octet)) : Joined(s) \in Seq(Octet)
  /\ \A s \in Seq(Seq(Octet)) \ {<<>>}, f \in Seq(Octet) :
       Joined(Append(s, f)) = (Joined(s) \o <<SPACE>>) \o f
  <1> DEFINE X == Seq(Octet)
             B == Seq(Octet)
             Sep(t) == IF Front(t) = <<>> THEN <<>> ELSE <<SPACE>>
             g == [t \in Seq(B) |-> [x \in X |-> IF t = <<>> THEN x ELSE x \o Sep(t) \o Last(t)]]
             Is(f) == f = [t \in Seq(B) |-> IF t = <<>> THEN <<>> ELSE f[Front(t)] \o Sep(t) \o Last(t)]
             J == CHOOSE f : Is(f)
  <1>1. \A t \in Seq(B) \ {<<>>} : Front(t) \in Seq(B) /\ Sep(t) \in X /\ Last(t) \in X
    <2>1. \A t \in Seq(B) \ {<<>>} : Front(t) \in Seq(B) /\ Last(t) \in B
      <3> HIDE DEF B
      <3> QED BY FrontIs
    <2>2. <<>> \in X /\ <<SPACE>> \in X
      BY DEF SPACE, Octet
    <2> QED BY <2>1, <2>2
  <1> HIDE DEF Sep
  <1>2. <<>> \in X /\ g \in [Seq(B) -> [X -> X]]
    <2>1. \A t \in Seq(B), x \in X : (IF t = <<>> THEN x ELSE x \o Sep(t) \o Last(t)) \in X
      BY <1>1
    <2> HIDE DEF B
    <2> QED BY <2>1
  <1>3. Folds(X, B, <<>>, g) # {}
    <2> HIDE DEF g, X, B
    <2> QED BY <1>2, SeqRecursion
  <1>4. PICK f \in [Seq(B) -> X] :
          f[<<>>] = <<>> /\ \A t \in Seq(B) \ {<<>>} : f[t] = g[t][f[Front(t)]]
    <2> HIDE DEF g, X, B
    <2> QED BY <1>3 DEF Folds
  <1>5. \A t \in Seq(B) \ {<<>>} : f[t] = f[Front(t)] \o Sep(t) \o Last(t)
    <2> TAKE t \in Seq(B) \ {<<>>}
    <2>1. f[Front(t)] \in X
      BY <1>1
    <2>2. g[t][f[Front(t)]] = f[Front(t)] \o Sep(t) \o Last(t)
      BY <2>1
    <2> HIDE DEF g
    <2> QED BY <1>4, <2>2
  <1>6. Is(f)
    <2>1. \A t \in Seq(B) : f[t] = IF t = <<>> THEN <<>> ELSE f[Front(t)] \o Sep(t) \o Last(t)
      BY <1>4, <1>5
    <2> HIDE DEF X, B
    <2> QED BY <2>1
  <1>7. Is(J)
    <2> HIDE DEF Is
    <2> QED BY <1>6
  <1>8. \A s : Joined(s) = J[s]
    BY DEF Joined, Sep
  <1> HIDE DEF J
  <1>9. J[<<>>] = <<>> /\ \A t \in Seq(B) \ {<<>>} : J[t] = J[Front(t)] \o Sep(t) \o Last(t)
    <2>1. <<>> \in Seq(B)
      OBVIOUS
    <2> HIDE DEF B, X
    <2> QED BY <1>7, <2>1
  <1>10. \A s \in Seq(B) : J[s] \in X
    <2> DEFINE S == {s \in Seq(B) : J[s] \in X}
    <2>1. <<>> \in S
      <3>1. <<>> \in Seq(B)
        OBVIOUS
      <3> QED BY <1>2, <1>9, <3>1
    <2>2. ASSUME NEW s \in Seq(B) \ {<<>>}, Front(s) \in S PROVE s \in S
      <3>1. J[s] = J[Front(s)] \o Sep(s) \o Last(s) /\ J[Front(s)] \in X
        BY <1>9, <2>2
      <3>2. Sep(s) \in X /\ Last(s) \in X
        BY <1>1
      <3> DEFINE h == J[Front(s)]  t == Sep(s)  u == Last(s)
      <3>3. h \o t \o u \in X
        <4> HIDE DEF h, t, u
        <4>1. h \in X /\ t \in X /\ u \in X
          BY <3>1, <3>2 DEF h, t, u
        <4> QED BY <4>1
      <3> QED BY <3>1, <3>3
    <2>3. Seq(B) \subseteq S
      <3> HIDE DEF S, B
      <3> QED BY <2>1, <2>2, SeqInduction
    <2> QED BY <2>3
  <1>11. \A s \in Seq(B), w \in B : J[Append(s, w)] = J[s] \o (IF s = <<>> THEN <<>> ELSE <<SPACE>>) \o w
    <2> TAKE s \in Seq(B), w \in B
    <2>1. Append(s, w) \in Seq(B) \ {<<>>} /\ Front(Append(s, w)) = s /\ Last(Append(s, w)) = w
      <3> HIDE DEF B
      <3> QED BY FrontOfAppend
    <2> HIDE DEF B
    <2> QED BY <1>9, <2>1 DEF Sep
  <1>12. \A w \in B : J[<<w>>] = w
    <2> TAKE w \in B
    <2>1. <<>> \in Seq(B) /\ Append(<<>>, w) = <<w>>
      OBVIOUS
    <2>2. J[<<w>>] = <<>> \o <<>> \o w
      BY <1>9, <1>11, <2>1
    <2> QED BY <2>2
  <1> QED BY <1>8, <1>10, <1>11, <1>12

Splitting == [ended : Seq(Seq(Octet)), open : Seq(Octet)]
NoSpace(s) == \A i \in 1..Len(s) : s[i] # SPACE
Nowhere == [ended |-> <<>>, open |-> <<>>]

LEMMA SplitByteIs ==
  ASSUME NEW x \in Splitting, NEW b \in Octet
  PROVE  /\ SplitByte(x, b) \in Splitting
         /\ b = SPACE => SplitByte(x, b) = [ended |-> Append(x.ended, x.open), open |-> <<>>]
         /\ b # SPACE => SplitByte(x, b) = [ended |-> x.ended, open |-> Append(x.open, b)]
  <1>1. x.ended \in Seq(Seq(Octet)) /\ x.open \in Seq(Octet) /\ x = [ended |-> x.ended, open |-> x.open]
    BY DEF Splitting
  <1>2. CASE b = SPACE
    <2>1. Append(x.ended, x.open) \in Seq(Seq(Octet)) /\ <<>> \in Seq(Octet)
      BY <1>1, AppendProperties
    <2> QED BY <1>2, <2>1 DEF SplitByte, Splitting
  <1>3. CASE b # SPACE
    <2>1. Append(x.open, b) \in Seq(Octet)
      BY <1>1, AppendProperties
    <2>2. SplitByte(x, b) = [ended |-> x.ended, open |-> Append(x.open, b)]
      BY <1>1, <1>3 DEF SplitByte
    <2> QED BY <1>1, <1>3, <2>1, <2>2 DEF Splitting
  <1> QED BY <1>2, <1>3

LEMMA SplitIs ==
  /\ Split(<<>>) = Nowhere
  /\ \A s \in Seq(Octet) : Split(s) \in Splitting
  /\ \A s \in Seq(Octet), b \in Octet : Split(Append(s, b)) = SplitByte(Split(s), b)
  <1> DEFINE X == Splitting
             B == Octet
             g == [t \in Seq(B) |-> [x \in X |-> IF t = <<>> THEN x ELSE SplitByte(x, Last(t))]]
             Is(f) == f = [t \in Seq(B) |-> IF t = <<>> THEN Nowhere ELSE SplitByte(f[Front(t)], Last(t))]
             J == CHOOSE f : Is(f)
  <1>1. \A t \in Seq(B) \ {<<>>} : Front(t) \in Seq(B) /\ Last(t) \in B
    <2> HIDE DEF B
    <2> QED BY FrontIs
  <1>2. \A x \in X, b \in B : SplitByte(x, b) \in X
    BY SplitByteIs
  <1>3. Nowhere \in X /\ g \in [Seq(B) -> [X -> X]]
    <2>1. Nowhere \in X
      BY DEF Splitting, Nowhere
    <2>2. \A t \in Seq(B), x \in X : (IF t = <<>> THEN x ELSE SplitByte(x, Last(t))) \in X
      <3> HIDE DEF B, X
      <3> QED BY <1>1, <1>2
    <2> HIDE DEF B, X
    <2> QED BY <2>1, <2>2
  <1>4. Folds(X, B, Nowhere, g) # {}
    <2> HIDE DEF g, X, B
    <2> QED BY <1>3, SeqRecursion
  <1>5. PICK f \in [Seq(B) -> X] :
          f[<<>>] = Nowhere /\ \A t \in Seq(B) \ {<<>>} : f[t] = g[t][f[Front(t)]]
    <2> HIDE DEF g, X, B
    <2> QED BY <1>4 DEF Folds
  <1> HIDE DEF X, B
  <1>6. \A t \in Seq(B) \ {<<>>} : f[t] = SplitByte(f[Front(t)], Last(t))
    <2> TAKE t \in Seq(B) \ {<<>>}
    <2>1. f[Front(t)] \in X
      BY <1>1
    <2>2. g[t][f[Front(t)]] = SplitByte(f[Front(t)], Last(t))
      BY <2>1
    <2> HIDE DEF g
    <2> QED BY <1>5, <2>2
  <1>7. Is(f)
    <2>1. \A t \in Seq(B) : f[t] = IF t = <<>> THEN Nowhere ELSE SplitByte(f[Front(t)], Last(t))
      BY <1>5, <1>6
    <2> QED BY <2>1
  <1>8. Is(J)
    <2> HIDE DEF Is
    <2> QED BY <1>7
  <1>9. \A s : Split(s) = J[s]
    BY DEF Split, Nowhere, B
  <1> HIDE DEF J
  <1>10. <<>> \in Seq(B)
    OBVIOUS
  <1>11. J[<<>>] = Nowhere /\ \A t \in Seq(B) \ {<<>>} : J[t] = SplitByte(J[Front(t)], Last(t))
    BY <1>8, <1>10
  <1>12. \A s \in Seq(B) : J[s] \in X
    <2> DEFINE S == {s \in Seq(B) : J[s] \in X}
    <2>1. <<>> \in S
      BY <1>3, <1>10, <1>11
    <2>2. ASSUME NEW s \in Seq(B) \ {<<>>}, Front(s) \in S PROVE s \in S
      BY <1>1, <1>2, <1>11, <2>2
    <2>3. Seq(B) \subseteq S
      <3> HIDE DEF S
      <3> QED BY <2>1, <2>2, SeqInduction
    <2> QED BY <2>3
  <1>13. \A s \in Seq(B), b \in B : J[Append(s, b)] = SplitByte(J[s], b)
    <2> TAKE s \in Seq(B), b \in B
    <2>1. Append(s, b) \in Seq(B) \ {<<>>} /\ Front(Append(s, b)) = s /\ Last(Append(s, b)) = b
      BY FrontOfAppend
    <2> QED BY <1>11, <2>1
  <1> QED BY <1>9, <1>11, <1>12, <1>13 DEF X, B

LEMMA AppendToConcat ==
  ASSUME NEW B, NEW s \in Seq(B), NEW t \in Seq(B), NEW b \in B
  PROVE  s \o Append(t, b) = Append(s \o t, b)
  <1>1. Append(t, b) = t \o <<b>> /\ Append(s \o t, b) = (s \o t) \o <<b>>
    BY AppendIsConcat
  <1>2. s \o (t \o <<b>>) = (s \o t) \o <<b>>
    BY ConcatAssociative
  <1> QED BY <1>1, <1>2

\* Bytes that are no spaces go to the field at the end.
LEMMA SplitWord ==
  ASSUME NEW s \in Seq(Octet), NEW w \in Seq(Octet), NoSpace(w)
  PROVE  Split(s \o w) = [ended |-> Split(s).ended, open |-> Split(s).open \o w]
  <1> DEFINE P(t) == NoSpace(t) =>
                       Split(s \o t) = [ended |-> Split(s).ended, open |-> Split(s).open \o t]
             S == {t \in Seq(Octet) : P(t)}
  <1>1. Split(s) \in Splitting
    BY SplitIs
  <1>2. <<>> \in S
    BY <1>1 DEF Splitting
  <1>3. ASSUME NEW t \in Seq(Octet) \ {<<>>}, Front(t) \in S PROVE t \in S
    <2> SUFFICES ASSUME NoSpace(t) PROVE P(t)
      OBVIOUS
    <2> DEFINE u == Front(t)  b == Last(t)
    <2>1. u \in Seq(Octet) /\ b \in Octet /\ t = Append(u, b) /\ NoSpace(u) /\ b # SPACE
      <3>1. t \in Seq(Octet) /\ t # <<>>
        OBVIOUS
      <3>2. /\ u \in Seq(Octet) /\ b \in Octet /\ t = Append(u, b)
            /\ Len(t) \in Nat \ {0} /\ Len(u) = Len(t) - 1 /\ \A n \in 1..Len(t) - 1 : u[n] = t[n]
        BY <3>1, FrontIs
      <3>3. b # SPACE
        BY <3>2 DEF NoSpace, Last
      <3> HIDE DEF u, b
      <3>4. NoSpace(u)
        BY <3>2 DEF NoSpace
      <3> QED BY <3>2, <3>3, <3>4
    <2>2. Split(s \o u) = [ended |-> Split(s).ended, open |-> Split(s).open \o u]
      BY <1>3, <2>1
    <2> HIDE DEF u, b
    <2>3. s \o t = Append(s \o u, b) /\ s \o u \in Seq(Octet)
      BY <2>1, AppendToConcat
    <2>4. Split(s \o t) = SplitByte(Split(s \o u), b)
      BY <2>1, <2>3, SplitIs
    <2>5. Split(s \o t) = [ended |-> Split(s).ended, open |-> Append(Split(s).open \o u, b)]
      <3>1. Split(s \o u) \in Splitting
        BY <2>3, SplitIs
      <3>2. Split(s \o t) = [ended |-> Split(s \o u).ended, open |-> Append(Split(s \o u).open, b)]
        BY <2>1, <2>4, <3>1, SplitByteIs
      <3> QED BY <2>2, <3>2
    <2>6. Append(Split(s).open \o u, b) = Split(s).open \o t
      <3> DEFINE o == Split(s).open
      <3>1. o \in Seq(Octet)
        BY <1>1 DEF Splitting
      <3> HIDE DEF o
      <3>2. o \o Append(u, b) = Append(o \o u, b)
        BY <2>1, <3>1, AppendToConcat
      <3> QED BY <2>1, <3>2 DEF o
    <2> QED BY <2>5, <2>6
  <1>4. Seq(Octet) \subseteq S
    <2> HIDE DEF S
    <2> QED BY <1>2, <1>3, SeqInduction
  <1> QED BY <1>4

\* Splitting at the spaces undoes the joining, unless a field holds a space.
LEMMA SplitJoined ==
  ASSUME NEW fs \in Seq(Seq(Octet)) \ {<<>>}, \A k \in 1..Len(fs) : NoSpace(fs[k])
  PROVE  Fields(Joined(fs)) = fs
  <1> DEFINE B == Seq(Octet)
             P(t) == t # <<>> /\ (\A k \in 1..Len(t) : NoSpace(t[k])) =>
                       Split(Joined(t)) = [ended |-> Front(t), open |-> Last(t)]
             S == {t \in Seq(B) : P(t)}
  <1>1. <<>> \in S
    OBVIOUS
  <1>2. ASSUME NEW t \in Seq(B) \ {<<>>}, Front(t) \in S PROVE t \in S
    <2> SUFFICES ASSUME \A k \in 1..Len(t) : NoSpace(t[k])
                 PROVE  Split(Joined(t)) = [ended |-> Front(t), open |-> Last(t)]
      OBVIOUS
    <2> DEFINE u == Front(t)  w == Last(t)
    <2>1. /\ u \in Seq(B) /\ w \in B /\ t = Append(u, w)
          /\ Len(t) \in Nat \ {0} /\ Len(u) = Len(t) - 1 /\ \A n \in 1..Len(t) - 1 : u[n] = t[n]
      <3> HIDE DEF B
      <3> QED BY FrontIs
    <2>2. NoSpace(w) /\ \A k \in 1..Len(u) : NoSpace(u[k])
      BY <2>1 DEF Last
    <2>3. P(u)
      BY <1>2
    <2> HIDE DEF u, w
    <2>4. CASE u = <<>>
      <3>1. t = <<w>> /\ Joined(t) = w /\ <<>> \o w = w /\ <<>> \in Seq(Octet)
        BY <2>1, <2>4, JoinedIs
      <3>2. Split(<<>> \o w) = [ended |-> Nowhere.ended, open |-> Nowhere.open \o w]
        BY <2>1, <2>2, <3>1, SplitWord, SplitIs
      <3>3. Nowhere.ended = <<>> /\ Nowhere.open = <<>>
        BY DEF Nowhere
      <3> QED BY <2>4, <3>1, <3>2, <3>3 DEF u, w
    <2>5. CASE u # <<>>
      <3> DEFINE j == Joined(u)
      <3>1. j \in Seq(Octet) /\ Joined(t) = (j \o <<SPACE>>) \o w
        BY <2>1, <2>5, JoinedIs
      <3>2. Split(j) = [ended |-> Front(u), open |-> Last(u)]
        BY <2>2, <2>3, <2>5
      <3> HIDE DEF j
      <3>3. SPACE \in Octet /\ j \o <<SPACE>> = Append(j, SPACE)
        <4>1. SPACE \in Octet
          BY DEF SPACE, Octet
        <4> QED BY <3>1, <4>1, AppendIsConcat
      <3>4. Split(j \o <<SPACE>>) = [ended |-> Append(Front(u), Last(u)), open |-> <<>>]
        <4>1. Split(j) \in Splitting /\ Split(Append(j, SPACE)) = SplitByte(Split(j), SPACE)
          BY <3>1, <3>3, SplitIs
        <4>2. SplitByte(Split(j), SPACE) = [ended |-> Append(Split(j).ended, Split(j).open), open |-> <<>>]
          BY <3>3, <4>1, SplitByteIs
        <4>3. Split(j).ended = Front(u) /\ Split(j).open = Last(u)
          BY <3>2
        <4>4. Append(Split(j).ended, Split(j).open) = Append(Front(u), Last(u))
          BY <4>3
        <4>5. Split(j \o <<SPACE>>) = SplitByte(Split(j), SPACE)
          BY <3>3, <4>1
        <4> QED BY <4>2, <4>4, <4>5
      <3>5. Append(Front(u), Last(u)) = u
        <4> HIDE DEF B
        <4> QED BY <2>1, <2>5, FrontIs
      <3>6. j \o <<SPACE>> \in Seq(Octet)
        BY <3>1, <3>3
      <3>7. Split(Joined(t)) = [ended |-> u, open |-> <<>> \o w]
        <4> DEFINE q == j \o <<SPACE>>
        <4>1. q \in Seq(Octet) /\ w \in Seq(Octet)
          BY <2>1, <3>6
        <4>2. Split(q) = [ended |-> u, open |-> <<>>]
          BY <3>4, <3>5
        <4> HIDE DEF q
        <4>3. Split(q \o w) = [ended |-> Split(q).ended, open |-> Split(q).open \o w]
          BY <2>2, <4>1, SplitWord
        <4>4. Split(q \o w) = [ended |-> u, open |-> <<>> \o w]
          BY <4>2, <4>3
        <4> QED BY <3>1, <4>4 DEF q
      <3>8. <<>> \o w = w
        BY <2>1
      <3> QED BY <3>7, <3>8 DEF u, w
    <2> QED BY <2>4, <2>5
  <1>3. Seq(B) \subseteq S
    <2> HIDE DEF S, B
    <2> QED BY <1>1, <1>2, SeqInduction
  <1>4. Split(Joined(fs)) = [ended |-> Front(fs), open |-> Last(fs)]
    BY <1>3
  <1>5. Append(Front(fs), Last(fs)) = fs
    BY FrontIs
  <1> QED BY <1>4, <1>5 DEF Fields

LEMMA NoSpaceConcat ==
  ASSUME NEW s \in Seq(Octet), NEW t \in Seq(Octet), NoSpace(s), NoSpace(t)
  PROVE  NoSpace(s \o t)
  <1>1. /\ Len(s \o t) = Len(s) + Len(t) /\ Len(s) \in Nat /\ Len(t) \in Nat
        /\ \A i \in 1..Len(s) + Len(t) : (s \o t)[i] = IF i <= Len(s) THEN s[i] ELSE t[i - Len(s)]
    BY ConcatProperties
  <1> SUFFICES ASSUME NEW i \in 1..Len(s) + Len(t) PROVE (s \o t)[i] # SPACE
    BY <1>1 DEF NoSpace
  <1>2. CASE i <= Len(s)
    <2>1. i \in 1..Len(s) /\ (s \o t)[i] = s[i]
      BY <1>1, <1>2
    <2> QED BY <2>1 DEF NoSpace
  <1>3. CASE ~(i <= Len(s))
    <2>1. i - Len(s) \in 1..Len(t) /\ (s \o t)[i] = t[i - Len(s)]
      BY <1>1, <1>3
    <2> QED BY <2>1 DEF NoSpace
  <1> QED BY <1>2, <1>3

LEMMA MangleNoSpace ==
  ASSUME NEW n \in Seq(Octet)
  PROVE  NoSpace(Mangle(n))
  <1> DEFINE S == {s \in Seq(Octet) : NoSpace(Mangle(s))}
  <1>1. <<>> \in S
    BY MangleIs DEF NoSpace
  <1>2. ASSUME NEW s \in Seq(Octet) \ {<<>>}, Front(s) \in S PROVE s \in S
    <2>1. Front(s) \in Seq(Octet) /\ Last(s) \in Octet /\ s = Append(Front(s), Last(s))
      BY FrontIs
    <2>2. Mangle(s) = Mangle(Front(s)) \o Mangled(Last(s)) /\ Mangle(Front(s)) \in Seq(Octet)
      BY <2>1, MangleIs
    <2>3. Mangled(Last(s)) \in Seq(Octet) /\ NoSpace(Mangled(Last(s)))
      BY <2>1, MangledIs DEF NoSpace
    <2> QED BY <1>2, <2>2, <2>3, NoSpaceConcat
  <1>3. Seq(Octet) \subseteq S
    <2> HIDE DEF S
    <2> QED BY <1>1, <1>2, SeqInduction
  <1> QED BY <1>3

LEMMA OctalIs ==
  ASSUME NEW s \in Seq(Octet), NEW i \in Nat \ {0}
  PROVE  Octal(s, i) \in Octet \cup {-1}
  <1> DEFINE high == IF s[i + 1] = PLUS THEN 0 ELSE s[i + 1] - ZERO
             v == high * 64 + (s[i + 2] - ZERO) * 8 + (s[i + 3] - ZERO)
             Reads == /\ i + 3 <= Len(s)
                      /\ IsOctal(s[i + 1]) \/ s[i + 1] = PLUS
                      /\ IsOctal(s[i + 2]) /\ IsOctal(s[i + 3])
  <1>1. CASE Reads
    <2>1. high \in 0..7 /\ s[i + 2] - ZERO \in 0..7 /\ s[i + 3] - ZERO \in 0..7
      BY <1>1 DEF IsOctal, ZERO, PLUS
    <2>2. v \in Nat
      <3> DEFINE y == s[i + 2] - ZERO  z == s[i + 3] - ZERO
      <3>1. high \in 0..7 /\ y \in 0..7 /\ z \in 0..7
        BY <2>1
      <3> HIDE DEF high, y, z
      <3>2. high * 64 + y * 8 + z \in Nat
        BY <3>1
      <3> QED BY <3>2 DEF y, z
    <2>3. Octal(s, i) = IF v <= 255 THEN v ELSE -1
      BY <1>1 DEF Octal
    <2> HIDE DEF v
    <2> QED BY <2>2, <2>3 DEF Octet
  <1>2. CASE ~Reads
    BY <1>2 DEF Octal
  <1> QED BY <1>1, <1>2

UnescapeState == [i : Nat \ {0}, out : Seq(Octet)]

LEMMA UnescapeIs ==
  ASSUME NEW s \in Seq(Octet), NEW st \in UnescapeState
  PROVE  Unescape(s, st) \in UnescapeState
  <1>1. st.i \in Nat \ {0} /\ st.out \in Seq(Octet)
    BY DEF UnescapeState
  <1>2. CASE st.i > Len(s)
    BY <1>2 DEF Unescape
  <1>3. CASE ~(st.i > Len(s)) /\ s[st.i] = BACKSLASH /\ Octal(s, st.i) >= 0
    <2>1. Octal(s, st.i) \in Octet
      <3>1. Octal(s, st.i) \in Octet \cup {-1}
        BY <1>1, OctalIs
      <3>2. Octal(s, st.i) # -1
        BY <1>3
      <3> QED BY <3>1, <3>2
    <2>2. Append(st.out, Octal(s, st.i)) \in Seq(Octet)
      BY <1>1, <2>1, AppendProperties
    <2>3. Unescape(s, st) = [i |-> st.i + 4, out |-> Append(st.out, Octal(s, st.i))]
      BY <1>3 DEF Unescape
    <2> QED BY <1>1, <2>2, <2>3 DEF UnescapeState
  <1>4. CASE ~(st.i > Len(s)) /\ ~(s[st.i] = BACKSLASH /\ Octal(s, st.i) >= 0)
    <2>1. s[st.i] \in Octet
      BY <1>1, <1>4
    <2>2. Append(st.out, s[st.i]) \in Seq(Octet)
      BY <1>1, <2>1, AppendProperties
    <2>3. Unescape(s, st) = [i |-> st.i + 1, out |-> Append(st.out, s[st.i])]
      BY <1>4 DEF Unescape
    <2> QED BY <1>1, <2>2, <2>3 DEF UnescapeState
  <1> QED BY <1>2, <1>3, <1>4

\* A turn undoes the escaping of a byte.
LEMMA TurnIs ==
  ASSUME NEW p \in Seq(Octet), NEW b \in Octet, NEW r \in Seq(Octet), NEW o \in Seq(Octet)
  PROVE  Unescape(p \o (Mangled(b) \o r), [i |-> Len(p) + 1, out |-> o])
         = [i |-> Len(p) + Len(Mangled(b)) + 1, out |-> Append(o, b)]
  <1> DEFINE k == Len(p)  a == Mangled(b)  m == p \o (a \o r)
  <1>1. k \in Nat /\ a \in Seq(Octet) /\ Len(a) \in {1, 4} /\ Len(r) \in Nat
    BY MangledIs
  <1>2. Len(m) = k + Len(a) + Len(r) /\ \A j \in 1..Len(a) : m[k + j] = a[j]
    <2> HIDE DEF a
    <2>1. a \o r \in Seq(Octet) /\ Len(a \o r) = Len(a) + Len(r) /\ \A j \in 1..Len(a) : (a \o r)[j] = a[j]
      BY <1>1, ConcatProperties
    <2> DEFINE q == a \o r
    <2> HIDE DEF q
    <2>2. Len(p \o q) = Len(p) + Len(q) /\ \A j \in 1..Len(q) : (p \o q)[Len(p) + j] = q[j]
      BY <2>1 DEF q
    <2> QED BY <1>1, <2>1, <2>2 DEF q
  <1> DEFINE st == [i |-> k + 1, out |-> o]
  <1>3. st.i = k + 1 /\ st.out = o
    OBVIOUS
  <1> HIDE DEF st, m
  <1>4. CASE b \in {SPACE, 9, 10, BACKSLASH}
    <2>1. /\ Len(a) = 4 /\ a[1] = BACKSLASH /\ a[2] = ZERO + (b \div 64)
          /\ a[3] = ZERO + ((b \div 8) % 8) /\ a[4] = ZERO + (b % 8)
      BY <1>4 DEF Mangled
    <2> HIDE DEF a
    <2>2. /\ k + 1 <= Len(m) /\ (k + 1) + 3 <= Len(m) /\ m[k + 1] = BACKSLASH
          /\ m[(k + 1) + 1] = ZERO + (b \div 64) /\ m[(k + 1) + 2] = ZERO + ((b \div 8) % 8)
          /\ m[(k + 1) + 3] = ZERO + (b % 8)
      BY <1>1, <1>2, <2>1, SMTT(30)
    <2>3. /\ b \div 64 \in 0..7 /\ (b \div 8) % 8 \in 0..7 /\ b % 8 \in 0..7
          /\ (b \div 64) * 64 + ((b \div 8) % 8) * 8 + (b % 8) = b
      BY <1>4, SMTT(30) DEF SPACE, BACKSLASH
    <2>4. Octal(m, k + 1) = b
      <3> DEFINE x == b \div 64  y == (b \div 8) % 8  z == b % 8
      <3>1. x \in 0..7 /\ y \in 0..7 /\ z \in 0..7 /\ x * 64 + y * 8 + z = b /\ b \in 0..255
        BY <2>3 DEF Octet
      <3>2. /\ (k + 1) + 3 <= Len(m)
            /\ m[(k + 1) + 1] = ZERO + x /\ m[(k + 1) + 2] = ZERO + y /\ m[(k + 1) + 3] = ZERO + z
        BY <2>2
      <3> HIDE DEF x, y, z
      <3> QED BY <3>1, <3>2 DEF Octal, IsOctal, ZERO, PLUS
    <2>5. Unescape(m, st) = [i |-> k + 1 + 4, out |-> Append(o, b)]
      <3>1. Octal(m, st.i) = b /\ b >= 0 /\ ~(st.i > Len(m)) /\ m[st.i] = BACKSLASH
        BY <1>1, <1>2, <1>3, <2>2, <2>4 DEF Octet
      <3>2. Unescape(m, st) = [i |-> st.i + 4, out |-> Append(st.out, b)]
        BY <3>1 DEF Unescape
      <3> QED BY <1>3, <3>2
    <2>6. k + 1 + 4 = k + 4 + 1
      BY <1>1
    <2> QED BY <2>1, <2>5, <2>6 DEF m, st, a
  <1>5. CASE b \notin {SPACE, 9, 10, BACKSLASH}
    <2>1. Len(a) = 1 /\ a[1] = b
      BY <1>5 DEF Mangled
    <2> HIDE DEF a
    <2>2. k + 1 <= Len(m) /\ m[k + 1] = b
      BY <1>1, <1>2, <2>1
    <2>3. Unescape(m, st) = [i |-> k + 1 + 1, out |-> Append(o, b)]
      <3>1. m[st.i] = b /\ b # BACKSLASH /\ ~(st.i > Len(m))
        BY <1>1, <1>2, <1>3, <1>5, <2>2
      <3>2. Unescape(m, st) = [i |-> st.i + 1, out |-> Append(st.out, b)]
        BY <3>1 DEF Unescape
      <3> QED BY <1>3, <3>2
    <2> QED BY <2>1, <2>3 DEF m, st, a
  <1> QED BY <1>4, <1>5

Started == [i |-> 1, out |-> <<>>]
Turning(s, f) == f = [n \in 0..Len(s) |-> IF n = 0 THEN Started ELSE Unescape(s, f[n - 1])]
Turns(s) == CHOOSE f : Turning(s, f)

LEMMA TurnsAre ==
  ASSUME NEW s \in Seq(Octet)
  PROVE  /\ Len(s) \in Nat /\ Turns(s)[0] = Started
         /\ \A n \in 1..Len(s) : Turns(s)[n] = Unescape(s, Turns(s)[n - 1])
         /\ unescape_octal(s) = Turns(s)[Len(s)].out
  <1> DEFINE X == UnescapeState
             N == Len(s)
             turn == [x \in X |-> Unescape(s, x)]
             g == [n \in 1..N |-> turn]
  <1>1. N \in Nat /\ Started \in X
    BY DEF Started, UnescapeState
  <1>2. turn \in [X -> X]
    <2>1. \A x \in X : Unescape(s, x) \in X
      BY UnescapeIs
    <2> HIDE DEF X
    <2> QED BY <2>1
  <1>3. g \in [1..N -> [X -> X]]
    BY <1>2
  <1>4. Runs(N, X, Started, g) # {}
    <2> HIDE DEF g, X, N
    <2> QED BY <1>1, <1>3, Recursion
  <1>5. PICK f \in [0..N -> X] : f[0] = Started /\ \A n \in 1..N : f[n] = g[n][f[n - 1]]
    <2> HIDE DEF g, X, N
    <2> QED BY <1>4 DEF Runs
  <1> HIDE DEF X, N
  <1>6. \A n \in 1..N : f[n] = Unescape(s, f[n - 1])
    <2> TAKE n \in 1..N
    <2>1. n - 1 \in 0..N
      BY <1>1
    <2>2. f[n - 1] \in X /\ g[n] = turn
      BY <2>1
    <2>3. g[n][f[n - 1]] = Unescape(s, f[n - 1])
      BY <2>2
    <2> HIDE DEF g
    <2> QED BY <1>5, <2>3
  <1>7. Turning(s, f)
    <2>1. \A n \in 0..N : f[n] = IF n = 0 THEN Started ELSE Unescape(s, f[n - 1])
      BY <1>1, <1>5, <1>6
    <2>2. f = [n \in 0..N |-> IF n = 0 THEN Started ELSE Unescape(s, f[n - 1])]
      BY <2>1
    <2> QED BY <2>2 DEF Turning, N
  <1>8. Turning(s, Turns(s))
    BY <1>7 DEF Turns
  <1>9. \A n \in 0..N : Turns(s)[n] = IF n = 0 THEN Started ELSE Unescape(s, Turns(s)[n - 1])
    <2> DEFINE h == Turns(s)
    <2>1. h = [n \in 0..N |-> IF n = 0 THEN Started ELSE Unescape(s, h[n - 1])]
      BY <1>8 DEF Turning, N
    <2> HIDE DEF h
    <2>2. \A n \in 0..N : h[n] = IF n = 0 THEN Started ELSE Unescape(s, h[n - 1])
      BY <2>1
    <2> QED BY <2>2 DEF h
  <1>10. unescape_octal(s) = Turns(s)[N].out
    BY DEF unescape_octal, Turns, Turning, Started, N
  <1>11. Turns(s)[0] = Started /\ \A n \in 1..N : Turns(s)[n] = Unescape(s, Turns(s)[n - 1])
    <2>1. 0 \in 0..N /\ \A n \in 1..N : n \in 0..N /\ n # 0
      BY <1>1
    <2> QED BY <1>9, <2>1
  <1> QED BY <1>1, <1>10, <1>11 DEF N

\* As many turns as the name has bytes go over it, whatever follows it.
LEMMA TurnsOver ==
  ASSUME NEW n \in Seq(Octet), NEW r \in Seq(Octet)
  PROVE  /\ Len(n) <= Len(Mangle(n))
         /\ Turns(Mangle(n) \o r)[Len(n)] = [i |-> Len(Mangle(n)) + 1, out |-> n]
  <1> DEFINE P(t, q) == Turns(Mangle(t) \o q)[Len(t)] = [i |-> Len(Mangle(t)) + 1, out |-> t]
             S == {t \in Seq(Octet) : Len(t) <= Len(Mangle(t)) /\ \A q \in Seq(Octet) : P(t, q)}
  <1>1. <<>> \in S
    <2>1. <<>> \in Seq(Octet) /\ Mangle(<<>>) = <<>> /\ Len(<<>>) = 0
      BY MangleIs
    <2>2. ASSUME NEW q \in Seq(Octet) PROVE P(<<>>, q)
      <3>1. <<>> \o q = q
        OBVIOUS
      <3>2. Turns(q)[0] = Started
        BY TurnsAre
      <3>3. Mangle(<<>>) \o q = q
        BY <2>1, <3>1
      <3>4. [i |-> Len(Mangle(<<>>)) + 1, out |-> <<>>] = Started
        BY <2>1 DEF Started
      <3> QED BY <2>1, <3>2, <3>3, <3>4
    <2> QED BY <2>1, <2>2
  <1>2. ASSUME NEW t \in Seq(Octet) \ {<<>>}, Front(t) \in S PROVE t \in S
    <2> DEFINE u == Front(t)  b == Last(t)
    <2>1. u \in Seq(Octet) /\ b \in Octet /\ t = Append(u, b) /\ Len(t) = Len(u) + 1 /\ Len(u) \in Nat
      <3>1. /\ u \in Seq(Octet) /\ b \in Octet /\ t = Append(u, b)
            /\ Len(u) = Len(t) - 1 /\ Len(t) \in Nat \ {0}
        BY FrontIs
      <3> QED BY <3>1
    <2>2. Len(u) <= Len(Mangle(u)) /\ \A q \in Seq(Octet) : P(u, q)
      BY <1>2
    <2> HIDE DEF u, b
    <2> DEFINE p == Mangle(u)  a == Mangled(b)
    <2>3. p \in Seq(Octet) /\ a \in Seq(Octet) /\ Len(a) \in {1, 4} /\ Mangle(t) = p \o a
      BY <2>1, MangleIs, MangledIs
    <2>4. Len(Mangle(t)) = Len(p) + Len(a) /\ Len(p) \in Nat
      <3> HIDE DEF p, a
      <3> QED BY <2>3, ConcatProperties
    <2>5. Len(t) <= Len(Mangle(t))
      <3>1. Len(u) <= Len(p)
        BY <2>2
      <3>2. Len(a) >= 1
        <4>1. Len(a) = 1 \/ Len(a) = 4
          BY <2>3
        <4> DEFINE l == Len(a)
        <4>2. l = 1 \/ l = 4
          BY <4>1
        <4> HIDE DEF l
        <4>3. l >= 1
          BY <4>2
        <4> QED BY <4>3 DEF l
      <3> DEFINE k == Len(p)  l == Len(a)  c == Len(u)
      <3>3. k \in Nat /\ l \in Nat /\ c \in Nat /\ c <= k /\ l >= 1
        BY <2>1, <2>3, <2>4, <3>1, <3>2
      <3>4. Len(t) = c + 1 /\ Len(Mangle(t)) = k + l
        BY <2>1, <2>4
      <3> HIDE DEF k, l, c
      <3> QED BY <3>3, <3>4
    <2>6. ASSUME NEW q \in Seq(Octet) PROVE P(t, q)
      <3> DEFINE m == p \o (a \o q)
      <3>1. Mangle(t) \o q = m
        <4> HIDE DEF p, a
        <4>1. p \in Seq(Octet) /\ a \in Seq(Octet) /\ q \in Seq(Octet)
          BY <2>3
        <4>2. (p \o a) \o q = p \o (a \o q)
          BY <4>1, ConcatAssociative, SMTT(30)
        <4> QED BY <2>3, <4>2
      <3>2. a \o q \in Seq(Octet) /\ m \in Seq(Octet) /\ Len(m) >= Len(Mangle(t))
        <4> HIDE DEF p, a
        <4>1. a \o q \in Seq(Octet) /\ Len(a \o q) = Len(a) + Len(q) /\ Len(q) \in Nat
          BY <2>3, ConcatProperties
        <4> DEFINE w == a \o q
        <4> HIDE DEF w
        <4>2. p \o w \in Seq(Octet) /\ Len(p \o w) = Len(p) + Len(w)
          BY <2>3, <4>1, ConcatProperties DEF w
        <4> QED BY <2>3, <2>4, <4>1, <4>2 DEF w
      <3>3. Turns(m)[Len(u)] = [i |-> Len(p) + 1, out |-> u]
        BY <2>2, <3>2
      <3>4. Len(t) \in 1..Len(m) /\ Len(t) - 1 = Len(u)
        <4> HIDE DEF m
        <4>1. Len(m) \in Nat
          BY <3>2
        <4> QED BY <2>1, <2>4, <2>5, <3>2, <4>1
      <3>5. Turns(m)[Len(t)] = Unescape(m, Turns(m)[Len(u)])
        <4> HIDE DEF m
        <4> QED BY <3>2, <3>4, TurnsAre
      <3>6. Unescape(m, [i |-> Len(p) + 1, out |-> u]) = [i |-> Len(p) + Len(a) + 1, out |-> Append(u, b)]
        <4>1. p \in Seq(Octet)
          BY <2>3
        <4> HIDE DEF p
        <4>2. u \in Seq(Octet) /\ b \in Octet
          BY <2>1
        <4> QED BY <4>1, <4>2, TurnIs
      <3>7. Turns(m)[Len(t)] = [i |-> Len(Mangle(t)) + 1, out |-> t]
        <4> HIDE DEF m, p, a
        <4> QED BY <2>1, <2>4, <3>3, <3>5, <3>6
      <3> QED BY <3>1, <3>7
    <2> QED BY <2>5, <2>6
  <1>3. Seq(Octet) \subseteq S
    <2> HIDE DEF S
    <2> QED BY <1>1, <1>2, SeqInduction
  <1> QED BY <1>3

\* unescape_octal (mount_list.rs) undoes what the kernel does to a name, for names of
\* every length over all bytes: no two names are escaped alike.
THEOREM EscapesUndone ==
  ASSUME NEW n \in Seq(Octet)
  PROVE  unescape_octal(Mangle(n)) = n
  <1> DEFINE m == Mangle(n)
             P(k) == Turns(m)[k] = [i |-> Len(m) + 1, out |-> n]
             S == {k \in Nat : Len(n) <= k /\ k <= Len(m) => P(k)}
  <1>1. m \in Seq(Octet) /\ m \o <<>> = m /\ Len(m) \in Nat /\ Len(n) \in Nat
    BY MangleIs
  <1>2. <<>> \in Seq(Octet)
    OBVIOUS
  <1>3. Len(n) <= Len(m) /\ P(Len(n))
    BY <1>1, <1>2, TurnsOver
  <1> HIDE DEF m
  <1>4. 0 \in S
    BY <1>1, <1>3
  <1>5. ASSUME NEW k \in Nat, k \in S PROVE k + 1 \in S
    <2> SUFFICES ASSUME Len(n) <= k + 1, k + 1 <= Len(m) PROVE P(k + 1)
      OBVIOUS
    <2>1. CASE Len(n) = k + 1
      BY <1>3, <2>1
    <2>2. CASE Len(n) # k + 1
      <3>1. P(k) /\ k + 1 \in 1..Len(m) /\ (k + 1) - 1 = k
        BY <1>1, <1>5, <2>2
      <3>2. Turns(m)[k + 1] = Unescape(m, Turns(m)[k])
        BY <1>1, <3>1, TurnsAre
      <3>3. Unescape(m, [i |-> Len(m) + 1, out |-> n]) = [i |-> Len(m) + 1, out |-> n]
        <4> DEFINE st == [i |-> Len(m) + 1, out |-> n]
        <4>1. st.i > Len(m)
          BY <1>1
        <4> HIDE DEF st
        <4>2. Unescape(m, st) = st
          BY <4>1 DEF Unescape
        <4> QED BY <4>2 DEF st
      <3> QED BY <3>1, <3>2, <3>3
    <2> QED BY <2>1, <2>2
  <1>6. Nat \subseteq S
    <2> HIDE DEF S
    <2> QED BY <1>4, <1>5, SetInduction
  <1>7. P(Len(m))
    BY <1>1, <1>3, <1>6
  <1>8. unescape_octal(m) = Turns(m)[Len(m)].out
    BY <1>1, TurnsAre
  <1> QED BY <1>7, <1>8 DEF m

ParsedLine(n, type) ==
  IF IsFuse(type) THEN [point |-> n, source |-> n, found |-> TRUE] ELSE NoMount

LEMMA SeqWithin ==
  ASSUME NEW V, NEW W, V \subseteq W, NEW w \in Seq(V)
  PROVE  w \in Seq(W) /\ Len(w) \in Nat /\ \A i \in 1..Len(w) : w[i] \in V
  OBVIOUS

LEMMA PrintableIs ==
  ASSUME NEW w \in Seq(33..126)
  PROVE  w \in Seq(Octet) /\ NoSpace(w)
  <1> DEFINE V == 33..126
  <1>1. V \subseteq Octet /\ \A b \in V : b # SPACE
    BY DEF Octet, SPACE
  <1> HIDE DEF V
  <1>2. w \in Seq(V)
    BY DEF V
  <1>3. w \in Seq(Octet) /\ \A i \in 1..Len(w) : w[i] \in V
    BY <1>1, <1>2, SeqWithin
  <1> QED BY <1>1, <1>3 DEF NoSpace

\* The place where parse_mountinfo finds the separator is the kernel's.
LEMMA SeparatorFound ==
  ASSUME NEW n \in Seq(Octet), n # <<DASH>>, NEW opt \in Optional, NEW type \in FsType
  PROVE  LET f == Fields(InfoLine(n, opt, type))
             seps == {i \in 1..Len(f) : f[i] = <<DASH>>}
             s == 7 + Len(opt)
         IN  /\ Len(opt) \in Nat /\ Len(f) = s + 3 /\ f[5] = Mangle(n)
             /\ f[s + 1] = type /\ f[s + 2] = Mangle(n)
             /\ s \in seps /\ \A j \in seps : s <= j
  <1> DEFINE B == Seq(Octet)
             M == Mangle(n)
             A == <<Plain, Plain, Plain, Plain, M, Plain>>
             D == << <<DASH>>, type, M, Plain>>
             k == Len(opt)
             fs == (A \o opt) \o D
  <1>1. Plain \in B /\ NoSpace(Plain) /\ Plain # <<DASH>>
    BY DEF Plain, NoSpace, SPACE, DASH, Octet
  <1>2. <<DASH>> \in B /\ NoSpace(<<DASH>>) /\ Mangle(<<DASH>>) = <<DASH>>
    <2>1. <<>> \in B /\ DASH \in Octet /\ Append(<<>>, DASH) = <<DASH>> /\ Mangled(DASH) = <<DASH>>
      BY DEF DASH, SPACE, BACKSLASH, Octet, Mangled
    <2>2. Mangle(<<DASH>>) = <<>> \o <<DASH>>
      BY <2>1, MangleIs
    <2> QED BY <2>2 DEF NoSpace, SPACE, DASH, Octet
  <1>3. M \in B /\ NoSpace(M) /\ M # <<DASH>>
    <2>1. M \in B /\ NoSpace(M)
      BY MangleIs, MangleNoSpace
    <2>2. M # <<DASH>>
      BY <1>2, EscapesUndone
    <2> QED BY <2>1, <2>2
  <1>4. type \in B /\ NoSpace(type)
    <2>1. type \in Seq(33..126)
      BY MountInfoAssumption
    <2> QED BY <2>1, PrintableIs
  <1>5. opt \in Seq(B) /\ k \in Nat /\ \A i \in 1..k : NoSpace(opt[i]) /\ opt[i] # <<DASH>>
    <2> DEFINE V == Seq(33..126) \ {<<DASH>>}
    <2>1. opt \in Seq(V)
      BY MountInfoAssumption
    <2>2. \A w \in V : w \in B /\ NoSpace(w) /\ w # <<DASH>>
      BY PrintableIs
    <2> HIDE DEF V, B
    <2>3. V \subseteq B
      BY <2>2
    <2>4. opt \in Seq(B) /\ Len(opt) \in Nat /\ \A i \in 1..Len(opt) : opt[i] \in V
      BY <2>1, <2>3, SeqWithin
    <2> QED BY <2>2, <2>4
  <1> HIDE DEF B, M
  <1>6. /\ A \in Seq(B) /\ Len(A) = 6 /\ A[5] = M
        /\ \A i \in 1..6 : NoSpace(A[i]) /\ A[i] # <<DASH>>
    BY <1>1, <1>3
  <1>7. /\ D \in Seq(B) /\ Len(D) = 4 /\ D[1] = <<DASH>> /\ D[2] = type /\ D[3] = M
        /\ \A i \in 1..4 : NoSpace(D[i])
    BY <1>1, <1>2, <1>3, <1>4
  <1> HIDE DEF A, D, k
  <1>8. /\ fs \in Seq(B) /\ Len(fs) = k + 10
        /\ \A i \in 1..6 : fs[i] = A[i]
        /\ \A i \in 1..k : fs[6 + i] = opt[i]
        /\ \A i \in 1..4 : fs[6 + k + i] = D[i]
    <2> DEFINE P == A \o opt
    <2>1. /\ P \in Seq(B) /\ Len(P) = 6 + k
          /\ \A i \in 1..6 + k : P[i] = IF i <= 6 THEN A[i] ELSE opt[i - 6]
      <3>1. Len(opt) = k
        BY DEF k
      <3>2. /\ A \o opt \in Seq(B) /\ Len(A \o opt) = Len(A) + Len(opt)
            /\ \A i \in 1..Len(A) + Len(opt) :
                 (A \o opt)[i] = IF i <= Len(A) THEN A[i] ELSE opt[i - Len(A)]
        BY <1>5, <1>6, ConcatProperties
      <3> QED BY <1>6, <3>1, <3>2
    <2> HIDE DEF P
    <2>2. /\ P \o D \in Seq(B) /\ Len(P \o D) = (6 + k) + 4
          /\ \A i \in 1..(6 + k) + 4 : (P \o D)[i] = IF i <= 6 + k THEN P[i] ELSE D[i - (6 + k)]
      <3>1. /\ P \o D \in Seq(B) /\ Len(P \o D) = Len(P) + Len(D)
            /\ \A i \in 1..Len(P) + Len(D) :
                 (P \o D)[i] = IF i <= Len(P) THEN P[i] ELSE D[i - Len(P)]
        BY <1>7, <2>1, ConcatProperties
      <3> QED BY <1>7, <2>1, <3>1
    <2> DEFINE q == P \o D
    <2>3. fs = q
      BY DEF P
    <2> HIDE DEF q, fs
    <2>4. \A i \in 1..6 : q[i] = A[i]
      BY <1>5, <2>1, <2>2 DEF q
    <2>5. \A i \in 1..k : q[6 + i] = opt[i]
      BY <1>5, <2>1, <2>2 DEF q
    <2>6. \A i \in 1..4 : q[6 + k + i] = D[i]
      BY <1>5, <2>1, <2>2 DEF q
    <2>7. q \in Seq(B) /\ Len(q) = k + 10
      BY <1>5, <2>2 DEF q
    <2> QED BY <2>3, <2>4, <2>5, <2>6, <2>7
  <1> HIDE DEF fs
  <1>9. \A i \in 1..k + 10 : NoSpace(fs[i])
    <2> TAKE i \in 1..k + 10
    <2>1. CASE i <= 6
      BY <1>6, <1>8, <2>1
    <2>2. CASE 6 < i /\ i <= 6 + k
      <3>1. i - 6 \in 1..k /\ 6 + (i - 6) = i
        BY <1>5, <2>2
      <3>2. fs[i] = opt[i - 6]
        BY <1>8, <3>1
      <3> QED BY <1>5, <3>1, <3>2
    <2>3. CASE 6 + k < i
      <3>1. i - (6 + k) \in 1..4 /\ 6 + k + (i - (6 + k)) = i
        BY <1>5, <2>3
      <3>2. fs[i] = D[i - (6 + k)]
        BY <1>8, <3>1
      <3> QED BY <1>7, <3>1, <3>2
    <2> QED BY <1>5, <2>1, <2>2, <2>3
  <1>10. Fields(InfoLine(n, opt, type)) = fs
    <2>1. InfoLine(n, opt, type) = Joined(fs)
      BY DEF InfoLine, fs, A, D, M
    <2>2. fs # <<>>
      BY <1>5, <1>8, EmptySeq
    <2>3. fs \in Seq(Seq(Octet)) \ {<<>>} /\ \A i \in 1..Len(fs) : NoSpace(fs[i])
      BY <1>8, <1>9, <2>2 DEF B
    <2> QED BY <2>1, <2>3, SplitJoined
  <1>11. fs[5] = M /\ fs[7 + k] = <<DASH>> /\ fs[7 + k + 1] = type /\ fs[7 + k + 2] = M
    <2>1. 6 + k + 1 = 7 + k /\ 6 + k + 2 = 7 + k + 1 /\ 6 + k + 3 = 7 + k + 2
      BY <1>5
    <2>2. fs[6 + k + 1] = D[1] /\ fs[6 + k + 2] = D[2] /\ fs[6 + k + 3] = D[3] /\ fs[5] = A[5]
      BY <1>8
    <2> QED BY <1>6, <1>7, <2>1, <2>2
  <1>12. ASSUME NEW j \in 1..k + 10, fs[j] = <<DASH>> PROVE 7 + k <= j
    <2> SUFFICES ASSUME j < 7 + k PROVE FALSE
      BY <1>5
    <2>1. CASE j <= 6
      BY <1>6, <1>8, <1>12, <2>1
    <2>2. CASE 6 < j
      <3>1. j - 6 \in 1..k /\ 6 + (j - 6) = j
        BY <1>5, <2>2
      <3>2. fs[j] = opt[j - 6]
        BY <1>8, <3>1
      <3> QED BY <1>5, <1>12, <3>1, <3>2
    <2> QED BY <2>1, <2>2
  <1>13. /\ Len(fs) = 7 + k + 3 /\ 7 + k \in 1..Len(fs)
         /\ \A j \in 1..Len(fs) : fs[j] = <<DASH>> => 7 + k <= j
    BY <1>5, <1>8, <1>12
  <1> QED BY <1>5, <1>10, <1>11, <1>13 DEF k, M

\* parse_mountinfo (mount_list.rs) makes of a line what the kernel made it of: the
\* optional fields do not hide the separator, the names come back unescaped, and
\* what is not FUSE is left out.
THEOREM LineParsed ==
  ASSUME NEW n \in Seq(Octet), n # <<DASH>>, NEW opt \in Optional, NEW type \in FsType
  PROVE  parse_mountinfo(InfoLine(n, opt, type)) = ParsedLine(n, type)
  <1> DEFINE f == Fields(InfoLine(n, opt, type))
             seps == {i \in 1..Len(f) : f[i] = <<DASH>>}
             sep == CHOOSE i \in seps : \A j \in seps : i <= j
             s == 7 + Len(opt)
  <1>1. /\ Len(opt) \in Nat /\ Len(f) = s + 3 /\ f[5] = Mangle(n)
        /\ f[s + 1] = type /\ f[s + 2] = Mangle(n)
        /\ s \in seps /\ \A j \in seps : s <= j
    BY SeparatorFound
  <1>2. parse_mountinfo(InfoLine(n, opt, type)) =
          IF seps # {} /\ sep + 2 <= Len(f) /\ Len(f) >= 5 /\ IsFuse(f[sep + 1])
          THEN [point |-> unescape_octal(f[5]), source |-> unescape_octal(f[sep + 2]), found |-> TRUE]
          ELSE NoMount
    BY DEF parse_mountinfo
  <1>3. seps \in SUBSET Nat
    OBVIOUS
  <1> HIDE DEF seps, f
  <1>4. sep \in seps /\ \A j \in seps : sep <= j
    BY <1>1
  <1> HIDE DEF sep
  <1>5. sep = s
    BY <1>1, <1>3, <1>4
  <1>6. seps # {} /\ sep + 2 <= Len(f) /\ Len(f) >= 5 /\ f[sep + 1] = type /\ f[sep + 2] = Mangle(n)
    BY <1>1, <1>5
  <1>7. unescape_octal(Mangle(n)) = n
    BY EscapesUndone
  <1> HIDE DEF s
  <1> QED BY <1>1, <1>2, <1>6, <1>7 DEF ParsedLine

InfoInv ==
  /\ name \in Seq(Octet) /\ name # <<>> /\ name[1] = 47
  /\ optional \in Optional /\ fstype \in FsType
  /\ parsed = parse_mountinfo(InfoLine(name, optional, fstype))

\* `mount list` knows a mount by the name its directory has, however long that is
\* and whatever looks like an escape in it (parse_mountinfo in mount_list.rs).
THEOREM NamesAreKept == InfoSpec => []NamesSurvive
  <1>1. InfoInit => InfoInv
    <2> SUFFICES ASSUME InfoInit PROVE InfoInv
      OBVIOUS
    <2>1. name = <<47>> /\ name \in Seq(Octet) /\ name # <<>> /\ name[1] = 47
      BY DEF InfoInit, Octet
    <2> QED BY <2>1 DEF InfoInit, InfoInv
  <1>2. InfoInv /\ [InfoNext]_infoVars => InfoInv'
    <2> SUFFICES ASSUME InfoInv, [InfoNext]_infoVars PROVE InfoInv'
      OBVIOUS
    <2>1. ASSUME NEW b \in NameByte, AddByte(b) PROVE InfoInv'
      <3>1. b \in Octet /\ name' = Append(name, b) /\ Len(name) \in Nat \ {0}
        BY <2>1, MountInfoAssumption, EmptySeq DEF AddByte, Octet, InfoInv
      <3>2. name' \in Seq(Octet) /\ name' # <<>> /\ name'[1] = 47
        BY <3>1, AppendProperties DEF InfoInv
      <3>3. parsed' = parse_mountinfo(InfoLine(name', optional', fstype'))
        BY <2>1 DEF AddByte
      <3> QED BY <2>1, <3>2, <3>3 DEF InfoInv, AddByte
    <2>2. CASE UNCHANGED infoVars
      BY <2>2 DEF infoVars, InfoInv
    <2> QED BY <2>1, <2>2 DEF InfoNext
  <1>3. InfoInv => NamesSurvive
    <2> SUFFICES ASSUME InfoInv PROVE NamesSurvive
      OBVIOUS
    <2>1. name # <<DASH>>
      BY DEF InfoInv, DASH
    <2>2. parsed = ParsedLine(name, fstype)
      BY <2>1, LineParsed DEF InfoInv
    <2> QED BY <2>2 DEF NamesSurvive, ParsedLine
  <1> QED BY <1>1, <1>2, <1>3, PTL DEF InfoSpec

-----------------------------------------------------------------------------
(***************************************************************************)
(* The parts next to each other, as they are run: each is as it is alone.  *)
(***************************************************************************)

LEMMA PartsStart ==
  PartInit => /\ Init /\ WalkInit /\ PasswordInit /\ SyncInit
              /\ LineInit /\ InfoInit /\ ResponseInit
  BY DEF PartInit

LEMMA PartsStep ==
  [PartNext]_parts => /\ [Next]_vars /\ [WalkNext]_walkVars /\ [PasswordNext]_passwordVars
                      /\ [SyncNext]_syncVars /\ [LineNext]_lineVars /\ [InfoNext]_infoVars
                      /\ [ResponseNext]_typed
  <1> SUFFICES ASSUME [PartNext]_parts
               PROVE  /\ [Next]_vars /\ [WalkNext]_walkVars /\ [PasswordNext]_passwordVars
                      /\ [SyncNext]_syncVars /\ [LineNext]_lineVars /\ [InfoNext]_infoVars
                      /\ [ResponseNext]_typed
    OBVIOUS
  <1>1. CASE UNCHANGED parts
    BY <1>1 DEF parts
  <1>2. CASE PartNext
    BY <1>2 DEF PartNext
  <1> QED BY <1>1, <1>2

\* Every behaviour of the run is one of each part, so that the theorems about the
\* readers hold of what is run: none of them reads or writes another's state.
THEOREM PartsAreAlone ==
  PartSpec => Spec /\ WalkSpec /\ PasswordSpec /\ SyncSpec /\ LineSpec /\ InfoSpec /\ ResponseSpec
  BY PartsStart, PartsStep, PTL
     DEF PartSpec, Spec, WalkSpec, PasswordSpec, SyncSpec, LineSpec, InfoSpec, ResponseSpec

\* The types of the parts (mount_list.rs, vault_list.rs, password.rs, sync.rs),
\* for any constants.
THEOREM PartsTypes == PartSpec => []PartsTypeOK
  <1>1. TypeOK /\ WalkTypeOK /\ PasswordTypeOK /\ SyncTypeOK => PartsTypeOK
    BY DEF PartsTypeOK
  <1>2. Spec => []TypeOK
    BY ListTypes, PTL
  <1> QED BY <1>1, <1>2, PartsAreAlone, WalkTypes, PasswordTypes, SyncTypes, PTL
=============================================================================
