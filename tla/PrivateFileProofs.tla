-------------------------- MODULE PrivateFileProofs --------------------------
(***************************************************************************)
(* Theorems about PrivateFile, for any set of calls and any set of names.  *)
(*                                                                         *)
(* The safety properties follow from Inv, which adds to them what keeps    *)
(* them true: who owns a temporary name (Owner), what a call has already   *)
(* secured when it comes to the rename (Secured), that a call which has    *)
(* not renamed is not at the path (Unpublished), and that the directory on *)
(* disk is never ahead of the visible one (Order).                         *)
(***************************************************************************)
EXTENDS PrivateFile, TLAPS

Before == {"draw", "create", "write", "sync", "mode", "rename", "remove"}

Owner ==
  /\ \A c, d \in Calls : name[c] # None /\ name[c] = name[d] => c = d
  /\ \A c \in Calls : pc[c] = "draw" => name[c] = None
  /\ \A c \in Calls : pc[c] \in Running \ {"draw"} => name[c] # None
  /\ \A n \in Names : dir.temp[n] # None =>
       dir.temp[n] \in Calls /\ name[dir.temp[n]] = n
  /\ \A n \in Names : ddir.temp[n] # None =>
       ddir.temp[n] \in Calls /\ name[ddir.temp[n]] = n
  /\ \A c \in Calls : pc[c] \in {"write", "sync", "mode", "rename"} =>
       dir.temp[name[c]] = c

Secured ==
  \A c \in Calls :
    /\ pc[c] = "sync" => data[c] = "full"
    /\ pc[c] \in {"mode", "rename"} => data[c] = "full" /\ disk[c] = "full"
    /\ pc[c] = "rename" => private[c]

Unpublished ==
  \A c \in Calls : pc[c] \in Before \cup {"err", "errLeft"} =>
    c # dir.target /\ c # ddir.target

Whole ==
  /\ dir.target # None => data[dir.target] = "full" /\ disk[dir.target] = "full"
  /\ ddir.target # None => data[ddir.target] = "full" /\ disk[ddir.target] = "full"

Order ==
  /\ \A i \in Inodes : pubAt[i] <= clock
  /\ ddir.target # None =>
       dir.target # None /\ pubAt[dir.target] >= pubAt[ddir.target]
  /\ \A c \in Calls : pc[c] = "syncdir" =>
       dir.target # None /\ pubAt[dir.target] >= pubAt[c]

Inv ==
  /\ TypeOK
  /\ Owner
  /\ Secured
  /\ Unpublished
  /\ Whole
  /\ PublishedOwnerOnly
  /\ Order
  /\ OkSurvivesPowerLoss

USE DEF Goto

LEMMA InitInv == Init => Inv
  <1> SUFFICES ASSUME Init PROVE Inv
    OBVIOUS
  <1> USE PrivateFileAssumption DEF Init, Inodes
  <1>1. TypeOK
    BY DEF TypeOK, Directory, Running, Ended, Amount
  <1>2. Owner
    BY DEF Owner, Running
  <1>3. Secured /\ Unpublished /\ Whole /\ PublishedOwnerOnly
    BY DEF Secured, Unpublished, Whole, PublishedOwnerOnly, Before
  <1>4. Order /\ OkSurvivesPowerLoss
    BY DEF Order, OkSurvivesPowerLoss
  <1> QED
    BY <1>1, <1>2, <1>3, <1>4 DEF Inv

LEMMA TypeStep == TypeOK /\ Owner /\ [Next]_vars => TypeOK'
  <1> SUFFICES ASSUME TypeOK, Owner, [Next]_vars PROVE TypeOK'
    OBVIOUS
  <1> USE PrivateFileAssumption DEF TypeOK, Directory, Running, Ended, Amount, Inodes
  <1>1. ASSUME NEW c \in Calls, DrawName(c) PROVE TypeOK'
    BY <1>1 DEF DrawName
  <1>2. ASSUME NEW c \in Calls, CreateTemp(c) PROVE TypeOK'
    BY <1>2 DEF CreateTemp
  <1>3. ASSUME NEW c \in Calls, WriteSome(c) \/ WriteRest(c) PROVE TypeOK'
    BY <1>3 DEF WriteSome, WriteRest
  <1>4. ASSUME NEW c \in Calls, SyncTemp(c) \/ CheckMode(c) PROVE TypeOK'
    BY <1>4 DEF SyncTemp, CheckMode
  <1>5. ASSUME NEW c \in Calls, Rename(c) PROVE TypeOK'
    <2>1. name[c] \in Names
      BY <1>5 DEF Rename, Owner
    <2> QED
      BY <1>5, <2>1 DEF Rename
  <1>6. ASSUME NEW c \in Calls, StepFails(c) \/ RemoveTemp(c) \/ RemoveFails(c) PROVE TypeOK'
    BY <1>6 DEF StepFails, RemoveTemp, RemoveFails
  <1>7. ASSUME NEW c \in Calls, SyncDir(c) \/ SyncDirFails(c) \/ Kill(c) PROVE TypeOK'
    BY <1>7 DEF SyncDir, SyncDirFails, Kill
  <1>8. ASSUME NEW i \in Inodes, FlushData(i) PROVE TypeOK'
    BY <1>8 DEF FlushData
  <1>9. CASE FlushDir \/ PowerLoss
    BY <1>9 DEF FlushDir, PowerLoss
  <1>10. CASE UNCHANGED vars
    BY <1>10 DEF vars
  <1> QED
    BY <1>1, <1>2, <1>3, <1>4, <1>5, <1>6, <1>7, <1>8, <1>9, <1>10 DEF Next, CallStep

\* Who holds which temporary name.
LEMMA OwnerStep == TypeOK /\ Owner /\ [Next]_vars => Owner'
  <1> SUFFICES ASSUME TypeOK, Owner, [Next]_vars PROVE Owner'
    OBVIOUS
  <1> USE PrivateFileAssumption DEF TypeOK, Directory, Running, Inodes, Owner
  <1>1. ASSUME NEW c \in Calls, DrawName(c) PROVE Owner'
    BY <1>1 DEF DrawName, Unused
  <1>2. ASSUME NEW c \in Calls, CreateTemp(c) PROVE Owner'
    BY <1>2 DEF CreateTemp
  <1>3. ASSUME NEW c \in Calls, WriteSome(c) \/ WriteRest(c) PROVE Owner'
    BY <1>3 DEF WriteSome, WriteRest
  <1>4. ASSUME NEW c \in Calls, SyncTemp(c) \/ CheckMode(c) PROVE Owner'
    BY <1>4 DEF SyncTemp, CheckMode
  <1>5. ASSUME NEW c \in Calls, Rename(c) PROVE Owner'
    BY <1>5 DEF Rename
  <1>6. ASSUME NEW c \in Calls, StepFails(c) \/ RemoveTemp(c) \/ RemoveFails(c) PROVE Owner'
    BY <1>6 DEF StepFails, RemoveTemp, RemoveFails
  <1>7. ASSUME NEW c \in Calls, SyncDir(c) \/ SyncDirFails(c) \/ Kill(c) PROVE Owner'
    BY <1>7 DEF SyncDir, SyncDirFails, Kill
  <1>8. ASSUME NEW i \in Inodes, FlushData(i) PROVE Owner'
    BY <1>8 DEF FlushData
  <1>9. CASE FlushDir
    BY <1>9 DEF FlushDir
  <1>10. CASE PowerLoss
    BY <1>10 DEF PowerLoss
  <1>11. CASE UNCHANGED vars
    BY <1>11 DEF vars
  <1> QED
    BY <1>1, <1>2, <1>3, <1>4, <1>5, <1>6, <1>7, <1>8, <1>9, <1>10, <1>11 DEF Next, CallStep

Contents == Secured /\ Unpublished /\ Whole /\ PublishedOwnerOnly

\* A call secures its bytes and its mode before it publishes, and only then.
LEMMA ContentsStep == TypeOK /\ Owner /\ Contents /\ [Next]_vars => Contents'
  <1> SUFFICES ASSUME TypeOK, Owner, Contents, [Next]_vars PROVE Contents'
    OBVIOUS
  <1> USE PrivateFileAssumption
      DEF TypeOK, Directory, Running, Inodes, Owner, Before,
          Contents, Secured, Unpublished, Whole, PublishedOwnerOnly
  <1>1. ASSUME NEW c \in Calls, DrawName(c) PROVE Contents'
    BY <1>1 DEF DrawName
  <1>2. ASSUME NEW c \in Calls, CreateTemp(c) PROVE Contents'
    BY <1>2 DEF CreateTemp
  <1>3. ASSUME NEW c \in Calls, WriteSome(c) \/ WriteRest(c) PROVE Contents'
    BY <1>3 DEF WriteSome, WriteRest
  <1>4. ASSUME NEW c \in Calls, SyncTemp(c) \/ CheckMode(c) PROVE Contents'
    BY <1>4 DEF SyncTemp, CheckMode
  <1>5. ASSUME NEW c \in Calls, Rename(c) PROVE Contents'
    <2>1. dir.temp[name[c]] = c /\ dir'.target = c
      BY <1>5 DEF Rename
    <2> QED
      BY <1>5, <2>1 DEF Rename
  <1>6. ASSUME NEW c \in Calls, StepFails(c) \/ RemoveTemp(c) \/ RemoveFails(c) PROVE Contents'
    BY <1>6 DEF StepFails, RemoveTemp, RemoveFails
  <1>7. ASSUME NEW c \in Calls, SyncDir(c) \/ SyncDirFails(c) \/ Kill(c) PROVE Contents'
    BY <1>7 DEF SyncDir, SyncDirFails, Kill
  <1>8. ASSUME NEW i \in Inodes, FlushData(i) PROVE Contents'
    BY <1>8 DEF FlushData
  <1>9. CASE FlushDir
    BY <1>9 DEF FlushDir
  <1>10. CASE PowerLoss
    BY <1>10 DEF PowerLoss
  <1>11. CASE UNCHANGED vars
    BY <1>11 DEF vars
  <1> QED
    BY <1>1, <1>2, <1>3, <1>4, <1>5, <1>6, <1>7, <1>8, <1>9, <1>10, <1>11 DEF Next, CallStep

Durable == Order /\ OkSurvivesPowerLoss

\* The directory on disk trails the visible one; a call that ended well trails both.
LEMMA DurableStep ==
  TypeOK /\ Owner /\ Unpublished /\ Durable /\ [Next]_vars => Durable'
  <1> SUFFICES ASSUME TypeOK, Owner, Unpublished, Durable, [Next]_vars PROVE Durable'
    OBVIOUS
  <1> USE PrivateFileAssumption
      DEF TypeOK, Directory, Running, Inodes, Owner, Before, Unpublished,
          Durable, Order, OkSurvivesPowerLoss
  <1>1. ASSUME NEW c \in Calls, DrawName(c) PROVE Durable'
    BY <1>1 DEF DrawName
  <1>2. ASSUME NEW c \in Calls, CreateTemp(c) PROVE Durable'
    BY <1>2 DEF CreateTemp
  <1>3. ASSUME NEW c \in Calls, WriteSome(c) \/ WriteRest(c) PROVE Durable'
    BY <1>3 DEF WriteSome, WriteRest
  <1>4. ASSUME NEW c \in Calls, SyncTemp(c) \/ CheckMode(c) PROVE Durable'
    BY <1>4 DEF SyncTemp, CheckMode
  <1>5. ASSUME NEW c \in Calls, Rename(c) PROVE Durable'
    <2>1. dir'.target = c /\ pubAt'[c] = clock + 1 /\ clock' = clock + 1
      BY <1>5 DEF Rename
    <2>2. Order'
      BY <1>5, <2>1 DEF Rename
    <2>3. OkSurvivesPowerLoss'
      BY <1>5, <2>1 DEF Rename
    <2> QED
      BY <2>2, <2>3
  <1>6. ASSUME NEW c \in Calls, StepFails(c) \/ RemoveTemp(c) \/ RemoveFails(c) PROVE Durable'
    BY <1>6 DEF StepFails, RemoveTemp, RemoveFails
  <1>7. ASSUME NEW c \in Calls, SyncDir(c) \/ SyncDirFails(c) \/ Kill(c) PROVE Durable'
    BY <1>7 DEF SyncDir, SyncDirFails, Kill
  <1>8. ASSUME NEW i \in Inodes, FlushData(i) PROVE Durable'
    BY <1>8 DEF FlushData
  <1>9. CASE FlushDir
    BY <1>9 DEF FlushDir
  <1>10. CASE PowerLoss
    BY <1>10 DEF PowerLoss
  <1>11. CASE UNCHANGED vars
    BY <1>11 DEF vars
  <1> QED
    BY <1>1, <1>2, <1>3, <1>4, <1>5, <1>6, <1>7, <1>8, <1>9, <1>10, <1>11 DEF Next, CallStep

LEMMA InvStep == Inv /\ [Next]_vars => Inv'
  BY TypeStep, OwnerStep, ContentsStep, DurableStep DEF Inv, Contents, Durable

LEMMA Invariance == Spec => []Inv
  BY InitInv, InvStep, PTL DEF Spec

(***************************************************************************)
(* The theorems.                                                           *)
(***************************************************************************)
\* Whatever fails and whenever power is lost, every call of write_private_file
\* is at one of its steps or has ended in one of its declared outcomes, and the
\* path and the temporary names hold nothing but files of the calls.
THEOREM TypeCorrect == Spec => []TypeOK
  <1>1. Inv => TypeOK
    BY DEF Inv
  <1> QED
    BY <1>1, Invariance, PTL

\* The file at the path is never empty or cut short, now or after a power loss.
THEOREM TargetAlwaysComplete == Spec => []TargetComplete
  <1>1. Inv => TargetComplete
    BY DEF Inv, Whole, TargetComplete
  <1> QED
    BY <1>1, Invariance, PTL

\* Secret bytes are never at the path in a file that others can read.
THEOREM OwnerOnlyAlways == Spec => []PublishedOwnerOnly
  <1>1. Inv => PublishedOwnerOnly
    BY DEF Inv
  <1> QED
    BY <1>1, Invariance, PTL

\* Success without the warning about the directory means durable.
THEOREM OkIsDurable == Spec => []OkSurvivesPowerLoss
  <1>1. Inv => OkSurvivesPowerLoss
    BY DEF Inv
  <1> QED
    BY <1>1, Invariance, PTL

\* A call that fails is not at the path and leaves no temporary file.
THEOREM ErrorsLeaveNothing == Spec => ErrLeavesNothing
  <1>1. Inv /\ [Next]_vars =>
          [\A c \in Calls : pc[c] \in Running /\ pc'[c] = "err" =>
             dir'.target # c /\ \A n \in Names : dir'.temp[n] # c]_vars
    <2> SUFFICES ASSUME Inv, Next, NEW c \in Calls, pc[c] \in Running, pc'[c] = "err"
                 PROVE  dir'.target # c /\ \A n \in Names : dir'.temp[n] # c
      OBVIOUS
    <2> USE PrivateFileAssumption
        DEF Inv, TypeOK, Directory, Inodes, Running, Owner, Unpublished, Before
    <2>1. DrawName(c) \/ RemoveTemp(c)
      <3>1. ASSUME NEW d \in Calls, CallStep(d) \/ Kill(d) PROVE DrawName(c) \/ RemoveTemp(c)
        BY <3>1 DEF CallStep, Kill, DrawName, CreateTemp, WriteSome, WriteRest, SyncTemp,
             CheckMode, Rename, StepFails, RemoveTemp, RemoveFails, SyncDir, SyncDirFails
      <3>2. ASSUME NEW i \in Inodes, FlushData(i) PROVE FALSE
        BY <3>2 DEF FlushData
      <3>3. ~FlushDir /\ ~PowerLoss
        BY DEF FlushDir, PowerLoss
      <3> QED
        BY <3>1, <3>2, <3>3 DEF Next
    <2>2. CASE DrawName(c)
      BY <2>2 DEF DrawName
    <2>3. CASE RemoveTemp(c)
      BY <2>3 DEF RemoveTemp
    <2> QED
      BY <2>1, <2>2, <2>3
  <1> QED
    BY <1>1, Invariance, PTL DEF Spec, ErrLeavesNothing

\* No step of another call removes or replaces a running call's temporary file.
THEOREM TempsAreOwn == Spec => OwnTempOnly
  <1>1. Inv /\ [Next]_vars =>
          [\A c \in Calls : pc[c] \in Running /\ pc'[c] = pc[c] =>
             \A n \in Names : dir.temp[n] = c => dir'.temp[n] = c]_vars
    <2> SUFFICES ASSUME Inv, Next, NEW c \in Calls, pc[c] \in Running, pc'[c] = pc[c],
                        NEW n \in Names, dir.temp[n] = c
                 PROVE  dir'.temp[n] = c
      OBVIOUS
    <2> USE PrivateFileAssumption
        DEF Inv, TypeOK, Directory, Inodes, Running, Owner
    <2>1. ASSUME NEW d \in Calls, CallStep(d) \/ Kill(d) PROVE dir'.temp[n] = c
      <3>1. CASE DrawName(d) \/ WriteSome(d) \/ WriteRest(d) \/ SyncTemp(d) \/ CheckMode(d)
                 \/ StepFails(d) \/ RemoveFails(d) \/ SyncDir(d) \/ SyncDirFails(d) \/ Kill(d)
        BY <3>1 DEF DrawName, WriteSome, WriteRest, SyncTemp, CheckMode, StepFails,
             RemoveFails, SyncDir, SyncDirFails, Kill
      <3>2. CASE CreateTemp(d)
        BY <3>2 DEF CreateTemp
      <3>3. CASE Rename(d)
        BY <3>3 DEF Rename
      <3>4. CASE RemoveTemp(d)
        BY <3>4 DEF RemoveTemp
      <3> QED
        BY <2>1, <3>1, <3>2, <3>3, <3>4 DEF CallStep
    <2>2. ASSUME NEW i \in Inodes, FlushData(i) PROVE dir'.temp[n] = c
      BY <2>2 DEF FlushData
    <2>3. CASE FlushDir
      BY <2>3 DEF FlushDir
    <2>4. ~PowerLoss
      BY DEF PowerLoss
    <2> QED
      BY <2>1, <2>2, <2>3, <2>4 DEF Next
  <1> QED
    BY <1>1, Invariance, PTL DEF Spec, OwnTempOnly

(***************************************************************************)
(* Refinement.                                                             *)
(***************************************************************************)
Outcome == [c \in Calls |-> ResultOf(pc[c])]

LEMMA ShownWhole ==
  Whole => Shown(dir.target, data) = dir.target /\ Shown(ddir.target, disk) = ddir.target
  BY DEF Whole, Shown

LEMMA RefinesInit == Init => Atomic!Init
  <1> SUFFICES ASSUME Init PROVE Atomic!Init
    OBVIOUS
  <1>1. Whole
    BY InitInv DEF Inv
  <1>2. Outcome = [c \in Calls |-> "running"]
    BY DEF Init, Outcome, ResultOf, Running
  <1> QED
    BY <1>1, <1>2, ShownWhole DEF Init, Atomic!Init, Outcome

\* Each system call is a step of the replaced file or none.
LEMMA RefinesStep == Inv /\ Inv' /\ [Next]_vars => [Atomic!Next]_(Atomic!avars)
  <1> SUFFICES ASSUME Inv, Inv', [Next]_vars PROVE [Atomic!Next]_(Atomic!avars)
    OBVIOUS
  <1>1. /\ Shown(dir.target, data) = dir.target
        /\ Shown(ddir.target, disk) = ddir.target
        /\ Shown(dir.target, data)' = dir'.target
        /\ Shown(ddir.target, disk)' = ddir'.target
    <2>1. Whole /\ Whole'
      BY DEF Inv
    <2> QED
      BY <2>1, ShownWhole DEF Shown, Whole
  <1> USE PrivateFileAssumption DEF TypeOK, Directory, Running, Ended, Inodes, ResultOf
  <1>2. TypeOK /\ TypeOK' /\ Owner /\ Unpublished
    BY DEF Inv
  <1>3. ASSUME NEW c \in Calls, DrawName(c) PROVE [Atomic!Next]_(Atomic!avars)
    <2>1. CASE pc'[c] = "err"
      <3>1. Atomic!ReturnErr(c)
        <4>1. /\ pc[c] = "draw" /\ pc' = [pc EXCEPT ![c] = "err"]
              /\ dir'.target = dir.target /\ ddir'.target = ddir.target
          BY <1>2, <1>3, <2>1 DEF DrawName
        <4> QED
          BY <1>1, <1>2, <4>1 DEF Atomic!ReturnErr
      <3> QED
        BY <3>1 DEF Atomic!Next
    <2>2. CASE pc'[c] = "create"
      BY <1>1, <1>2, <1>3, <2>2 DEF DrawName, Atomic!avars
    <2> QED
      BY <1>2, <1>3, <2>1, <2>2 DEF DrawName
  <1>4. ASSUME NEW c \in Calls,
               \/ CreateTemp(c) \/ WriteSome(c) \/ WriteRest(c) \/ SyncTemp(c)
               \/ CheckMode(c) \/ StepFails(c)
        PROVE  [Atomic!Next]_(Atomic!avars)
    BY <1>1, <1>2, <1>4
       DEF CreateTemp, WriteSome, WriteRest, SyncTemp, CheckMode, StepFails, Atomic!avars
  <1>5. ASSUME NEW c \in Calls, Rename(c) PROVE [Atomic!Next]_(Atomic!avars)
    <2>1. dir'.target = c
      BY <1>2, <1>5 DEF Rename, Owner
    <2>2. Atomic!Publish(c)
      BY <1>1, <1>2, <1>5, <2>1 DEF Rename, Atomic!Publish
    <2> QED
      BY <2>2 DEF Atomic!Next
  <1>6. ASSUME NEW c \in Calls, RemoveTemp(c) \/ RemoveFails(c)
        PROVE  [Atomic!Next]_(Atomic!avars)
    <2>1. Atomic!ReturnErr(c)
      <3>1. /\ pc[c] = "remove"
            /\ pc' = [pc EXCEPT ![c] = "err"] \/ pc' = [pc EXCEPT ![c] = "errLeft"]
            /\ dir'.target = dir.target /\ ddir'.target = ddir.target
        BY <1>2, <1>6 DEF RemoveTemp, RemoveFails
      <3>2. CASE pc' = [pc EXCEPT ![c] = "err"]
        BY <1>1, <1>2, <3>1, <3>2 DEF Atomic!ReturnErr
      <3>3. CASE pc' = [pc EXCEPT ![c] = "errLeft"]
        BY <1>1, <1>2, <3>1, <3>3 DEF Atomic!ReturnErr
      <3> QED
        BY <3>1, <3>2, <3>3
    <2> QED
      BY <2>1 DEF Atomic!Next
  <1>7. ASSUME NEW c \in Calls, SyncDir(c) PROVE [Atomic!Next]_(Atomic!avars)
    <2>1. Atomic!ReturnOk(c)
      BY <1>1, <1>2, <1>7 DEF SyncDir, Atomic!ReturnOk
    <2> QED
      BY <2>1 DEF Atomic!Next
  <1>8. ASSUME NEW c \in Calls, SyncDirFails(c) PROVE [Atomic!Next]_(Atomic!avars)
    <2>1. Atomic!ReturnWarned(c)
      BY <1>1, <1>2, <1>8 DEF SyncDirFails, Atomic!ReturnWarned
    <2> QED
      BY <2>1 DEF Atomic!Next
  <1>9. ASSUME NEW c \in Calls, Kill(c) PROVE [Atomic!Next]_(Atomic!avars)
    <2>1. Atomic!Die(c)
      BY <1>1, <1>2, <1>9 DEF Kill, Atomic!Die, Atomic!Live
    <2> QED
      BY <2>1 DEF Atomic!Next
  <1>10. ASSUME NEW i \in Inodes, FlushData(i) PROVE [Atomic!Next]_(Atomic!avars)
    BY <1>1, <1>2, <1>10 DEF FlushData, Atomic!avars
  <1>11. CASE FlushDir
    <2>1. Atomic!Persist
      BY <1>1, <1>2, <1>11 DEF FlushDir, Atomic!Persist
    <2> QED
      BY <2>1 DEF Atomic!Next
  <1>12. CASE PowerLoss
    <2>1. Atomic!PowerLoss
      BY <1>1, <1>2, <1>12 DEF PowerLoss, Atomic!PowerLoss, Atomic!Live
    <2> QED
      BY <2>1 DEF Atomic!Next
  <1>13. CASE UNCHANGED vars
    BY <1>1, <1>2, <1>13 DEF vars, Atomic!avars
  <1> QED
    BY <1>3, <1>4, <1>5, <1>6, <1>7, <1>8, <1>9, <1>10, <1>11, <1>12, <1>13
       DEF Next, CallStep

\* write_private_file implements an atomically replaced file: every behaviour of
\* its system calls, failures and crashes included, is a behaviour of AtomicFile.
THEOREM ImplementsAtomicFile == Spec => AtomicSpec
  BY RefinesInit, RefinesStep, Invariance, PTL DEF Spec, AtomicSpec, Atomic!Spec
=============================================================================
