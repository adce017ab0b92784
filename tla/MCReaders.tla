----------------------------- MODULE MCReaders -----------------------------
(***************************************************************************)
(* One run for the parts that have nothing to do with each other: each     *)
(* behaviour is of one of them, and the others stay as they are.           *)
(***************************************************************************)
EXTENDS MountList, VaultList, PasswordFile, SyncConfig, CommandLine, MountInfo, HardwareResponse

VARIABLE part

parts == <<vars, walkVars, passwordVars, syncVars, lineVars, infoVars, typed, part>>

(* MountList: two processes, a point under the home directory and one not. *)
CONSTANTS home, away, other
MCProc == {1, 2}
MCPoint == {home, away}
MCHome == {home}
MCAlien == {other}
Fuse(p, spelled, mine) ==
  [kind |-> "fuse", at |-> p, share |-> FALSE, spelled |-> spelled, mine |-> mine]
Rank(a) == IF a.kind = "webdav" THEN 4 ELSE IF ~a.mine THEN 3 ELSE IF a.spelled = "odd" THEN 2 ELSE 1
MCArgs == {Fuse(home, "relative", TRUE), Fuse(away, "odd", TRUE), Fuse(home, "canonical", FALSE),
           [Fuse(home, "canonical", TRUE) EXCEPT !.kind = "webdav"]}
\* The listing treats two processes alike but for their order.
MCPairs == {a \in [MCProc -> MCArgs] : Rank(a[1]) <= Rank(a[2])}

(* VaultList: a root with two children and two grandchildren. *)
MCPath == {<<>>, <<1>>, <<2>>, <<1, 1>>, <<1, 2>>}
NodeOf(kind, dev, config_) == [kind |-> kind, dev |-> dev, config |-> config_]
Absent == NodeOf("none", 1, "none")
Empty == NodeOf("dir", 1, "none")
Vault == NodeOf("dir", 1, "good")
MCNodes == {Absent, Empty, Vault, NodeOf("dir", 1, "bad"), NodeOf("dir", 1, "fifo"), NodeOf("dir", 1, "link"),
            NodeOf("dir", 2, "good"), NodeOf("link", 1, "good"), NodeOf("link", 1, "none")}
Tree(n1, n2, n11, n12) ==
  <<>> :> Empty @@ <<1>> :> n1 @@ <<2>> :> n2 @@ <<1, 1>> :> n11 @@ <<1, 2>> :> n12
MCTrees ==
  {Tree(n1, n2, n11, n12) :
     n1 \in {Empty, Vault, NodeOf("dir", 1, "fifo"), NodeOf("dir", 1, "link"), NodeOf("dir", 2, "none"),
             NodeOf("link", 1, "none")},
     n2 \in {Absent, Vault, NodeOf("dir", 1, "bad")},
     n11 \in {Vault, NodeOf("link", 1, "good")},
     n12 \in {Absent, Vault}}
MCRootLists == {<< <<>> >>, << <<1>>, <<>> >>}

(* PasswordFile. *)
CONSTANTS f1, f2, pipe, dir
MCInode == {f1, f2, pipe, dir}
MCKindOf == f1 :> "file" @@ f2 :> "file" @@ pipe :> "pipe" @@ dir :> "dir"
MCTexts == {<<LF>>, <<"other">>, <<"other", LF>>, <<"other", CR, LF>>, <<"other", LF, LF>>}

(* SyncConfig. *)
MCAsks == {[mode |-> "manual", interval |-> "none"], [mode |-> "periodic", interval |-> "some"],
           [mode |-> "hybrid", interval |-> "zero"]}

(* MountInfo: names that hold or imitate escapes. *)
MCNameByte == {SPACE, BACKSLASH, DASH, PLUS, ZERO, ZERO + 4}
MCOptional == {<<>>, << <<115, 58, 49>> >>, << <<115>>, <<109>> >>}
MCFsType == {<<102, 117, 115, 101>>, <<102, 117, 115, 101, 46, 97>>, <<102, 117, 115, 101, 99>>}

-----------------------------------------------------------------------------

\* A part that is not looked at: one initial state of it.
MountListRests == os = "linux" /\ arg = [p \in MCProc |-> Fuse(home, "relative", TRUE)]
VaultListRests == tree = Tree(Empty, Absent, Vault, Absent) /\ roots = << <<>> >>
PasswordFileRests ==
  linked = Missing /\ private = [i \in File |-> FALSE] /\ text = [i \in File |-> <<LF>>]
SyncConfigRests == asked = [r \in Run |-> [mode |-> "manual", interval |-> "none"]]
MountInfoRests == optional = <<>> /\ fstype = <<102, 117, 115, 101, 99>>

PartInit ==
  /\ part \in {"mount list", "vault list", "password", "sync", "line", "info", "response"}
  /\ IF part = "mount list" THEN arg \in MCPairs ELSE MountListRests
  /\ Init
  /\ (part # "vault list" => VaultListRests) /\ WalkInit
  /\ (part # "password" => PasswordFileRests) /\ PasswordInit
  /\ (part # "sync" => SyncConfigRests) /\ SyncInit
  /\ (part # "info" => MountInfoRests) /\ InfoInit
  /\ LineInit /\ ResponseInit

PartNext ==
  \/ /\ part = "mount list" /\ Next
     /\ UNCHANGED <<walkVars, passwordVars, syncVars, lineVars, infoVars, typed, part>>
  \/ /\ part = "vault list" /\ WalkNext
     /\ UNCHANGED <<vars, passwordVars, syncVars, lineVars, infoVars, typed, part>>
  \/ /\ part = "password" /\ PasswordNext
     /\ UNCHANGED <<vars, walkVars, syncVars, lineVars, infoVars, typed, part>>
  \/ /\ part = "sync" /\ SyncNext
     /\ UNCHANGED <<vars, walkVars, passwordVars, lineVars, infoVars, typed, part>>
  \/ /\ part = "line" /\ LineNext
     /\ UNCHANGED <<vars, walkVars, passwordVars, syncVars, infoVars, typed, part>>
  \/ /\ part = "info" /\ InfoNext
     /\ UNCHANGED <<vars, walkVars, passwordVars, syncVars, lineVars, typed, part>>
  \/ /\ part = "response" /\ ResponseNext
     /\ UNCHANGED <<vars, walkVars, passwordVars, syncVars, lineVars, infoVars, part>>

\* The types of the parts (mount_list.rs, vault_list.rs, password.rs, sync.rs).
PartsTypeOK == TypeOK /\ WalkTypeOK /\ PasswordTypeOK /\ SyncTypeOK

PartSpec == PartInit /\ [][PartNext]_parts
=============================================================================
