-------------------------- MODULE VaultAccessProofs --------------------------
(***************************************************************************)
(* Proofs about VaultAccess, for any number of commands, vaults, passwords *)
(* and hardware keys, and for a save_config of either kind.                *)
(*                                                                         *)
(* The invariant Inv says of every command which of its places goes with   *)
(* which command (Routed), what it made and where the key went (Made),     *)
(* what it prints (Printed), what it holds of a configuration (Held) and   *)
(* what it knows to fit (Fits).  A step of one command leaves these facts  *)
(* of the others alone as long as no stored recovery key changes: that is  *)
(* the lemma Others, and the reason Held compares the two keys.  That a    *)
(* reported change stays needs Kept on top: a session about to be saved    *)
(* has every change its command was told of, or that was undone.           *)
(***************************************************************************)
EXTENDS VaultAccess, TLAPS

Routed(p) ==
  LET c == job[p].cmd
  IN  /\ pc[p] = "prompt" => c \in Creates \cup Changes
      /\ pc[p] = "tokens" => c \in Remote
      /\ pc[p] = "open" => c \in Uses \cup {"showKey", "change", "enroll", "remove"}
      /\ pc[p] = "words" => c = "reset"
      /\ pc[p] = "save" => c \in Changes
      /\ pc[p] = "respond" => c \in Responds
      /\ pc[p] \in {"make", "recheck", "publish", "failedMade"} => c \in Creates
      /\ pc[p] = "show" => c \in Creates \cup {"showKey"}
      /\ pc[p] = "idle" => ~job[p].toFile
      /\ job[p].toFile => c = "create"

\* What p made, where its key went, and that it found the path free.
Made(p) ==
  LET creates == job[p].cmd \in Creates
  IN  /\ p \in made => /\ pc[p] \in {"recheck", "publish", "show", "ok", "failedMade", "killed"}
                       /\ creates
                       /\ vault[job[p].loc] # None /\ vault[job[p].loc].rec = p
      /\ pc[p] \in {"recheck", "publish", "failedMade"} => p \in made /\ p \notin written
      /\ pc[p] \in {"recheck", "publish"} => job[p].toFile
      /\ pc[p] \in {"show", "ok"} /\ creates => p \in made
      /\ p \in written => p \in made /\ pc[p] = "ok"
      /\ pc[p] = "ok" /\ creates => IF job[p].toFile THEN p \in written ELSE <<p, p>> \in shown
      /\ pc[p] = "idle" => p \notin taken
      /\ job[p].toFile /\ (pc[p] \in {"prompt", "make"} \/ p \in made) => p \notin taken

\* What p prints, and printed.
Printed(p) ==
  /\ job[p].cmd \in Creates /\ pc[p] \in {"prompt", "tokens", "make"} =>
       job[p].toFile \/ p \in Terminals
  /\ job[p].cmd = "showKey" /\ pc[p] = "open" => p \in Terminals
  /\ pc[p] = "show" => p \in Terminals /\ ~job[p].toFile
  /\ \A k \in Key : <<p, k>> \in shown =>
       /\ p \in Terminals /\ ~job[p].toFile /\ pc[p] = "ok"
       /\ vault[job[p].loc] # None /\ vault[job[p].loc].rec = k

\* What p holds of a configuration, and what it makes of it.
Held(p) ==
  LET j == job[p]
  IN  /\ pc[p] \in {"save", "show"} => /\ j.conf \in Config
                                       /\ vault[j.loc] # None
                                       /\ j.conf.rec = vault[j.loc].rec
      /\ pc[p] = "show" /\ j.cmd \in Creates => j.conf.rec = p
      /\ pc[p] = "respond" => j.conf \in Config /\ Fitting(j.conf) \subseteq valid[p]
      /\ pc[p] \in {"make", "words"} => j.new \in Password
      /\ pc[p] = "tokens" /\ j.cmd \in Creates => j.new \in Password
      /\ pc[p] \in {"open", "save"} /\ SetsPassword(p) => j.new \in Password
      /\ pc[p] \in {"open", "save"} /\ j.cmd = "enroll" => j.new \in Secret
      /\ pc[p] \in {"open", "save"} /\ j.cmd = "remove" => j.new = None
      /\ pc[p] = "save" =>
           /\ j.read \in Config
           /\ j.conf = IF SetsPassword(p) THEN [j.read EXCEPT !.pw = j.new]
                       ELSE [j.read EXCEPT !.hw = j.new]

\* What p was told fits, or did.
Fits(p) ==
  /\ pc[p] # "idle" => Fitting(vault[job[p].loc]) \subseteq valid[p]
  /\ pc[p] \in {"save", "show", "ok"} /\ job[p].cmd \notin Creates =>
       job[p].cred \in valid[p] \ {None}

Well(p) == Routed(p) /\ Made(p) /\ Printed(p) /\ Held(p) /\ Fits(p)

\* A command that is about to publish saw a path that was free then.
Seen(p) == pc[p] = "publish" /\ out # None => p \in blind

Inv == TypeOK /\ \A p \in Proc : Well(p) /\ Seen(p)

-----------------------------------------------------------------------------
LEMMA InitInv == Init => Inv
<1> SUFFICES ASSUME Init PROVE Inv
  OBVIOUS
<1> USE VaultAssumption DEF Init
<1>1. TypeOK
  BY DEF TypeOK, Config, Job, Place, Ended, Command
<1>2. ASSUME NEW p \in Proc PROVE Well(p) /\ Seen(p)
  BY DEF Well, Routed, Made, Printed, Held, SetsPassword, Fits, Seen, Creates, Remote, Changes
<1> QED
  BY <1>1, <1>2 DEF Inv

-----------------------------------------------------------------------------
(* Types. *)

LEMMA FittingType ==
  ASSUME NEW v \in Config \cup {None}
  PROVE  Fitting(v) \subseteq Credential \cup {None}
BY DEF Fitting, Config, Credential, Key

LEMMA BeginType ==
  ASSUME TypeOK, NEW p \in Proc, NEW l \in Location, NEW cmd \in Command,
         NEW toFile \in BOOLEAN, NEW place \in Place \ {"save", "respond"},
         Begin(p, cmd, l, toFile, place)
  PROVE  TypeOK'
<1>1. Fitting(vault[l]) \subseteq Credential \cup {None}
  BY FittingType DEF TypeOK
<1>2. [job[p] EXCEPT !.cmd = cmd, !.loc = l, !.toFile = toFile] \in Job
  BY ZenonT(30) DEF TypeOK, Job
<1>3. job' \in [Proc -> Job] /\ job'[p].conf = job[p].conf
  BY <1>2 DEF TypeOK, Begin, Job
<1>4. /\ pc' \in [Proc -> Place]
      /\ valid' \in [Proc -> SUBSET (Credential \cup {None})]
      /\ taken' \subseteq Proc
  BY <1>1 DEF TypeOK, Begin, Goto
<1>5. \A q \in Proc : pc'[q] \in {"save", "respond"} => job'[q].conf # None
  BY DEF TypeOK, Begin, Goto
<1> QED
  BY <1>3, <1>4, <1>5 DEF TypeOK, Begin, files, changed

LEMMA StoreType ==
  ASSUME TypeOK, NEW l \in Location, NEW c \in Config, Store(l, c)
  PROVE  /\ vault' \in [Location -> Config \cup {None}]
         /\ valid' \in [Proc -> SUBSET (Credential \cup {None})]
<1>1. Fitting(c) \subseteq Credential \cup {None}
  BY FittingType
<1> QED
  BY <1>1 DEF TypeOK, Store

LEMMA PutType ==
  ASSUME TypeOK, NEW f \in Proc \cup {Foreign, None}, NEW by, Put(f, by)
  PROVE  out' \in Proc \cup {Foreign, None} /\ taken' \subseteq Proc /\ blind' \subseteq Proc
BY DEF TypeOK, Put

-----------------------------------------------------------------------------
(* What a step of one command leaves alone. *)

\* No vault is lost and no recovery key changes.
KeysStay ==
  \A l \in Location : vault[l] # None => vault'[l] # None /\ vault'[l].rec = vault[l].rec

\* The step was not q's.
Apart(q) ==
  /\ pc'[q] = pc[q] /\ job'[q] = job[q]
  /\ q \in made' <=> q \in made
  /\ q \in written' <=> q \in written
  /\ \A k \in Key : <<q, k>> \in shown' <=> <<q, k>> \in shown
  /\ q \in taken' => q \in taken
  /\ valid[q] \subseteq valid'[q]
  /\ pc[q] # "idle" => Fitting(vault'[job[q].loc]) \subseteq valid'[q]

LEMMA Others ==
  ASSUME TypeOK, NEW q \in Proc, Well(q), KeysStay, Apart(q)
  PROVE  Well(q)'
<1>1. job[q].loc \in Location /\ job[q] \in Job
  BY DEF TypeOK, Job
<1>2. Routed(q)'
  BY DEF Well, Routed, Apart
<1>3. Made(q)'
  BY <1>1, VaultAssumption DEF Well, Made, Apart, KeysStay, Key
<1>4. Printed(q)'
  BY <1>1 DEF Well, Printed, Apart, KeysStay
<1>5. Held(q)'
  BY <1>1 DEF Well, Held, SetsPassword, Apart, KeysStay
<1>6. Fits(q)'
  BY <1>1 DEF Well, Fits, Apart
<1> QED
  BY <1>2, <1>3, <1>4, <1>5, <1>6 DEF Well

\* A step in which p only changes its place and what it holds.
LEMMA Quiet ==
  ASSUME Inv, NEW p \in Proc, UNCHANGED <<files, record>>,
         \A q \in Proc \ {p} : pc'[q] = pc[q] /\ job'[q] = job[q],
         TypeOK', Well(p)', Seen(p)'
  PROVE  Inv'
<1>1. ASSUME NEW q \in Proc \ {p} PROVE Well(q)' /\ Seen(q)'
  <2>1. Apart(q) /\ KeysStay
    BY DEF Inv, Well, Fits, Apart, KeysStay, files, history, record, changed
  <2>2. Well(q)'
    BY <2>1, Others DEF Inv
  <2>3. Seen(q)'
    BY DEF Inv, Seen, files, history, record, changed
  <2> QED
    BY <2>2, <2>3
<1> QED
  BY <1>1 DEF Inv

\* A step in which the vault, too, may change, to what p had in hand.
LEMMA Loud ==
  ASSUME Inv, NEW p \in Proc, NEW c \in Config, Store(job[p].loc, c), KeysStay,
         UNCHANGED <<out, written, shown, taken, blind>>, made' \in {made, made \cup {p}},
         \A q \in Proc \ {p} : pc'[q] = pc[q] /\ job'[q] = job[q],
         TypeOK', Well(p)', Seen(p)'
  PROVE  Inv'
<1>1. ASSUME NEW q \in Proc \ {p} PROVE Well(q)' /\ Seen(q)'
  <2>1. job[q].loc \in Location /\ job[p].loc \in Location
    BY DEF Inv, TypeOK, Job
  <2>2. /\ valid[q] \subseteq valid'[q]
        /\ pc[q] # "idle" => Fitting(vault'[job[q].loc]) \subseteq valid'[q]
    BY <2>1 DEF Inv, TypeOK, Well, Fits, Store
  <2>3. Apart(q)
    BY <2>2 DEF Apart
  <2>4. Well(q)'
    BY <2>3, Others DEF Inv
  <2>5. Seen(q)'
    BY DEF Inv, Seen
  <2> QED
    BY <2>4, <2>5
<1> QED
  BY <1>1 DEF Inv

-----------------------------------------------------------------------------
(* The steps keep the invariant. *)

LEMMA BeginInv ==
  ASSUME Inv, NEW p \in Proc, NEW l \in Location, NEW cmd \in Command, NEW toFile \in BOOLEAN,
         NEW place \in {"prompt", "tokens", "open", "failed"},
         Begin(p, cmd, l, toFile, place),
         place = "prompt" => cmd \in Creates \cup Changes,
         place = "tokens" => cmd \in {"gdriveOpen", "dropboxOpen"},
         place = "open" => cmd \in Uses \cup {"showKey"},
         toFile => cmd = "create" /\ (place = "prompt" => out = None),
         cmd \in Creates /\ place = "prompt" => toFile \/ p \in Terminals,
         cmd = "showKey" /\ place = "open" => p \in Terminals
  PROVE  Inv'
<1>1. TypeOK'
  BY BeginType DEF Inv, Place, Ended
<1>2. ASSUME NEW q \in Proc \ {p} PROVE Well(q)' /\ Seen(q)'
  <2>1. Apart(q) /\ KeysStay
    BY DEF Inv, TypeOK, Well, Fits, Apart, KeysStay, Begin, Goto, files, changed
  <2>2. Well(q)'
    BY <2>1, Others DEF Inv
  <2>3. Seen(q)'
    BY DEF Inv, TypeOK, Seen, Begin, Goto, files, changed
  <2> QED
    BY <2>2, <2>3
<1>3. Well(p)' /\ Seen(p)'
  <2>1. /\ pc[p] = "idle" /\ pc'[p] = place
        /\ job'[p].cmd = cmd /\ job'[p].loc = l /\ job'[p].toFile = toFile
        /\ valid'[p] = Fitting(vault[l])
        /\ taken' = IF out # None THEN taken \cup {p} ELSE taken
        /\ vault' = vault /\ out' = out /\ made' = made /\ written' = written /\ shown' = shown
    BY DEF Inv, TypeOK, Job, Begin, Goto, files, changed
  <2>2. /\ p \notin made /\ p \notin written /\ p \notin taken
        /\ \A k \in Key : <<p, k>> \notin shown
    BY <2>1 DEF Inv, Well, Made, Printed
  <2>3. Routed(p)'
    BY <2>1 DEF Routed, Remote
  <2>4. Made(p)'
    BY <2>1, <2>2 DEF Made
  <2>5. Printed(p)'
    BY <2>1, <2>2 DEF Printed, Creates, Uses
  <2>6. Held(p)'
    BY <2>1 DEF Held, SetsPassword, Creates, Uses
  <2>7. Fits(p)' /\ Seen(p)'
    BY <2>1 DEF Fits, Seen
  <2> QED
    BY <2>3, <2>4, <2>5, <2>6, <2>7 DEF Well
<1> QED
  BY <1>1, <1>2, <1>3 DEF Inv

\* The facts every step of a command that goes on starts from.
LEMMA Facts ==
  ASSUME Inv, NEW p \in Proc
  PROVE  /\ TypeOK /\ Routed(p) /\ Made(p) /\ Printed(p) /\ Held(p) /\ Fits(p) /\ Seen(p)
         /\ job[p] \in Job /\ job[p].loc \in Location
         /\ vault[job[p].loc] \in Config \cup {None}
BY DEF Inv, Well, TypeOK, Job

\* A command that gives up or is killed, without another effect.
LEMMA EndInv ==
  ASSUME Inv, NEW p \in Proc, GivesUp(p) \/ Kill(p)
  PROVE  Inv'
<1>0. /\ TypeOK /\ Routed(p) /\ Made(p) /\ Printed(p) /\ Held(p) /\ Fits(p) /\ Seen(p)
      /\ job[p] \in Job /\ job[p].loc \in Location
  BY Facts
<1> USE <1>0
<1>1. PICK place \in {"failed", "killed"} :
        /\ pc[p] \notin {"idle"} \cup Ended
        /\ place = "failed" => pc[p] \in {"prompt", "tokens", "make", "open", "words", "respond"}
        /\ Goto(p, place) /\ UNCHANGED <<files, job, history>>
  BY DEF GivesUp, Kill, Ended
<1>2. pc'[p] = place /\ \A q \in Proc \ {p} : pc'[q] = pc[q]
  BY <1>1 DEF TypeOK, Goto
<1>3. TypeOK'
  BY <1>1, <1>2 DEF TypeOK, Goto, Place, Ended, files, history, record, changed
<1>4. Well(p)' /\ Seen(p)'
  <2>1. Routed(p)' /\ Made(p)'
    BY <1>1, <1>2 DEF Routed, Made, Ended, files, history, record, changed
  <2>2. Printed(p)' /\ Held(p)'
    BY <1>1, <1>2 DEF Printed, Held, SetsPassword, Ended, files, history, record, changed
  <2>3. Fits(p)' /\ Seen(p)'
    BY <1>1, <1>2 DEF Fits, Seen, Ended, files, history, record, changed
  <2> QED
    BY <2>1, <2>2, <2>3 DEF Well
<1> QED
  BY <1>1, <1>2, <1>3, <1>4, Quiet DEF history

\* The last prompt is answered with what the command needs.
LEMMA AnswerInv ==
  ASSUME Inv, NEW p \in Proc, NEW x \in Password \cup Secret \cup {None},
         NEW place \in {"tokens", "make", "open", "words"}, Answer(p, x, place),
         place = "tokens" <=> job[p].cmd \in Remote,
         place = "make" <=> job[p].cmd \in Creates \ Remote,
         place = "open" => job[p].cmd \in {"change", "enroll", "remove"},
         place = "words" => job[p].cmd = "reset",
         job[p].cmd \in Creates \cup {"change", "reset"} => x \in Password,
         job[p].cmd = "enroll" => x \in Secret,
         job[p].cmd = "remove" => x = None
  PROVE  Inv'
<1>0. /\ TypeOK /\ Routed(p) /\ Made(p) /\ Printed(p) /\ Held(p) /\ Fits(p) /\ Seen(p)
      /\ job[p] \in Job /\ job[p].loc \in Location
  BY Facts
<1> USE <1>0
<1>1. /\ pc[p] = "prompt" /\ Goto(p, place) /\ UNCHANGED <<files, record, over>>
      /\ job' = [job EXCEPT ![p].new = x] /\ told' = [told EXCEPT ![p] = Reported]
  BY DEF Answer
<1>2. /\ pc'[p] = place /\ job'[p] = [job[p] EXCEPT !.new = x]
      /\ \A q \in Proc \ {p} : pc'[q] = pc[q] /\ job'[q] = job[q]
  BY <1>1 DEF TypeOK, Goto
<1>3. [job[p] EXCEPT !.new = x] \in Job
  BY DEF Job
<1>4. TypeOK'
  <2>1. told' \in [Proc -> SUBSET Proc]
    BY <1>1 DEF TypeOK, Reported
  <2> QED
    BY <1>1, <1>2, <1>3, <2>1 DEF TypeOK, Goto, Place, files, record
<1>5. /\ job'[p].cmd = job[p].cmd /\ job'[p].loc = job[p].loc /\ job'[p].toFile = job[p].toFile
      /\ job'[p].new = x
  BY <1>2 DEF Job
<1>6. Well(p)' /\ Seen(p)'
  <2>1. Routed(p)'
    BY <1>1, <1>2, <1>5 DEF Routed, Remote, Creates, Changes
  <2>2. Made(p)'
    BY <1>1, <1>2, <1>5 DEF Made, files, record
  <2>3. Printed(p)'
    BY <1>1, <1>2, <1>5 DEF Printed, files, record
  <2>4. Held(p)' /\ Fits(p)' /\ Seen(p)'
    BY <1>1, <1>2, <1>5 DEF Held, SetsPassword, Fits, Seen, Creates, files, record
  <2> QED
    BY <2>1, <2>2, <2>3, <2>4 DEF Well
<1> QED
  BY <1>1, <1>2, <1>4, <1>6, Quiet

LEMMA PromptInv ==
  ASSUME Inv, NEW p \in Proc, NewPassword(p) \/ ReadResponse(p) \/ ReadPassword(p)
  PROVE  Inv'
<1>1. CASE NewPassword(p)
  BY <1>1, AnswerInv DEF NewPassword, Creates, Remote
<1>2. CASE ReadResponse(p)
  BY <1>2, AnswerInv DEF ReadResponse, Creates, Remote
<1>3. CASE ReadPassword(p)
  BY <1>3, AnswerInv DEF ReadPassword, Creates, Remote
<1> QED
  BY <1>1, <1>2, <1>3

LEMMA LoadTokensInv ==
  ASSUME Inv, NEW p \in Proc, LoadTokens(p)
  PROVE  Inv'
<1>0. /\ TypeOK /\ Routed(p) /\ Made(p) /\ Printed(p) /\ Held(p) /\ Fits(p) /\ Seen(p)
      /\ job[p] \in Job /\ job[p].loc \in Location
  BY Facts
<1> USE <1>0
<1>1. PICK place \in {"make", "open"} :
        /\ pc[p] = "tokens" /\ Goto(p, place) /\ UNCHANGED <<files, job, history>>
        /\ place = "make" <=> job[p].cmd \in Creates
  BY DEF LoadTokens
<1>2. pc'[p] = place /\ \A q \in Proc \ {p} : pc'[q] = pc[q]
  BY <1>1 DEF TypeOK, Goto
<1>3. TypeOK'
  BY <1>1, <1>2 DEF TypeOK, Goto, Place, files, history, record, changed
<1>4. Well(p)' /\ Seen(p)'
  <2>1. Routed(p)'
    BY <1>1, <1>2 DEF Routed, Remote, Creates, Uses
  <2>2. Made(p)' /\ Printed(p)'
    BY <1>1, <1>2 DEF Routed, Made, Printed, Remote, Creates, files, history, record, changed
  <2>3. Held(p)' /\ Fits(p)' /\ Seen(p)'
    BY <1>1, <1>2 DEF Routed, Held, SetsPassword, Fits, Seen, Remote, Creates, files, history, record, changed
  <2> QED
    BY <2>1, <2>2, <2>3 DEF Well
<1> QED
  BY <1>1, <1>2, <1>3, <1>4, Quiet DEF history

LEMMA MakeVaultInv ==
  ASSUME Inv, NEW p \in Proc, MakeVault(p)
  PROVE  Inv'
<1>0. /\ TypeOK /\ Routed(p) /\ Made(p) /\ Printed(p) /\ Held(p) /\ Fits(p) /\ Seen(p)
      /\ job[p] \in Job /\ job[p].loc \in Location
  BY Facts
<1> USE <1>0
<1> DEFINE c == [pw |-> job[p].new, rec |-> p, hw |-> None]
           place == IF job[p].toFile THEN "recheck" ELSE "show"
<1>1. c \in Config
  BY DEF MakeVault, StoreVault, Held, Config, Key
<1>2. /\ pc[p] = "make" /\ vault[job[p].loc] = None /\ Store(job[p].loc, c)
      /\ job' = [job EXCEPT ![p].conf = c] /\ made' = made \cup {p} /\ Goto(p, place)
      /\ UNCHANGED <<out, written, shown, taken, blind, changed>>
  BY DEF MakeVault, StoreVault, NewConfig
<1>3. /\ pc'[p] = place /\ job'[p] = [job[p] EXCEPT !.conf = c]
      /\ \A q \in Proc \ {p} : pc'[q] = pc[q] /\ job'[q] = job[q]
  BY <1>2 DEF TypeOK, Goto
<1>4. /\ job'[p] \in Job /\ job'[p].cmd = job[p].cmd /\ job'[p].loc = job[p].loc
      /\ job'[p].toFile = job[p].toFile /\ job'[p].conf = c /\ job'[p].new = job[p].new
  BY <1>1, <1>3 DEF Job
<1>5. TypeOK'
  <2>1. job' \in [Proc -> Job] /\ pc' \in [Proc -> Place]
    BY <1>2, <1>3, <1>4 DEF TypeOK, Goto, Place
  <2>2. /\ vault' \in [Location -> Config \cup {None}]
        /\ valid' \in [Proc -> SUBSET (Credential \cup {None})]
    BY <1>1, <1>2, StoreType
  <2>3. \A q \in Proc : pc'[q] \in {"save", "respond"} => job'[q].conf # None
    BY <1>3 DEF TypeOK
  <2> QED
    BY <2>1, <2>2, <2>3, <1>2 DEF TypeOK, changed
<1>6. KeysStay
  BY <1>2 DEF TypeOK, KeysStay, Store
<1>7. vault'[job[p].loc] = c /\ Fitting(c) \subseteq valid'[p] /\ None # c
  BY <1>1, <1>2, VaultAssumption DEF TypeOK, Store, Fitting
<1>8. Well(p)' /\ Seen(p)'
  <2>1. p \notin written /\ \A k \in Key : <<p, k>> \notin shown
    BY <1>2 DEF Made, Printed
  <2>2. Routed(p)' /\ Made(p)'
    BY <1>2, <1>3, <1>4, <1>7, <2>1 DEF Routed, Made, Creates
  <2>3. Printed(p)'
    BY <1>2, <1>3, <1>4, <2>1 DEF Routed, Printed, Creates
  <2>4. Held(p)' /\ Fits(p)' /\ Seen(p)'
    BY <1>1, <1>2, <1>3, <1>4, <1>7 DEF Routed, Held, SetsPassword, Fits, Seen
  <2> QED
    BY <2>2, <2>3, <2>4 DEF Well
<1> QED
  BY <1>1, <1>2, <1>3, <1>5, <1>6, <1>8, Loud

LEMMA MakeVaultFailsInv ==
  ASSUME Inv, NEW p \in Proc, MakeVaultFails(p)
  PROVE  Inv'
<1>0. /\ TypeOK /\ Routed(p) /\ Made(p) /\ Printed(p) /\ Held(p) /\ Fits(p) /\ Seen(p)
      /\ job[p] \in Job /\ job[p].loc \in Location
  BY Facts
<1> USE <1>0
<1> DEFINE c == NewConfig(p)
<1>1. c \in Config
  BY DEF MakeVaultFails, StoreVault, NewConfig, Held, Config, Key
<1>2. /\ pc[p] = "make" /\ vault[job[p].loc] = None /\ Store(job[p].loc, c)
      /\ Goto(p, "failed") /\ UNCHANGED <<out, job, made, written, shown, taken, blind, changed>>
  BY DEF MakeVaultFails, StoreVault
<1> HIDE DEF c
<1>3. pc'[p] = "failed" /\ \A q \in Proc \ {p} : pc'[q] = pc[q]
  BY <1>2 DEF TypeOK, Goto
<1>4. TypeOK'
  <2>1. /\ vault' \in [Location -> Config \cup {None}]
        /\ valid' \in [Proc -> SUBSET (Credential \cup {None})]
    BY <1>1, <1>2, StoreType
  <2> QED
    BY <2>1, <1>2, <1>3 DEF TypeOK, Goto, Place, Ended, changed
<1>5. KeysStay
  BY <1>2 DEF TypeOK, KeysStay, Store
<1>6. vault'[job[p].loc] = c /\ Fitting(c) \subseteq valid'[p]
  BY <1>2 DEF TypeOK, Store
<1>7. Well(p)' /\ Seen(p)'
  <2>1. Routed(p)' /\ Made(p)' /\ Seen(p)'
    BY <1>2, <1>3 DEF Routed, Made, Seen
  <2>2. Printed(p)'
    BY <1>2, <1>3 DEF Printed
  <2>3. Held(p)' /\ Fits(p)'
    BY <1>2, <1>3, <1>6 DEF Held, Fits
  <2> QED
    BY <2>1, <2>2, <2>3 DEF Well
<1> QED
  BY <1>1, <1>2, <1>3, <1>4, <1>5, <1>7, Loud

LEMMA RecheckInv ==
  ASSUME Inv, NEW p \in Proc, Recheck(p)
  PROVE  Inv'
<1>0. /\ TypeOK /\ Routed(p) /\ Made(p) /\ Printed(p) /\ Held(p) /\ Fits(p) /\ Seen(p)
      /\ job[p] \in Job /\ job[p].loc \in Location
  BY Facts
<1> USE <1>0
<1>1. PICK place \in {"failedMade", "publish"} :
        /\ pc[p] = "recheck" /\ Goto(p, place) /\ UNCHANGED <<files, job, history>>
        /\ place = "publish" => out = None
  BY DEF Recheck, Taken
<1>2. pc'[p] = place /\ \A q \in Proc \ {p} : pc'[q] = pc[q]
  BY <1>1 DEF TypeOK, Goto
<1>3. TypeOK'
  BY <1>1, <1>2 DEF TypeOK, Goto, Place, Ended, files, history, record, changed
<1>4. Well(p)' /\ Seen(p)'
  <2>1. Routed(p)' /\ Made(p)'
    BY <1>1, <1>2 DEF Routed, Made, files, history, record, changed
  <2>2. Printed(p)' /\ Held(p)' /\ Fits(p)' /\ Seen(p)'
    BY <1>1, <1>2 DEF Printed, Held, SetsPassword, Fits, Seen, files, history, record, changed
  <2> QED
    BY <2>1, <2>2 DEF Well
<1> QED
  BY <1>1, <1>2, <1>3, <1>4, Quiet DEF history

LEMMA PublishInv ==
  ASSUME Inv, NEW p \in Proc, Publish(p)
  PROVE  Inv'
<1>0. /\ TypeOK /\ Routed(p) /\ Made(p) /\ Printed(p) /\ Held(p) /\ Fits(p) /\ Seen(p)
      /\ job[p] \in Job /\ job[p].loc \in Location
  BY Facts
<1> USE <1>0
<1>1. /\ pc[p] = "publish" /\ UNCHANGED <<vault, job, made, shown, valid, changed>>
      /\ \A q \in Proc \ {p} : pc'[q] = pc[q]
  BY DEF TypeOK, Publish, Goto
<1>2. CASE Put(p, {p}) /\ written' = written \cup {p} /\ Goto(p, "ok")
  <2>1. pc'[p] = "ok" /\ out' = p /\ taken' \subseteq taken
    BY <1>2 DEF TypeOK, Goto, Put
  <2>2. TypeOK'
    <3>1. out' \in Proc \cup {Foreign, None} /\ taken' \subseteq Proc /\ blind' \subseteq Proc
      BY <1>2, PutType
    <3> QED
      BY <3>1, <1>1, <1>2, <2>1 DEF TypeOK, Goto, Place, Ended, changed
  <2>3. ASSUME NEW q \in Proc \ {p} PROVE Well(q)' /\ Seen(q)'
    <3>1. Apart(q) /\ KeysStay
      BY <1>1, <1>2, <2>1 DEF Inv, Well, Fits, Apart, KeysStay
    <3>2. Well(q)'
      BY <3>1, Others DEF Inv
    <3>3. Seen(q)'
      BY <1>1, <1>2 DEF Inv, Seen, Put
    <3> QED
      BY <3>2, <3>3
  <2>4. Well(p)' /\ Seen(p)'
    <3>1. Routed(p)' /\ Made(p)'
      BY <1>1, <1>2, <2>1 DEF Routed, Made
    <3>2. Printed(p)' /\ Held(p)' /\ Fits(p)' /\ Seen(p)'
      BY <1>1, <2>1 DEF Routed, Printed, Held, SetsPassword, Fits, Seen
    <3> QED
      BY <3>1, <3>2 DEF Well
  <2> QED
    BY <2>2, <2>3, <2>4 DEF Inv
<1>3. CASE Goto(p, "failedMade") /\ UNCHANGED <<out, written, taken, blind>>
  <2>1. pc'[p] = "failedMade"
    BY <1>3 DEF TypeOK, Goto
  <2>2. TypeOK'
    BY <1>1, <1>3, <2>1 DEF TypeOK, Goto, Place, Ended, changed
  <2>3. Well(p)' /\ Seen(p)'
    <3>1. Routed(p)' /\ Made(p)'
      BY <1>1, <1>3, <2>1 DEF Routed, Made
    <3>2. Printed(p)' /\ Held(p)' /\ Fits(p)' /\ Seen(p)'
      BY <1>1, <1>3, <2>1 DEF Printed, Held, SetsPassword, Fits, Seen
    <3> QED
      BY <3>1, <3>2 DEF Well
  <2> QED
    BY <1>1, <1>3, <2>2, <2>3, Quiet DEF files, history, record, changed
<1> QED
  BY <1>2, <1>3 DEF Publish

LEMMA ShowInv ==
  ASSUME Inv, NEW p \in Proc, Show(p)
  PROVE  Inv'
<1>0. /\ TypeOK /\ Routed(p) /\ Made(p) /\ Printed(p) /\ Held(p) /\ Fits(p) /\ Seen(p)
      /\ job[p] \in Job /\ job[p].loc \in Location
  BY Facts
<1> USE <1>0
<1>1. /\ pc[p] = "show" /\ shown' = shown \cup {<<p, job[p].conf.rec>>} /\ Goto(p, "ok")
      /\ UNCHANGED <<files, job, made, written, taken, blind, valid, changed>>
  BY DEF Show
<1>2. pc'[p] = "ok" /\ \A q \in Proc \ {p} : pc'[q] = pc[q]
  BY <1>1 DEF TypeOK, Goto
<1>3. job[p].conf.rec \in Key /\ job[p].conf.rec = vault[job[p].loc].rec
  BY <1>1 DEF Held, SetsPassword, Config
<1>4. TypeOK'
  <2>1. shown' \subseteq Proc \X Key
    BY <1>1, <1>3 DEF TypeOK
  <2> QED
    BY <2>1, <1>1, <1>2 DEF TypeOK, Goto, Place, Ended, files, changed
<1>5. ASSUME NEW q \in Proc \ {p} PROVE Well(q)' /\ Seen(q)'
  <2>1. Apart(q) /\ KeysStay
    BY <1>1, <1>2 DEF Inv, Well, Fits, Apart, KeysStay, files, changed
  <2>2. Well(q)'
    BY <2>1, Others DEF Inv
  <2>3. Seen(q)'
    BY <1>1, <1>2 DEF Inv, Seen, files, changed
  <2> QED
    BY <2>2, <2>3
<1>6. Well(p)' /\ Seen(p)'
  <2>1. Routed(p)'
    BY <1>1, <1>2 DEF Routed
  <2>2. Made(p)'
    BY <1>1, <1>2 DEF Made, Held, SetsPassword, Printed, files, changed
  <2>3. Printed(p)'
    BY <1>1, <1>2, <1>3 DEF Printed, Held, SetsPassword, files, changed
  <2>4. Held(p)' /\ Fits(p)' /\ Seen(p)'
    BY <1>1, <1>2 DEF Held, SetsPassword, Fits, Seen, files, changed
  <2> QED
    BY <2>1, <2>2, <2>3, <2>4 DEF Well
<1> QED
  BY <1>4, <1>5, <1>6 DEF Inv

\* A configuration was loaded, and the command holds what it makes of it.
LEMMA SessionInv ==
  ASSUME Inv, NEW p \in Proc, NEW v \in Config, NEW c \in Credential, NEW conf \in Config,
         NEW place \in {"ok", "show", "save"},
         pc[p] \in {"open", "words"}, v = vault[job[p].loc], c \in Fitting(v),
         Session(p, v, c, conf), Goto(p, place), UNCHANGED <<files, history>>,
         conf.rec = v.rec,
         place = "show" => job[p].cmd = "showKey" /\ pc[p] = "open",
         place = "save" =>
           /\ job[p].cmd \in Changes
           /\ conf = IF SetsPassword(p) THEN [v EXCEPT !.pw = job[p].new]
                     ELSE [v EXCEPT !.hw = job[p].new]
  PROVE  Inv'
<1>0. /\ TypeOK /\ Routed(p) /\ Made(p) /\ Printed(p) /\ Held(p) /\ Fits(p) /\ Seen(p)
      /\ job[p] \in Job /\ job[p].loc \in Location
  BY Facts
<1> USE <1>0
<1>a. pc'[p] = place /\ \A q \in Proc \ {p} : pc'[q] = pc[q]
  BY DEF TypeOK, Goto
<1>b. /\ job' \in [Proc -> Job]
      /\ job'[p] = [job[p] EXCEPT !.cred = c, !.read = v, !.conf = conf]
      /\ \A q \in Proc \ {p} : job'[q] = job[q]
  <2>1. [job[p] EXCEPT !.cred = c, !.read = v, !.conf = conf] \in Job
    BY DEF Job
  <2> QED
    BY <2>1 DEF TypeOK, Session
<1>1. /\ pc'[p] = place /\ job' \in [Proc -> Job]
      /\ job'[p] = [job[p] EXCEPT !.cred = c, !.read = v, !.conf = conf]
      /\ \A q \in Proc \ {p} : pc'[q] = pc[q] /\ job'[q] = job[q]
  BY <1>a, <1>b
<1>2. /\ job'[p].cmd = job[p].cmd /\ job'[p].loc = job[p].loc /\ job'[p].new = job[p].new
      /\ job'[p].toFile = job[p].toFile
      /\ job'[p].cred = c /\ job'[p].read = v /\ job'[p].conf = conf
  BY <1>1 DEF Job
<1>3. job[p].cmd \notin Creates
  BY DEF Routed, Creates, Uses
<1>4. TypeOK'
  <2>1. job'[p].conf # None /\ \A q \in Proc \ {p} : pc'[q] = pc[q] /\ job'[q] = job[q]
    BY <1>1, <1>2, VaultAssumption
  <2>2. \A q \in Proc : pc'[q] \in {"save", "respond"} => job'[q].conf # None
    BY <2>1 DEF TypeOK
  <2> QED
    BY <1>1, <2>2 DEF TypeOK, Goto, Place, Ended, files, history, record, changed
<1>5. c \in valid[p] \ {None} /\ v # None
  BY VaultAssumption DEF Fits, Credential
<1>6. Well(p)' /\ Seen(p)'
  <2>1. Routed(p)'
    BY <1>1, <1>2, <1>3 DEF Routed, Creates
  <2>2. Made(p)' /\ Printed(p)'
    BY <1>1, <1>2, <1>3 DEF Routed, Made, Printed, Creates, files, history, record, changed
  <2>3. Held(p)'
    BY <1>1, <1>2, <1>3, <1>5 DEF Routed, Held, SetsPassword, files, history, record, changed
  <2>4. Fits(p)' /\ Seen(p)'
    BY <1>1, <1>2, <1>5 DEF Fits, Seen, files, history, record, changed
  <2> QED
    BY <2>1, <2>2, <2>3, <2>4 DEF Well
<1> QED
  BY <1>1, <1>4, <1>6, Quiet DEF history

LEMMA ProceedInv ==
  ASSUME Inv, NEW p \in Proc, NEW v \in Config, v = vault[job[p].loc], pc[p] = "open",
         Proceed(p, v), UNCHANGED <<files, history>>
  PROVE  Inv'
<1>1. v.pw \in Credential /\ v.pw \in Fitting(v)
  BY VaultAssumption DEF Config, Credential, Fitting
<1>2. ASSUME Session(p, v, v.pw, v), Goto(p, "ok")
      PROVE  Inv'
  BY <1>1, <1>2, SessionInv
<1>3. ASSUME job[p].cmd = "showKey", Session(p, v, v.pw, v), Goto(p, "show")
      PROVE  Inv'
  BY <1>1, <1>3, SessionInv
<1>4. ASSUME job[p].cmd = "change", Session(p, v, v.pw, [v EXCEPT !.pw = job[p].new]),
             Goto(p, "save")
      PROVE  Inv'
  <2>1. job[p].new \in Password
    BY <1>4, Facts DEF Held, SetsPassword
  <2>2. [v EXCEPT !.pw = job[p].new] \in Config /\ [v EXCEPT !.pw = job[p].new].rec = v.rec
    BY <2>1 DEF Config
  <2> QED
    BY <1>1, <1>4, <2>2, SessionInv DEF Changes, SetsPassword
<1>5. ASSUME job[p].cmd = "enroll", Session(p, v, v.pw, [v EXCEPT !.hw = job[p].new]),
             Goto(p, "save")
      PROVE  Inv'
  <2>1. job[p].new \in Secret
    BY <1>5, Facts DEF Held, SetsPassword
  <2>2. [v EXCEPT !.hw = job[p].new] \in Config /\ [v EXCEPT !.hw = job[p].new].rec = v.rec
    BY <2>1 DEF Config
  <2> QED
    BY <1>1, <1>5, <2>2, SessionInv DEF Changes, SetsPassword
<1>6. ASSUME job[p].cmd = "remove", Session(p, v, v.pw, [v EXCEPT !.hw = None]), Goto(p, "save")
      PROVE  Inv'
  <2>1. [v EXCEPT !.hw = None] \in Config /\ [v EXCEPT !.hw = None].rec = v.rec
    BY DEF Config
  <2>2. job[p].new = None
    BY <1>6, Facts DEF Held, SetsPassword
  <2> QED
    BY <1>1, <1>6, <2>1, <2>2, SessionInv DEF Changes, SetsPassword
<1> QED
  BY <1>2, <1>3, <1>4, <1>5, <1>6 DEF Proceed

LEMMA OpenVaultInv ==
  ASSUME Inv, NEW p \in Proc, OpenVault(p)
  PROVE  Inv'
BY Facts, ProceedInv DEF OpenVault

LEMMA OpenWithWordsInv ==
  ASSUME Inv, NEW p \in Proc, OpenWithWords(p)
  PROVE  Inv'
<1>0. /\ TypeOK /\ Routed(p) /\ Made(p) /\ Printed(p) /\ Held(p) /\ Fits(p) /\ Seen(p)
      /\ job[p] \in Job /\ job[p].loc \in Location
  BY Facts
<1> USE <1>0
<1> DEFINE v == vault[job[p].loc]
           conf == [v EXCEPT !.pw = job[p].new]
<1>1. /\ pc[p] = "words" /\ v \in Config /\ v.rec \in Credential /\ v.rec \in Fitting(v)
      /\ v # None /\ UNCHANGED <<files, history>> /\ job[p].cmd = "reset"
      /\ Session(p, v, v.rec, conf) /\ Goto(p, "save")
  BY DEF OpenWithWords, TypeOK, Config, Credential, Fitting, Routed
<1>2. conf \in Config /\ conf.rec = v.rec
  BY <1>1 DEF Held, SetsPassword, Config
<1> QED
  BY <1>1, <1>2, SessionInv DEF Changes, SetsPassword

\* The end of a save: with the configuration stored, or else with an error.
Saves(p, place) ==
  /\ pc[p] = "save" /\ Goto(p, place)
  /\ StoreSession(p) \/ (place = "failed" /\ UNCHANGED <<vault, valid, over>>)
  /\ UNCHANGED <<out, job, made, written, shown, taken, blind, told>>

LEMMA SaveInv ==
  ASSUME Inv, NEW p \in Proc, NEW place \in {"ok", "failed"}, Saves(p, place)
  PROVE  Inv'
<1>0. /\ TypeOK /\ Routed(p) /\ Made(p) /\ Printed(p) /\ Held(p) /\ Fits(p) /\ Seen(p)
      /\ job[p] \in Job /\ job[p].loc \in Location
  BY Facts
<1> USE <1>0
<1>1. /\ pc[p] = "save" /\ Goto(p, place)
      /\ UNCHANGED <<out, job, made, written, shown, taken, blind, told>>
  BY DEF Saves
<1>2. pc'[p] = place /\ \A q \in Proc \ {p} : pc'[q] = pc[q]
  BY <1>1 DEF TypeOK, Goto
<1>3. /\ job[p].conf \in Config /\ vault[job[p].loc] # None
      /\ job[p].conf.rec = vault[job[p].loc].rec /\ job[p].cred \in valid[p] \ {None}
      /\ job[p].cmd \notin Creates
  BY <1>1 DEF Held, SetsPassword, Fits, Routed, Creates, Changes
<1>4. \A k \in Key : <<p, k>> \notin shown
  BY <1>1 DEF Printed
<1>5. p \notin made /\ p \notin written
  BY <1>1 DEF Made
<1>6. Routed(p)' /\ Made(p)' /\ Printed(p)' /\ Seen(p)'
  <2>1. Routed(p)' /\ Seen(p)'
    BY <1>1, <1>2 DEF Routed, Seen
  <2>2. Made(p)'
    BY <1>1, <1>2, <1>3, <1>5 DEF Made
  <2>3. Printed(p)'
    BY <1>1, <1>2, <1>4 DEF Printed
  <2> QED
    BY <2>1, <2>2, <2>3
<1>7. pc' \in [Proc -> Place]
  BY <1>1 DEF TypeOK, Goto, Place, Ended
<1>8. CASE StoreSession(p)
  <2> DEFINE c == job[p].conf
  <2>1. Store(job[p].loc, c)
    BY <1>8 DEF StoreSession
  <2>2. KeysStay
    BY <1>3, <2>1, VaultAssumption DEF TypeOK, KeysStay, Store
  <2>3. vault'[job[p].loc] = c /\ Fitting(c) \subseteq valid'[p] /\ valid[p] \subseteq valid'[p]
    BY <1>1, <2>1 DEF TypeOK, Store
  <2>4. TypeOK'
    <3>1. /\ vault' \in [Location -> Config \cup {None}]
          /\ valid' \in [Proc -> SUBSET (Credential \cup {None})]
      BY <1>3, <2>1, StoreType
    <3>2. over' \in [Proc -> SUBSET Proc]
      BY <1>8 DEF StoreSession, TypeOK, Reported
    <3> QED
      BY <1>1, <1>2, <1>7, <3>1, <3>2 DEF TypeOK
  <2>5. Held(p)' /\ Fits(p)'
    BY <1>1, <1>2, <1>3, <2>3 DEF Held, SetsPassword, Fits
  <2>6. Well(p)'
    BY <1>6, <2>5 DEF Well
  <2> HIDE DEF c
  <2> QED
    BY <1>1, <1>2, <1>3, <1>6, <2>1, <2>2, <2>4, <2>6, Loud DEF c
<1>9. CASE place = "failed" /\ UNCHANGED <<vault, valid, over>>
  <2>1. TypeOK'
    BY <1>1, <1>2, <1>7, <1>9 DEF TypeOK
  <2>2. Held(p)' /\ Fits(p)'
    BY <1>1, <1>2, <1>9 DEF Held, SetsPassword, Fits
  <2>3. Well(p)'
    BY <1>6, <2>2 DEF Well
  <2> QED
    BY <1>1, <1>2, <1>6, <1>9, <2>1, <2>3, Quiet DEF files, history, record, changed
<1> QED
  BY <1>8, <1>9 DEF Saves

LEMMA LoadConfigInv ==
  ASSUME Inv, NEW p \in Proc, NEW l \in Location, NEW cmd \in Responds, LoadConfig(p, l, cmd)
  PROVE  Inv'
<1>0. /\ TypeOK /\ Routed(p) /\ Made(p) /\ Printed(p) /\ Held(p) /\ Fits(p) /\ Seen(p)
      /\ job[p] \in Job /\ job[p].loc \in Location
  BY Facts
<1> USE <1>0
<1> DEFINE v == vault[l]
           place == IF v = None THEN "failed" ELSE "respond"
           new == [job[p] EXCEPT !.cmd = cmd, !.loc = l, !.read = v, !.conf = v]
<1>1. /\ pc[p] = "idle" /\ Goto(p, place) /\ job' = [job EXCEPT ![p] = new]
      /\ valid' = [valid EXCEPT ![p] = Fitting(v)]
      /\ taken' = IF out # None THEN taken \cup {p} ELSE taken
      /\ UNCHANGED <<files, changed, made, written, shown, blind>>
  BY DEF LoadConfig
<1>2. v \in Config \cup {None} /\ Fitting(v) \subseteq Credential \cup {None}
  BY FittingType DEF TypeOK
<1>3. new \in Job /\ new.cmd = cmd /\ new.loc = l /\ new.conf = v /\ new.toFile = job[p].toFile
  BY <1>2 DEF Job, Command
<1>4. /\ pc'[p] = place /\ job'[p] = new /\ valid'[p] = Fitting(v)
      /\ \A q \in Proc \ {p} : pc'[q] = pc[q] /\ job'[q] = job[q] /\ valid'[q] = valid[q]
  <2> HIDE DEF new, place
  <2> QED
    BY <1>1 DEF TypeOK, Goto
<1>5. TypeOK'
  <2>1. job' \in [Proc -> Job] /\ pc' \in [Proc -> Place]
        /\ valid' \in [Proc -> SUBSET (Credential \cup {None})] /\ taken' \subseteq Proc
    <3>1. place \in Place
      BY DEF Place, Ended
    <3> HIDE DEF new, place, v
    <3> QED
      BY <1>1, <1>2, <1>3, <3>1 DEF TypeOK, Goto
  <2>2. \A q \in Proc : pc'[q] \in {"save", "respond"} => job'[q].conf # None
    BY <1>3, <1>4, ZenonT(30) DEF TypeOK
  <2> QED
    BY <2>1, <2>2, <1>1 DEF TypeOK, files, changed
<1>6. ASSUME NEW q \in Proc \ {p} PROVE Well(q)' /\ Seen(q)'
  <2>1. Apart(q) /\ KeysStay
    BY <1>1, <1>4 DEF Inv, Well, Fits, Apart, KeysStay, files, changed
  <2>2. Well(q)'
    BY <2>1, Others DEF Inv
  <2>3. Seen(q)'
    BY <1>1, <1>4 DEF Inv, Seen, files, changed
  <2> QED
    BY <2>2, <2>3
<1>7. Well(p)' /\ Seen(p)'
  <2>1. /\ p \notin made /\ p \notin written /\ \A k \in Key : <<p, k>> \notin shown
    BY <1>1 DEF Made, Printed
  <2>2. ~job[p].toFile
    BY <1>1 DEF Routed
  <2> HIDE DEF new
  <2>3. Routed(p)'
    BY <1>3, <1>4, <2>2 DEF Routed
  <2>4. Made(p)' /\ Printed(p)'
    BY <1>1, <1>3, <1>4, <2>1, <2>2 DEF Made, Printed, Creates, Responds
  <2>5. Held(p)'
    BY <1>2, <1>3, <1>4 DEF Held, SetsPassword, Creates, Responds
  <2>6. Fits(p)' /\ Seen(p)'
    BY <1>1, <1>3, <1>4 DEF Fits, Seen, files, changed
  <2> QED
    BY <2>3, <2>4, <2>5, <2>6 DEF Well
<1> QED
  BY <1>5, <1>6, <1>7 DEF Inv

LEMMA RespondInv ==
  ASSUME Inv, NEW p \in Proc, Respond(p)
  PROVE  Inv'
<1>0. /\ TypeOK /\ Routed(p) /\ Made(p) /\ Printed(p) /\ Held(p) /\ Fits(p) /\ Seen(p)
      /\ job[p] \in Job /\ job[p].loc \in Location
  BY Facts
<1> USE <1>0
<1>1. PICK s \in Secret : job[p].conf.hw = s /\ job' = [job EXCEPT ![p].cred = s]
  BY DEF Respond
<1>2. /\ pc[p] = "respond" /\ Goto(p, "ok") /\ UNCHANGED <<files, history>>
  BY DEF Respond
<1>3. /\ pc'[p] = "ok" /\ job'[p] = [job[p] EXCEPT !.cred = s]
      /\ \A q \in Proc \ {p} : pc'[q] = pc[q] /\ job'[q] = job[q]
  BY <1>1, <1>2 DEF TypeOK, Goto
<1>4. /\ [job[p] EXCEPT !.cred = s] \in Job
      /\ job'[p].cmd = job[p].cmd /\ job'[p].loc = job[p].loc /\ job'[p].toFile = job[p].toFile
      /\ job'[p].cred = s
  BY <1>3 DEF Job, Credential
<1>5. TypeOK'
  BY <1>1, <1>2, <1>3, <1>4 DEF TypeOK, Goto, Place, Ended, files, history, record, changed
<1>6. s \in valid[p] \ {None}
  BY <1>1, <1>2, VaultAssumption DEF Held, SetsPassword, Fitting
<1>7. Well(p)' /\ Seen(p)'
  <2>1. job[p].cmd \notin Creates
    BY <1>2 DEF Routed, Creates, Responds
  <2>2. Routed(p)' /\ Made(p)'
    BY <1>2, <1>3, <1>4, <2>1 DEF Routed, Made, files, history, record, changed
  <2>3. Printed(p)' /\ Held(p)'
    BY <1>2, <1>3, <1>4 DEF Printed, Held, SetsPassword, files, history, record, changed
  <2>4. Fits(p)' /\ Seen(p)'
    BY <1>2, <1>3, <1>4, <1>6 DEF Fits, Seen, files, history, record, changed
  <2> QED
    BY <2>2, <2>3, <2>4 DEF Well
<1> QED
  BY <1>2, <1>3, <1>5, <1>7, Quiet DEF history

LEMMA OtherProgramInv ==
  ASSUME Inv, OtherProgram
  PROVE  Inv'
<1>1. PICK f \in {Foreign, None} : Put(f, {})
  BY DEF OtherProgram
<1>2. UNCHANGED <<vault, pc, job, made, written, shown, valid, changed>> /\ taken' \subseteq taken
  BY <1>1 DEF OtherProgram, Put
<1>3. TypeOK'
  <2>1. out' \in Proc \cup {Foreign, None} /\ taken' \subseteq Proc /\ blind' \subseteq Proc
    BY <1>1, PutType DEF Inv
  <2> QED
    BY <1>2, <2>1 DEF Inv, TypeOK, changed
<1>4. ASSUME NEW q \in Proc PROVE Well(q)' /\ Seen(q)'
  <2>1. Apart(q) /\ KeysStay
    BY <1>2 DEF Inv, Well, Fits, Apart, KeysStay
  <2>2. Well(q)'
    BY <2>1, Others DEF Inv
  <2>3. Seen(q)'
    BY <1>1, <1>2 DEF Inv, Seen, Put
  <2> QED
    BY <2>2, <2>3
<1> QED
  BY <1>3, <1>4 DEF Inv

LEMMA StepInv == Inv /\ [Next]_vars => Inv'
<1> SUFFICES ASSUME Inv, [Next]_vars PROVE Inv'
  OBVIOUS
<1>1. ASSUME NEW p \in Proc, CreateStep(p) PROVE Inv'
  <2>1. ASSUME NEW l \in Location, NEW toFile \in BOOLEAN, Create(p, l, toFile) PROVE Inv'
    <3>1. PICK place \in {"prompt", "failed"} :
            /\ Begin(p, "create", l, toFile, place)
            /\ place = "prompt" => IF toFile THEN out = None ELSE p \in Terminals
      BY <2>1 DEF Create, Taken, MayPrint
    <3> QED
      BY <3>1, BeginInv DEF Command, Creates
  <2>2. ASSUME NEW l \in Location, GDriveCreate(p, l) PROVE Inv'
    <3>1. PICK place \in {"prompt", "failed"} :
            /\ Begin(p, "gdriveCreate", l, FALSE, place)
            /\ place = "prompt" => p \in Terminals
      BY <2>2 DEF GDriveCreate, MayPrint
    <3> QED
      BY <3>1, BeginInv DEF Command, Creates
  <2>3. ASSUME NEW l \in Location, DropboxCreate(p, l) PROVE Inv'
    BY <2>3, BeginInv DEF DropboxCreate, MayPrint, Command, Creates
  <2>4. ASSUME NEW l \in Location, ICloudCreate(p, l) PROVE Inv'
    BY <2>4, BeginInv DEF ICloudCreate, MayPrint, Command, Creates
  <2> QED
    BY <1>1, <2>1, <2>2, <2>3, <2>4, MakeVaultInv, MakeVaultFailsInv, RecheckInv, PublishInv DEF CreateStep
<1>2. ASSUME NEW p \in Proc, OpenStep(p) PROVE Inv'
  <2>1. ASSUME NEW l \in Location, Use(p, l) PROVE Inv'
    BY <2>1, BeginInv DEF Use, Command, Creates, Uses
  <2>2. ASSUME NEW l \in Location, GDriveOpen(p, l) PROVE Inv'
    BY <2>2, BeginInv DEF GDriveOpen, Command, Creates, Uses
  <2>3. ASSUME NEW l \in Location, DropboxOpen(p, l) PROVE Inv'
    BY <2>3, BeginInv DEF DropboxOpen, Command, Creates, Uses
  <2>4. ASSUME NEW l \in Location, ICloudOpen(p, l) PROVE Inv'
    BY <2>4, BeginInv DEF ICloudOpen, Command, Creates, Uses
  <2>5. ASSUME NEW l \in Location, ShowKey(p, l) PROVE Inv'
    BY <2>5, BeginInv DEF ShowKey, MayPrint, Command, Creates, Uses
  <2> QED
    BY <1>2, <2>1, <2>2, <2>3, <2>4, <2>5, LoadConfigInv, OpenVaultInv, OpenWithWordsInv,
       RespondInv DEF OpenStep
<1>3. ASSUME NEW p \in Proc, ChangeStep(p) PROVE Inv'
  <2>1. ASSUME NEW l \in Location, ChangePassword(p, l) PROVE Inv'
    BY <2>1, BeginInv DEF ChangePassword, Command, Creates, Changes
  <2>2. ASSUME NEW l \in Location, Reset(p, l) PROVE Inv'
    BY <2>2, BeginInv DEF Reset, Command, Creates, Changes
  <2>3. ASSUME NEW l \in Location, Enroll(p, l) PROVE Inv'
    BY <2>3, BeginInv DEF Enroll, Command, Creates, Changes
  <2>4. ASSUME NEW l \in Location, Remove(p, l) PROVE Inv'
    BY <2>4, BeginInv DEF Remove, Command, Creates, Changes
  <2>5. SaveConfig(p) => Saves(p, "ok")
    BY DEF SaveConfig, Saves
  <2>6. SaveFails(p) => Saves(p, "failed")
    BY DEF SaveFails, Saves
  <2> QED
    BY <1>3, <2>1, <2>2, <2>3, <2>4, <2>5, <2>6, SaveInv, PromptInv DEF ChangeStep
<1>4. ASSUME NEW p \in Proc, CommonStep(p) PROVE Inv'
  BY <1>4, PromptInv, LoadTokensInv, ShowInv, EndInv DEF CommonStep
<1>5. CASE OtherProgram
  BY <1>5, OtherProgramInv
<1>6. CASE UNCHANGED vars
  <2>1. TypeOK'
    BY <1>6 DEF Inv, TypeOK, vars
  <2>2. ASSUME NEW q \in Proc PROVE Well(q)' /\ Seen(q)'
    BY <1>6 DEF Inv, vars, Well, Routed, Made, Printed, Held, SetsPassword, Fits, Seen
  <2> QED
    BY <2>1, <2>2 DEF Inv
<1> QED
  BY <1>1, <1>2, <1>3, <1>4, <1>5, <1>6 DEF Next

THEOREM Invariant == Spec => []Inv
BY InitInv, StepInv, PTL DEF Spec

-----------------------------------------------------------------------------
(* The properties. *)

\* For any number of commands, every state is well-typed, and a command that
\* has a response to check or a configuration to save has loaded one.
THEOREM TypeCorrect == Spec => []TypeOK
<1>1. Inv => TypeOK
  BY DEF Inv
<1> QED
  BY <1>1, Invariant, PTL

\* However long its prompts take, a create command makes no vault if a file was
\* at its --recovery-out path all along (vault.rs:39-41).
THEOREM TakenFileStopsCreate == Spec => []NoVaultForTakenFile
<1>1. Inv => NoVaultForTakenFile
  BY DEF Inv, TypeOK, Well, Made, NoVaultForTakenFile
<1> QED
  BY <1>1, Invariant, PTL

\* create's three ways to end tell what it left (vault.rs:66-94).
THEOREM CreateIsTruthful == Spec => []CreateSaysWhatItDid
<1>1. Inv => CreateSaysWhatItDid
  <2> SUFFICES ASSUME Inv, NEW p \in Proc, job[p].cmd \in Creates
               PROVE  /\ pc[p] = "failed" => p \notin made
                      /\ pc[p] = "failedMade" => p \in made /\ p \notin written
                      /\ pc[p] = "ok" => /\ p \in made
                                         /\ IF job[p].toFile THEN p \in written
                                            ELSE <<p, p>> \in shown
    BY DEF CreateSaysWhatItDid
  <2> QED
    BY Facts DEF Made
<1> QED
  BY <1>1, Invariant, PTL

\* Whatever is saved at the same time, by sessions however old, a recovery key
\* that was given to a user keeps opening its vault.
THEOREM RecoveryKeysWork == Spec => []GivenKeyOpens
<1>1. Inv => GivenKeyOpens
  <2> SUFFICES ASSUME Inv PROVE GivenKeyOpens
    OBVIOUS
  <2>1. ASSUME NEW p \in written
        PROVE  vault[job[p].loc] # None /\ vault[job[p].loc].rec = p
    BY Facts DEF Inv, TypeOK, Made
  <2>2. ASSUME NEW s \in shown
        PROVE  vault[job[s[1]].loc] # None /\ vault[job[s[1]].loc].rec = s[2]
    <3>1. s[1] \in Proc /\ s[2] \in Key /\ s = <<s[1], s[2]>>
      BY DEF Inv, TypeOK
    <3> QED
      BY <3>1, Facts DEF Printed
  <2> QED
    BY <2>1, <2>2 DEF GivenKeyOpens
<1> QED
  BY <1>1, Invariant, PTL

\* No command prints recovery words where standard output is not a terminal, nor
\* when they were to go to a file.
THEOREM WordsStayOnTerminals == Spec => []PrintedOnlyToTerminal
<1>1. Inv => PrintedOnlyToTerminal
  <2> SUFFICES ASSUME Inv, NEW s \in shown PROVE s[1] \in Terminals /\ ~job[s[1]].toFile
    BY DEF PrintedOnlyToTerminal
  <2>1. s[1] \in Proc /\ s[2] \in Key /\ s = <<s[1], s[2]>>
    BY DEF Inv, TypeOK
  <2> QED
    BY <2>1, Facts DEF Printed
<1> QED
  BY <1>1, Invariant, PTL

\* No command opens a vault by something that never fitted while it ran.
THEOREM OnlyValidOpens == Spec => []OpenedByValid
<1>1. Inv => OpenedByValid
  BY Facts DEF OpenedByValid, Fits
<1> QED
  BY <1>1, Invariant, PTL

-----------------------------------------------------------------------------
(* What each step does, for the properties of steps. *)

\* Every step but the creation of a vault, a save, the publication of the
\* recovery file and the print leaves the files and what was written alone.
LEMMA BeginQuiet ==
  ASSUME NEW p \in Proc, NEW cmd, NEW l, NEW toFile, NEW place, Begin(p, cmd, l, toFile, place)
  PROVE  UNCHANGED <<vault, written>> /\ pc[p] = "idle" /\ Goto(p, place)
BY DEF Begin, files, changed

LEMMA CreateStepKinds ==
  ASSUME NEW p \in Proc, CreateStep(p)
  PROVE  \/ MakeVault(p) \/ MakeVaultFails(p)
         \/ Publish(p)
         \/ /\ UNCHANGED <<vault, written>>
            /\ \E place \in {"failed", "prompt", "publish", "failedMade"} : Goto(p, place)
<1>1. ASSUME NEW l \in Location, NEW toFile \in BOOLEAN, Create(p, l, toFile)
      PROVE  /\ UNCHANGED <<vault, written>>
             /\ \E place \in {"failed", "prompt"} : Goto(p, place)
  BY <1>1, BeginQuiet DEF Create
<1>2. ASSUME NEW l \in Location, GDriveCreate(p, l) \/ DropboxCreate(p, l) \/ ICloudCreate(p, l)
      PROVE  /\ UNCHANGED <<vault, written>>
             /\ \E place \in {"failed", "prompt"} : Goto(p, place)
  BY <1>2, BeginQuiet DEF GDriveCreate, DropboxCreate, ICloudCreate
<1>3. CASE Recheck(p)
  BY <1>3 DEF Recheck, files, history, record, changed
<1> QED
  BY <1>1, <1>2, <1>3 DEF CreateStep

LEMMA OpenStepKinds ==
  ASSUME NEW p \in Proc, OpenStep(p)
  PROVE  /\ UNCHANGED <<vault, written>>
         /\ \/ \E place \in {"failed", "open", "tokens", "respond", "save"} : Goto(p, place)
            \/ OpenVault(p)
            \/ Respond(p)
<1>1. ASSUME NEW l \in Location,
             Use(p, l) \/ GDriveOpen(p, l) \/ DropboxOpen(p, l) \/ ICloudOpen(p, l) \/ ShowKey(p, l)
      PROVE  /\ UNCHANGED <<vault, written>>
             /\ \E place \in {"failed", "open", "tokens"} : Goto(p, place)
  BY <1>1, BeginQuiet DEF Use, GDriveOpen, DropboxOpen, ICloudOpen, ShowKey
<1>2. ASSUME NEW l \in Location, NEW cmd \in Responds, LoadConfig(p, l, cmd)
      PROVE  /\ UNCHANGED <<vault, written>>
             /\ \E place \in {"failed", "respond"} : Goto(p, place)
  BY <1>2 DEF LoadConfig, files, changed
<1>3. CASE OpenVault(p)
  BY <1>3 DEF OpenVault, files, history, record, changed
<1>4. CASE OpenWithWords(p)
  BY <1>4 DEF OpenWithWords, files, history, record, changed
<1>5. CASE Respond(p)
  BY <1>5 DEF Respond, files, history, record, changed
<1> QED
  BY <1>1, <1>2, <1>3, <1>4, <1>5 DEF OpenStep

LEMMA ChangeStepKinds ==
  ASSUME NEW p \in Proc, ChangeStep(p)
  PROVE  /\ written' = written
         /\ \/ SaveConfig(p)
            \/ SaveFails(p)
            \/ vault' = vault /\ \E place \in {"prompt", "open"} : Goto(p, place)
<1>1. ASSUME NEW l \in Location,
             ChangePassword(p, l) \/ Reset(p, l) \/ Enroll(p, l) \/ Remove(p, l)
      PROVE  /\ UNCHANGED <<vault, written>>
             /\ \E place \in {"prompt", "open"} : Goto(p, place)
  BY <1>1, BeginQuiet DEF ChangePassword, Reset, Enroll, Remove
<1>2. CASE SaveConfig(p) \/ SaveFails(p)
  BY <1>2 DEF SaveConfig, SaveFails
<1>3. CASE ReadResponse(p) \/ ReadPassword(p)
  BY <1>3 DEF ReadResponse, ReadPassword, Answer, files, record
<1> QED
  BY <1>1, <1>2, <1>3 DEF ChangeStep

LEMMA CommonStepKinds ==
  ASSUME NEW p \in Proc, CommonStep(p)
  PROVE  /\ UNCHANGED <<vault, written>>
         /\ \/ Show(p)
            \/ \E place \in {"tokens", "make", "open", "words", "failed", "killed"} : Goto(p, place)
<1>1. CASE NewPassword(p)
  BY <1>1 DEF NewPassword, Answer, files, record
<1>2. CASE LoadTokens(p)
  BY <1>2 DEF LoadTokens, files, history, record, changed
<1>3. CASE Show(p)
  BY <1>3 DEF Show, files, changed
<1>4. CASE GivesUp(p)
  BY <1>4 DEF GivesUp, files, history, record, changed
<1>5. CASE Kill(p)
  BY <1>5 DEF Kill, files, history, record, changed
<1> QED
  BY <1>1, <1>2, <1>3, <1>4, <1>5 DEF CommonStep

\* A recovery file replaces only what came after the second check of its path.
THEOREM ReplacesUnseen == Spec => ReplacesOnlyUnseen
<1> DEFINE Replaces == \A p \in Proc : p \notin written /\ p \in written' /\ out # None => p \in blind
<1>1. ASSUME Inv, Next, NEW p \in Proc, p \notin written, p \in written', out # None
      PROVE  p \in blind
  <2>1. written' # written
    BY <1>1
  <2>2. ~OtherProgram
    BY <2>1 DEF OtherProgram
  <2>3. ASSUME NEW q \in Proc, CreateStep(q) \/ OpenStep(q) \/ ChangeStep(q) \/ CommonStep(q)
        PROVE  Publish(q)
    <3>1. ~MakeVault(q) /\ ~MakeVaultFails(q)
      BY <2>1 DEF MakeVault, MakeVaultFails, StoreVault
    <3> QED
      BY <2>1, <2>3, <3>1, CreateStepKinds, OpenStepKinds, ChangeStepKinds, CommonStepKinds
  <2>4. PICK q \in Proc : Publish(q)
    BY <1>1, <2>2, <2>3 DEF Next
  <2>5. q = p /\ pc[p] = "publish"
    BY <1>1, <2>1, <2>4 DEF Publish
  <2> QED
    BY <1>1, <2>5 DEF Inv, Seen
<1>2. Inv /\ [Next]_vars => [Replaces]_vars
  BY <1>1
<1>3. Spec => [][Replaces]_vars
  BY Invariant, <1>2, PTL DEF Spec
<1> QED
  BY <1>3 DEF ReplacesOnlyUnseen

\* A command that reports a changed password or hardware key has stored it.
THEOREM SuccessStores == Spec => SuccessIsStored
<1> DEFINE Reports(p) == pc[p] # "ok" /\ pc'[p] = "ok" /\ job[p].cmd \in Changes
<1>1. ASSUME Inv, Next, NEW p \in Proc, Reports(p)
      PROVE  InForce(p)'
  <2> DEFINE v == vault[job[p].loc]
  <2>1. /\ pc \in [Proc -> Place] /\ vault \in [Location -> Config \cup {None}]
        /\ job[p] \in Job /\ Routed(p) /\ Held(p)
    BY <1>1 DEF Inv, TypeOK, Well
  <2>2. job[p].cmd \in Changes /\ job[p].cmd \notin Creates \cup Uses \cup Responds \cup {"showKey"}
    BY <1>1 DEF Changes, Creates, Uses, Responds
  <2>3. ~OtherProgram
    BY <1>1 DEF OtherProgram
  <2>4. ASSUME NEW q \in Proc, CreateStep(q) \/ OpenStep(q) \/ ChangeStep(q) \/ CommonStep(q)
        PROVE  SaveConfig(p) \/ OpenVault(p)
    <3>1. ASSUME NEW r \in Proc, NEW place, place # "ok", Goto(r, place)
          PROVE  FALSE
      BY <1>1, <2>1, <3>1 DEF Goto
    <3>2. ~MakeVault(q) /\ ~MakeVaultFails(q) /\ ~SaveFails(q)
      BY <3>1 DEF MakeVault, MakeVaultFails, SaveFails
    <3>3. ASSUME Publish(q) \/ Show(q) \/ Respond(q)
          PROVE  FALSE
      <4>1. q = p
        BY <1>1, <2>1, <3>3 DEF Publish, Show, Respond, Goto
      <4> QED
        BY <2>1, <2>2, <3>3, <4>1 DEF Publish, Show, Respond, Routed
    <3>4. SaveConfig(q) \/ OpenVault(q)
      BY <2>4, <3>1, <3>2, <3>3, CreateStepKinds, OpenStepKinds, ChangeStepKinds, CommonStepKinds
    <3>5. q = p
      <4>1. ASSUME SaveConfig(q) PROVE q = p
        BY <1>1, <2>1, <4>1 DEF SaveConfig, Goto
      <4>2. ASSUME OpenVault(q) PROVE q = p
        BY <1>1, <2>1, <4>2 DEF OpenVault, Proceed, Goto
      <4> QED
        BY <3>4, <4>1, <4>2
    <3> QED
      BY <3>4, <3>5
  <2>5. CASE SaveConfig(p)
    <3>1. vault'[job[p].loc] = job[p].conf
      BY <2>1, <2>5 DEF SaveConfig, StoreSession, Store, Job
    <3>2. /\ job[p].read \in Config /\ job[p].conf # None /\ job' = job
          /\ job[p].conf = IF SetsPassword(p) THEN [job[p].read EXCEPT !.pw = job[p].new]
                           ELSE [job[p].read EXCEPT !.hw = job[p].new]
      BY <1>1, <2>1, <2>5 DEF Inv, TypeOK, SaveConfig, Held
    <3>3. IF SetsPassword(p) THEN job[p].conf.pw = job[p].new ELSE job[p].conf.hw = job[p].new
      BY <3>2 DEF Config
    <3> QED
      BY <3>1, <3>2, <3>3 DEF InForce, SetsPassword
  <2>6. CASE OpenVault(p)
    <3>1. /\ job[p].cmd = "remove" /\ v.hw = None /\ v # None /\ vault' = vault
          /\ pc[p] = "open" /\ Session(p, v, v.pw, v)
      BY <1>1, <2>1, <2>2, <2>6 DEF OpenVault, Proceed, Goto, Changes, Uses, files
    <3>2. job[p].new = None
      BY <2>1, <3>1 DEF Held
    <3>3. job'[p].cmd = "remove" /\ job'[p].loc = job[p].loc /\ job'[p].new = None
      BY <1>1, <3>1, <3>2 DEF Session, Inv, TypeOK, Job
    <3> QED
      BY <3>1, <3>3 DEF InForce, SetsPassword
  <2> QED
    BY <1>1, <2>3, <2>4, <2>5, <2>6 DEF Next
<1>2. Inv /\ [Next]_vars => [\A p \in Proc : Reports(p) => InForce(p)']_vars
  BY <1>1
<1>3. Spec => [][\A p \in Proc : Reports(p) => InForce(p)']_vars
  BY Invariant, <1>2, PTL DEF Spec
<1> QED
  BY <1>3 DEF SuccessIsStored

-----------------------------------------------------------------------------
(* A reported change stays: what saves with overlapping sessions do to it. *)

\* What p loaded has q's change.
Loaded(p, q) == IF SetsPassword(q) THEN job[p].read.pw = job[q].new ELSE job[p].read.hw = job[q].new

Undone(q) == \E r \in Proc : Undoes(r, q)

\* p was told, and stored over, changes that were reported; it stored at its end.
Past(p) ==
  /\ told[p] \subseteq Reported /\ over[p] \subseteq Reported
  /\ over[p] # {} => pc[p] \in {"ok", "failed"}

\* The session that p is about to save has every change that was reported before
\* p's last prompt was answered, unless that was undone by then.
Fresh(p) ==
  pc[p] = "save" => \A q \in told[p] : job[p].loc = job[q].loc => Loaded(p, q) \/ Undone(q)

Kept == ReportedChangeStays /\ \A p \in Proc : Past(p) /\ Fresh(p)

\* A step of p that does not save keeps what there is to keep: what p loads is
\* what is stored, and what it reports is in force.
LEMMA UnsavedKept ==
  ASSUME TypeOK, Kept, NEW p \in Proc, pc[p] \notin Ended,
         \A l \in Location : vault'[l] = vault[l] \/ vault[l] = None,
         over' = over,
         \A q \in Proc \ {p} : pc'[q] = pc[q] /\ job'[q] = job[q] /\ told'[q] = told[q],
         told'[p] = told[p] \/ told'[p] = Reported,
         pc'[p] = "ok" => job'[p].cmd \notin Changes \/ InForce(p)',
         pc'[p] = "save" => /\ job'[p].loc \in Location /\ vault[job'[p].loc] # None
                            /\ told'[p] = told[p] /\ job'[p].read = vault[job'[p].loc]
  PROVE  Kept'
<1>1. p \notin Reported /\ over[p] = {} /\ \A q \in Proc : p \notin told[q] /\ p \notin over[q]
  BY DEF Kept, Past, Reported, Ended
<1>2. \A q \in Proc \ {p} : q \in Reported <=> q \in Reported'
  BY DEF Reported
<1>3. Reported \subseteq Reported' /\ Reported' \subseteq Reported \cup {p}
  BY <1>1, <1>2 DEF Reported
<1>4. ASSUME NEW q \in Reported, InForce(q) PROVE InForce(q)'
  <2>1. q \in Proc \ {p} /\ job[q].loc \in Location
    BY <1>1 DEF Reported, TypeOK, Job
  <2> QED
    BY <1>4, <2>1 DEF InForce, SetsPassword
<1>5. ASSUME NEW q \in Reported, Undone(q) PROVE Undone(q)'
  <2>1. PICK r \in Proc : Undoes(r, q)
    BY <1>5 DEF Undone
  <2>2. r # p /\ q \in Proc \ {p}
    BY <1>1, <2>1 DEF Undoes, Reported
  <2>3. Undoes(r, q)'
    BY <2>1, <2>2 DEF Undoes, SetsPassword
  <2> QED
    BY <2>3 DEF Undone
<1>6. ReportedChangeStays'
  <2> SUFFICES ASSUME NEW q \in Reported' PROVE InForce(q)' \/ Undone(q)'
    BY DEF ReportedChangeStays, Undone
  <2>1. CASE q = p
    BY <2>1 DEF Reported
  <2>2. CASE q # p
    BY <1>3, <1>4, <1>5, <2>2 DEF Kept, ReportedChangeStays, Undone
  <2> QED
    BY <2>1, <2>2
<1>7. ASSUME NEW q \in Proc PROVE Past(q)'
  <2>1. told'[q] \subseteq Reported' /\ over'[q] \subseteq Reported'
    BY <1>3 DEF Kept, Past
  <2>2. over'[q] # {} => pc'[q] \in {"ok", "failed"}
    BY <1>1 DEF Kept, Past
  <2> QED
    BY <2>1, <2>2 DEF Past
<1>8. ASSUME NEW q \in Proc PROVE Fresh(q)'
  <2> SUFFICES ASSUME pc'[q] = "save", NEW r \in told'[q], job'[q].loc = job'[r].loc
               PROVE  Loaded(q, r)' \/ Undone(r)'
    BY DEF Fresh
  <2>1. told'[q] = told[q] /\ r \in Reported /\ r \in Proc \ {p} /\ job'[r] = job[r]
    BY <1>1 DEF Kept, Past, Reported
  <2>2. CASE q = p
    <3>1. InForce(r) \/ Undone(r)
      BY <2>1 DEF Kept, ReportedChangeStays, Undone
    <3>2. ASSUME InForce(r) PROVE Loaded(q, r)'
      BY <2>1, <2>2, <3>2 DEF InForce, Loaded, SetsPassword
    <3> QED
      BY <1>5, <2>1, <3>1, <3>2
  <2>3. CASE q # p
    <3>1. pc[q] = "save" /\ job'[q] = job[q] /\ job[q].loc = job[r].loc
      BY <2>1, <2>3
    <3>2. Loaded(q, r) \/ Undone(r)
      BY <2>1, <3>1 DEF Kept, Fresh
    <3>3. Loaded(q, r) => Loaded(q, r)'
      BY <2>1, <3>1 DEF Loaded, SetsPassword
    <3> QED
      BY <1>5, <2>1, <3>2, <3>3
  <2> QED
    BY <2>2, <2>3
<1> QED
  BY <1>6, <1>7, <1>8 DEF Kept

\* A save: a change it undoes is of its own part, or was not reported yet when
\* its user answered the last prompt.
LEMMA SavedKept ==
  ASSUME Inv, Kept, NEW p \in Proc, NEW place \in {"ok", "failed"}, pc[p] = "save",
         Goto(p, place), StoreSession(p), UNCHANGED <<job, told>>
  PROVE  Kept'
<1>1. /\ TypeOK /\ Routed(p) /\ Held(p) /\ job[p] \in Job /\ job[p].loc \in Location
      /\ vault[job[p].loc] \in Config \cup {None}
  BY Facts
<1>2. /\ pc'[p] = place /\ \A q \in Proc \ {p} : pc'[q] = pc[q]
      /\ over'[p] = Reported /\ \A q \in Proc \ {p} : over'[q] = over[q]
      /\ vault'[job[p].loc] = job[p].conf
      /\ \A l \in Location \ {job[p].loc} : vault'[l] = vault[l]
  BY <1>1 DEF TypeOK, Goto, StoreSession, Store
<1>3. p \notin Reported /\ over[p] = {} /\ \A q \in Proc : p \notin told[q] /\ p \notin over[q]
  BY DEF Kept, Past, Reported
<1>4. Reported \subseteq Reported' /\ Reported' \subseteq Reported \cup {p}
  BY <1>2, <1>3 DEF Reported
<1>5. /\ job[p].conf # None /\ job[p].read \in Config /\ job[p].cmd \in Changes
      /\ job[p].conf = IF SetsPassword(p) THEN [job[p].read EXCEPT !.pw = job[p].new]
                       ELSE [job[p].read EXCEPT !.hw = job[p].new]
  BY <1>1 DEF TypeOK, Held, Routed
<1>6. IF SetsPassword(p) THEN job[p].conf.pw = job[p].new /\ job[p].conf.hw = job[p].read.hw
      ELSE job[p].conf.hw = job[p].new /\ job[p].conf.pw = job[p].read.pw
  BY <1>5 DEF Config
<1>7. InForce(p)'
  BY <1>2, <1>5, <1>6 DEF InForce, SetsPassword
<1>8. ASSUME NEW q \in Reported, Undone(q) PROVE Undone(q)'
  <2>1. PICK r \in Proc : Undoes(r, q)
    BY <1>8 DEF Undone
  <2>2. r # p
    BY <1>3, <2>1 DEF Undoes
  <2>3. Undoes(r, q)'
    BY <1>2, <2>1, <2>2 DEF Undoes, SetsPassword
  <2> QED
    BY <2>3 DEF Undone
<1>9. ASSUME NEW q \in Reported PROVE InForce(q)' \/ Undone(q)'
  <2>1. q \in Proc \ {p} /\ job[q].loc \in Location
    BY <1>1, <1>3 DEF Reported, TypeOK, Job
  <2>2. InForce(q) \/ Undone(q)
    BY DEF Kept, ReportedChangeStays, Undone
  <2>3. CASE job[q].loc # job[p].loc
    <3>1. InForce(q) => InForce(q)'
      BY <1>2, <2>1, <2>3 DEF InForce, SetsPassword
    <3> QED
      BY <1>8, <2>2, <3>1
  <2>4. CASE job[q].loc = job[p].loc /\ ((SetsPassword(p) <=> SetsPassword(q)) \/ q \notin told[p])
    <3>1. Undoes(p, q)'
      BY <1>2, <2>4 DEF Undoes, SetsPassword
    <3> QED
      BY <3>1 DEF Undone
  <2>5. CASE job[q].loc = job[p].loc /\ q \in told[p] /\ ~(SetsPassword(p) <=> SetsPassword(q))
    <3>1. Loaded(p, q) \/ Undone(q)
      BY <2>5 DEF Kept, Fresh
    <3>2. ASSUME Loaded(p, q) PROVE InForce(q)'
      <4>1. IF SetsPassword(q) THEN job[p].conf.pw = job[q].new ELSE job[p].conf.hw = job[q].new
        BY <1>6, <2>5, <3>2 DEF Loaded
      <4> QED
        BY <1>2, <1>5, <2>5, <4>1 DEF InForce, SetsPassword
    <3> QED
      BY <1>8, <3>1, <3>2
  <2> QED
    BY <2>3, <2>4, <2>5
<1>10. ReportedChangeStays'
  <2> SUFFICES ASSUME NEW q \in Reported' PROVE InForce(q)' \/ Undone(q)'
    BY DEF ReportedChangeStays, Undone
  <2> QED
    BY <1>4, <1>7, <1>9
<1>11. ASSUME NEW q \in Proc PROVE Past(q)' /\ Fresh(q)'
  <2>1. Past(q)'
    <3>1. told'[q] \subseteq Reported' /\ over'[q] \subseteq Reported'
      BY <1>2, <1>4 DEF Kept, Past
    <3>2. over'[q] # {} => pc'[q] \in {"ok", "failed"}
      BY <1>2 DEF Kept, Past
    <3> QED
      BY <3>1, <3>2 DEF Past
  <2>2. Fresh(q)'
    <3> SUFFICES ASSUME pc'[q] = "save", NEW r \in told'[q], job'[q].loc = job'[r].loc
                 PROVE  Loaded(q, r)' \/ Undone(r)'
      BY DEF Fresh
    <3>1. pc[q] = "save" /\ r \in told[q] /\ r \in Reported /\ job[q].loc = job[r].loc
      BY <1>2 DEF Kept, Past
    <3>2. Loaded(q, r) \/ Undone(r)
      BY <3>1 DEF Kept, Fresh
    <3>3. Loaded(q, r) => Loaded(q, r)'
      BY DEF Loaded, SetsPassword
    <3> QED
      BY <1>8, <3>1, <3>2, <3>3
  <2> QED
    BY <2>1, <2>2
<1> QED
  BY <1>10, <1>11 DEF Kept

\* Steps that change no vault: the command begins, waits or goes on.
LEMMA QuietKept ==
  ASSUME Inv, Kept, NEW p \in Proc, NEW place \in Place \ {"ok", "save"}, pc[p] \notin Ended,
         Goto(p, place), UNCHANGED <<vault, over>>,
         \A q \in Proc \ {p} : job'[q] = job[q] /\ told'[q] = told[q],
         told'[p] = told[p] \/ told'[p] = Reported
  PROVE  Kept'
<1>1. pc'[p] = place /\ \A q \in Proc \ {p} : pc'[q] = pc[q]
  BY DEF Inv, TypeOK, Goto
<1> QED
  BY <1>1, UnsavedKept DEF Inv

LEMMA BeginKept ==
  ASSUME Inv, Kept, NEW p \in Proc, NEW cmd, NEW l, NEW toFile,
         NEW place \in {"failed", "prompt", "tokens", "open"}, Begin(p, cmd, l, toFile, place)
  PROVE  Kept'
<1>1. /\ pc[p] \notin Ended /\ Goto(p, place) /\ UNCHANGED <<vault, over>>
      /\ \A q \in Proc : told'[q] = told[q]
      /\ \A q \in Proc \ {p} : job'[q] = job[q]
  BY DEF Inv, TypeOK, Begin, Ended, files, changed
<1> QED
  BY <1>1, QuietKept DEF Place, Ended

LEMMA AnswerKept ==
  ASSUME Inv, Kept, NEW p \in Proc, NEW x, NEW place \in {"tokens", "make", "open", "words"},
         Answer(p, x, place)
  PROVE  Kept'
<1>1. /\ pc[p] \notin Ended /\ Goto(p, place) /\ UNCHANGED <<vault, over>>
      /\ told'[p] = Reported
      /\ \A q \in Proc \ {p} : job'[q] = job[q] /\ told'[q] = told[q]
  BY DEF Inv, TypeOK, Answer, Ended, files
<1> QED
  BY <1>1, QuietKept DEF Place

LEMMA CreateKept ==
  ASSUME Inv, Kept, NEW p \in Proc, CreateStep(p)
  PROVE  Kept'
<1>0. /\ TypeOK /\ Routed(p) /\ job[p].loc \in Location
  BY Facts
<1>1. ASSUME NEW l \in Location, NEW toFile \in BOOLEAN, Create(p, l, toFile) PROVE Kept'
  BY <1>1, BeginKept DEF Create
<1>2. ASSUME NEW l \in Location, GDriveCreate(p, l) \/ DropboxCreate(p, l) \/ ICloudCreate(p, l)
      PROVE  Kept'
  BY <1>2, BeginKept DEF GDriveCreate, DropboxCreate, ICloudCreate
<1>3. ASSUME StoreVault(p), NEW place \in {"recheck", "show", "failed"}, Goto(p, place),
             \A q \in Proc \ {p} : job'[q] = job[q]
      PROVE  Kept'
  <2>1. pc[p] = "make" /\ pc'[p] = place /\ \A q \in Proc \ {p} : pc'[q] = pc[q]
    BY <1>0, <1>3 DEF TypeOK, Goto, StoreVault
  <2>2. /\ over' = over /\ told' = told
        /\ \A l \in Location : vault'[l] = vault[l] \/ vault[l] = None
    BY <1>0, <1>3 DEF TypeOK, StoreVault, Store, changed
  <2> QED
    BY <1>0, <1>3, <2>1, <2>2, UnsavedKept DEF Ended
<1>4. CASE MakeVault(p)
  BY <1>0, <1>3, <1>4 DEF MakeVault, TypeOK
<1>5. CASE MakeVaultFails(p)
  BY <1>3, <1>5 DEF MakeVaultFails
<1>6. CASE Recheck(p)
  BY <1>6, QuietKept DEF Recheck, Place, Ended, files, history, changed
<1>7. CASE Publish(p)
  <2>1. /\ pc[p] = "publish" /\ job[p].cmd \notin Changes
        /\ UNCHANGED <<vault, job, told, over>>
        /\ \A q \in Proc \ {p} : pc'[q] = pc[q]
        /\ pc'[p] # "save"
    BY <1>0, <1>7 DEF TypeOK, Routed, Creates, Changes, Publish, Goto, changed
  <2> QED
    BY <1>0, <2>1, UnsavedKept DEF Ended
<1> QED
  BY <1>1, <1>2, <1>4, <1>5, <1>6, <1>7 DEF CreateStep

\* The vault was opened; what the command holds of it is what is stored.
LEMMA OpenedKept ==
  ASSUME Inv, Kept, NEW p \in Proc, NEW v, NEW c, NEW conf, NEW place \in {"ok", "show", "save"},
         pc[p] \in {"open", "words"}, v = vault[job[p].loc], v # None,
         Session(p, v, c, conf), Goto(p, place), UNCHANGED <<files, history>>,
         place = "ok" => \/ job[p].cmd \notin Changes
                         \/ ~SetsPassword(p) /\ v.hw = job[p].new
  PROVE  Kept'
<1>1. TypeOK /\ job[p] \in Job /\ job[p].loc \in Location
  BY Facts
<1>2. /\ pc'[p] = place
      /\ \A q \in Proc \ {p} : pc'[q] = pc[q] /\ job'[q] = job[q]
      /\ job'[p] = [job[p] EXCEPT !.cred = c, !.read = v, !.conf = conf]
  BY <1>1 DEF TypeOK, Goto, Session
<1>3. /\ job'[p].cmd = job[p].cmd /\ job'[p].loc = job[p].loc /\ job'[p].new = job[p].new
      /\ job'[p].read = v
  BY <1>1, <1>2 DEF Job
<1>4. UNCHANGED <<vault, told, over>>
  BY DEF files, history, changed
<1>5. pc'[p] = "ok" => job'[p].cmd \notin Changes \/ InForce(p)'
  BY <1>2, <1>3, <1>4 DEF InForce, SetsPassword
<1> QED
  BY <1>1, <1>2, <1>3, <1>4, <1>5, UnsavedKept DEF Ended

LEMMA OpenKept ==
  ASSUME Inv, Kept, NEW p \in Proc, OpenStep(p)
  PROVE  Kept'
<1>0. TypeOK /\ Routed(p) /\ Held(p)
  BY Facts
<1>1. ASSUME NEW l \in Location,
             Use(p, l) \/ GDriveOpen(p, l) \/ DropboxOpen(p, l) \/ ICloudOpen(p, l) \/ ShowKey(p, l)
      PROVE  Kept'
  BY <1>1, BeginKept DEF Use, GDriveOpen, DropboxOpen, ICloudOpen, ShowKey
<1>2. ASSUME NEW l \in Location, NEW cmd \in Responds, LoadConfig(p, l, cmd)
      PROVE  Kept'
  <2>1. PICK place \in {"failed", "respond"} : Goto(p, place)
    BY <1>2 DEF LoadConfig
  <2>2. /\ pc[p] \notin Ended /\ UNCHANGED <<vault, told, over>>
        /\ \A q \in Proc \ {p} : job'[q] = job[q]
    BY <1>0, <1>2 DEF TypeOK, LoadConfig, Ended, files, changed
  <2> QED
    BY <2>1, <2>2, QuietKept DEF Place, Ended
<1>3. CASE OpenVault(p)
  <2> DEFINE v == vault[job[p].loc]
  <2>1. /\ pc[p] = "open" /\ v # None /\ Proceed(p, v) /\ UNCHANGED <<files, history>>
    BY <1>3 DEF OpenVault
  <2> HIDE DEF v
  <2>2. ASSUME NEW conf, NEW place \in {"ok", "show", "save"},
               Session(p, v, v.pw, conf), Goto(p, place),
               place = "ok" => job[p].cmd \in Uses \/ (job[p].cmd = "remove" /\ v.hw = None)
        PROVE  Kept'
    <3>1. place = "ok" => job[p].cmd \notin Changes \/ (~SetsPassword(p) /\ v.hw = job[p].new)
      BY <1>0, <2>1, <2>2 DEF Held, SetsPassword, Uses, Changes
    <3> QED
      BY <2>1, <2>2, <3>1, OpenedKept DEF v
  <2> QED
    BY <2>1, <2>2 DEF Proceed
<1>4. CASE OpenWithWords(p)
  BY <1>4, OpenedKept DEF OpenWithWords
<1>5. CASE Respond(p)
  <2>1. /\ pc[p] = "respond" /\ job[p].cmd \notin Changes /\ pc'[p] = "ok"
        /\ UNCHANGED <<vault, told, over>>
        /\ \A q \in Proc \ {p} : pc'[q] = pc[q] /\ job'[q] = job[q]
    BY <1>0, <1>5 DEF TypeOK, Routed, Responds, Changes, Respond, Goto, files, history, changed
  <2>2. job'[p].cmd = job[p].cmd
    BY <1>0, <1>5 DEF TypeOK, Respond, Job
  <2> QED
    BY <1>0, <2>1, <2>2, UnsavedKept DEF Ended
<1> QED
  BY <1>1, <1>2, <1>3, <1>4, <1>5 DEF OpenStep

LEMMA ChangeKept ==
  ASSUME Inv, Kept, NEW p \in Proc, ChangeStep(p)
  PROVE  Kept'
<1>1. ASSUME NEW l \in Location,
             ChangePassword(p, l) \/ Reset(p, l) \/ Enroll(p, l) \/ Remove(p, l)
      PROVE  Kept'
  BY <1>1, BeginKept DEF ChangePassword, Reset, Enroll, Remove
<1>2. CASE ReadResponse(p) \/ ReadPassword(p)
  BY <1>2, AnswerKept DEF ReadResponse, ReadPassword
<1>3. CASE SaveConfig(p)
  BY <1>3, SavedKept DEF SaveConfig
<1>4. CASE SaveFails(p)
  <2>1. pc[p] = "save" /\ Goto(p, "failed") /\ UNCHANGED <<job, told>>
    BY <1>4 DEF SaveFails
  <2>2. CASE StoreSession(p)
    BY <2>1, <2>2, SavedKept
  <2>3. CASE UNCHANGED <<vault, valid, over>>
    BY <2>1, <2>3, QuietKept DEF Place, Ended
  <2> QED
    BY <1>4, <2>2, <2>3 DEF SaveFails
<1> QED
  BY <1>1, <1>2, <1>3, <1>4 DEF ChangeStep

LEMMA CommonKept ==
  ASSUME Inv, Kept, NEW p \in Proc, CommonStep(p)
  PROVE  Kept'
<1>0. TypeOK /\ Routed(p) /\ Printed(p)
  BY Facts
<1>1. CASE NewPassword(p)
  <2>1. PICK pw \in Password, place \in {"tokens", "make", "open", "words"} : Answer(p, pw, place)
    BY <1>1 DEF NewPassword, Creates, Remote
  <2> QED
    BY <2>1, AnswerKept
<1>2. CASE LoadTokens(p)
  BY <1>2, QuietKept DEF LoadTokens, Place, Ended, files, history, changed
<1>3. CASE Show(p)
  <2>1. /\ pc[p] = "show" /\ job[p].cmd \notin Changes /\ pc'[p] = "ok"
        /\ UNCHANGED <<vault, job, told, over>>
        /\ \A q \in Proc \ {p} : pc'[q] = pc[q]
    BY <1>0, <1>3 DEF TypeOK, Routed, Creates, Changes, Show, Goto, files, changed
  <2> QED
    BY <1>0, <2>1, UnsavedKept DEF Ended
<1>4. CASE GivesUp(p)
  BY <1>4, QuietKept DEF GivesUp, Place, Ended, files, history, changed
<1>5. CASE Kill(p)
  BY <1>5, QuietKept DEF Kill, Place, Ended, files, history, changed
<1> QED
  BY <1>1, <1>2, <1>3, <1>4, <1>5 DEF CommonStep

LEMMA InitKept == Init => Kept
<1> SUFFICES ASSUME Init PROVE Kept
  OBVIOUS
<1>1. Reported = {}
  BY DEF Init, Reported
<1>2. \A p \in Proc : pc[p] = "idle" /\ told[p] = {} /\ over[p] = {}
  BY DEF Init
<1> QED
  BY <1>1, <1>2 DEF Kept, ReportedChangeStays, Past, Fresh

LEMMA StepKept == Inv /\ Kept /\ [Next]_vars => Kept'
<1> SUFFICES ASSUME Inv, Kept, [Next]_vars PROVE Kept'
  OBVIOUS
<1>1. ASSUME UNCHANGED <<vault, pc, job, told, over>> PROVE Kept'
  BY <1>1 DEF Kept, ReportedChangeStays, Past, Fresh, Reported, InForce, Undone, Undoes, Loaded,
              SetsPassword
<1>2. CASE OtherProgram
  BY <1>1, <1>2 DEF OtherProgram, changed
<1>3. CASE UNCHANGED vars
  BY <1>1, <1>3 DEF vars
<1> QED
  BY <1>2, <1>3, CreateKept, OpenKept, ChangeKept, CommonKept DEF Next

\* For any number of commands: a reported change of the password or of the
\* hardware key stays, until a later command changes the same part or one saves
\* whose user had answered its last prompt before the report.
THEOREM ChangesStay == Spec => []ReportedChangeStays
<1>1. Kept => ReportedChangeStays
  BY DEF Kept
<1>2. Spec => []Kept
  BY Invariant, InitKept, StepKept, PTL DEF Spec
<1> QED
  BY <1>1, <1>2, PTL
=============================================================================
