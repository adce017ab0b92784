------------------------------- MODULE Mounts -------------------------------
(***************************************************************************)
(* The processes behind `axiom mount fuse` (fuse.rs) and `axiom mount      *)
(* webdav` (webdav.rs), from their start to their end.                     *)
(*                                                                         *)
(* A FUSE process mounts, then installs its signal handlers, then waits    *)
(* for a signal or for somebody else to unmount, which it finds by         *)
(* polling.  External, and modelled by what the code relies on: the kernel *)
(* (mounts of one point lie one over the other and unmounting takes the    *)
(* top one; a signal nobody handles ends the process; a dead process's     *)
(* mount stays unless AutoUnmount was asked for), the axiomvault_fuse      *)
(* crate (a thread that ends when its mount is gone, an unmount that joins *)
(* it) and tokio's signals (a stream made by signal() keeps what arrives   *)
(* between two polls of it; a ctrl_c() future hears only what arrives      *)
(* while it exists).                                                       *)
(***************************************************************************)
EXTENDS Naturals, Sequences, SequencesExt

CONSTANTS
  Proc,     \* process ids
  Alien,    \* FUSE mounts of other programs
  Point,    \* directories to mount on
  Args,     \* the command lines in use
  MaxActs   \* bound: how often other programs mount or unmount

Sig == {"TERM", "HUP", "INT"}

VARIABLES
  pc,        \* where each process is
  arg,       \* its arguments
  caught,    \* signals its handlers have received and it has not looked at
  finished,  \* processes whose FUSE thread has ended
  table,     \* the mount table, in the kernel's order
  acts,      \* how often other programs have mounted or unmounted
  pressed,   \* history: processes in the loop whose user pressed Ctrl+C there
  sigint     \* running processes whose handler of SIGINT is installed

procs == <<pc, arg, caught, finished, pressed, sigint>>
mountsVars == <<pc, arg, caught, finished, table, acts, pressed, sigint>>

Ended == {"ok", "error", "died", "killed"}
Loop == {"turn", "wait"}
Mounted == {"mounted", "term", "unmounting", "joining"} \cup Loop
Place == {"idle", "password", "opened", "listening"} \cup Mounted \cup Ended
Running(p) == pc[p] \notin {"idle"} \cup Ended

\* Life as others see it.
Seen(place) ==
  CASE place = "idle" -> "idle"
    [] place \in {"password", "opened"} -> "starting"
    [] place \in Ended -> "gone"
    [] OTHER -> "serving"
Life == INSTANCE MountLife WITH state <- [p \in Proc |-> Seen(pc[p])]

ASSUME MountsConstants ==
  /\ Alien \cap Proc = {}
  /\ Args \subseteq Life!Argument
  /\ MaxActs \in Nat

InTable(x) == Life!In(table, x)
\* Another mount lies over p's.
Covered(p) ==
  \E i, j \in 1..Len(table) : i < j /\ table[i].by = p /\ table[j].at = table[i].at

MountsTypeOK ==
  /\ pc \in [Proc -> Place]
  /\ arg \in [Proc -> Args]
  /\ caught \in [Proc -> SUBSET Sig]
  /\ finished \subseteq Proc
  /\ table \in Seq(Life!Mounting)
  /\ acts \in 0..MaxActs
  /\ pressed \subseteq Proc
  /\ sigint \subseteq Proc
  /\ \A p \in Proc : caught[p] # {} => pc[p] \in {"term"} \cup Loop

MountsInit ==
  /\ pc = [p \in Proc |-> "idle"]
  /\ arg \in [Proc -> Args]
  /\ caught = [p \in Proc |-> {}]
  /\ finished = {}
  /\ table = <<>>
  /\ acts = 0
  /\ pressed = {}
  /\ sigint = {}

-----------------------------------------------------------------------------
(* The mount table. *)

\* AutoUnmount goes with allow_other only (auto_unmount_enabled).
AutoUnmounts(p) == arg[p].share

\* x's own mount is taken away.
Drop(x) == \E i \in 1..Len(table) : table[i].by = x /\ table' = RemoveAt(table, i)

\* Unmounting a point takes away the mount on top.
Detach(at) ==
  \E i \in 1..Len(table) :
    /\ table[i].at = at
    /\ \A j \in i + 1..Len(table) : table[j].at # at
    /\ table' = RemoveAt(table, i)

-----------------------------------------------------------------------------
(* A process. *)

Goto(p, place) == pc' = [pc EXCEPT ![p] = place]

\* p leaves the loop or ends: nobody looks at its signals any more.
Leave(p, place) ==
  /\ Goto(p, place)
  /\ caught' = [caught EXCEPT ![p] = {}]
  /\ pressed' = pressed \ {p}
  /\ sigint' = IF place \in Ended THEN sigint \ {p} ELSE sigint

Start(p) ==
  /\ pc[p] = "idle"
  /\ Goto(p, "password")
  /\ UNCHANGED <<arg, caught, finished, table, acts, pressed, sigint>>

\* The password was right: the vault is open.
OpenVault(p) ==
  /\ pc[p] = "password"
  /\ Goto(p, "opened")
  /\ UNCHANGED <<arg, caught, finished, table, acts, pressed, sigint>>

\* FUSE is not available, no password, a wrong one, mount or bind refused.
GivesUp(p) ==
  /\ pc[p] \in {"password", "opened"}
  /\ Goto(p, "error")
  /\ UNCHANGED <<arg, caught, finished, table, acts, pressed, sigint>>

\* webdav: the server's socket listens; start() runs until it fails or stops.
Serve(p) ==
  /\ pc[p] = "opened" /\ arg[p].kind = "webdav"
  /\ Goto(p, "listening")
  /\ UNCHANGED <<arg, caught, finished, table, acts, pressed, sigint>>

ServeEnds(p) ==
  /\ pc[p] = "listening"
  /\ Goto(p, "ok") \/ Goto(p, "error")
  /\ UNCHANGED <<arg, caught, finished, table, acts, pressed, sigint>>

\* fuse: from here on the point is mounted and the user told of Ctrl+C.
Mount(p) ==
  /\ pc[p] = "opened" /\ arg[p].kind = "fuse"
  /\ Goto(p, "mounted")
  /\ table' = Append(table, [by |-> p, at |-> arg[p].at])
  /\ UNCHANGED <<arg, caught, finished, acts, pressed, sigint>>

InstallTerm(p) ==
  /\ pc[p] = "mounted"
  /\ Goto(p, "term")
  /\ UNCHANGED <<arg, caught, finished, table, acts, pressed, sigint>>

InstallHup(p) ==
  /\ pc[p] = "term"
  /\ Goto(p, "turn")
  /\ UNCHANGED <<arg, caught, finished, table, acts, pressed, sigint>>

\* A handler could not be installed: the command fails with the mount in place.
\* Dropping its handle may unmount or not.
InstallFails(p) ==
  /\ pc[p] \in {"mounted", "term", "turn"}
  /\ p \notin sigint
  /\ Leave(p, "error")
  /\ UNCHANGED table \/ Drop(p)
  /\ UNCHANGED <<arg, finished, acts>>

\* In a turn of the loop select! polls its branches in random order until one is
\* ready.  Once it comes to the new ctrl_c() that one listens; the first such poll
\* also installs the handler of SIGINT.
Select(p) ==
  /\ pc[p] = "turn"
  /\ Goto(p, "wait")
  /\ sigint' = sigint \cup {p}
  /\ UNCHANGED <<arg, caught, finished, table, acts, pressed>>

\* Mutant: a signal ends the command and the unmount is left to the kernel.
WakeAndExit(p) ==
  /\ pc[p] \in Loop /\ caught[p] # {}
  /\ Leave(p, "ok")
  /\ UNCHANGED <<arg, finished, table, acts>>

\* One of the three signal branches breaks the loop, perhaps before ctrl_c() was
\* polled in this turn.
Wake(p) ==
  /\ pc[p] \in Loop /\ caught[p] # {}
  /\ Leave(p, "unmounting")
  /\ UNCHANGED <<arg, finished, table, acts>>

\* Mutant: all three futures are made anew for every turn of the loop.
TickForgets(p) ==
  /\ pc[p] \in Loop
  /\ IF p \in finished
     THEN Leave(p, "unmounting")
     ELSE /\ Goto(p, "turn")
          /\ caught' = [caught EXCEPT ![p] = {}]
          /\ UNCHANGED <<pressed, sigint>>
  /\ UNCHANGED <<arg, finished, table, acts>>

\* Mutant: the loop waits for signals only.
TickBlind(p) ==
  /\ pc[p] \in Loop
  /\ Goto(p, "turn")
  /\ caught' = [caught EXCEPT ![p] = @ \ {"INT"}]
  /\ UNCHANGED <<arg, finished, table, acts, pressed, sigint>>

\* The poll's branch is taken, which it may be although a signal is there too:
\* the ctrl_c() future is dropped with what it has heard, or was not polled at
\* all, as when the first tick, due at once, comes first.
Tick(p) ==
  /\ pc[p] \in Loop
  /\ IF p \in finished
     THEN Leave(p, "unmounting")
     ELSE /\ Goto(p, "turn")
          /\ caught' = [caught EXCEPT ![p] = @ \ {"INT"}]
          /\ UNCHANGED <<pressed, sigint>>
  /\ UNCHANGED <<arg, finished, table, acts>>

\* Mutant: everything mounted at the point is unmounted.
UnmountAll(p) ==
  /\ pc[p] = "unmounting"
  /\ Goto(p, "joining")
  /\ table' = SelectSeq(table, LAMBDA m : m.at # arg[p].at)
  /\ UNCHANGED <<arg, caught, finished, acts, pressed, sigint>>

\* handle.unmount(): nothing is left to unmount, or the point is.
Unmount(p) ==
  /\ pc[p] = "unmounting"
  /\ Goto(p, "joining")
  /\ IF InTable(p) THEN Detach(arg[p].at) ELSE UNCHANGED table
  /\ UNCHANGED <<arg, caught, finished, acts, pressed, sigint>>

Join(p) ==
  /\ pc[p] = "joining" /\ p \in finished
  /\ Goto(p, "ok")
  /\ sigint' = sigint \ {p}
  /\ UNCHANGED <<arg, caught, finished, table, acts, pressed>>

ThreadEnds(p) ==
  /\ pc[p] \in Mounted
  /\ p \notin finished
  /\ ~InTable(p)
  /\ finished' = finished \cup {p}
  /\ UNCHANGED <<pc, arg, caught, table, acts, pressed, sigint>>

-----------------------------------------------------------------------------
(* What happens to a process. *)

\* A handler is installed, and stays until the process ends.
Handled(p, sig) ==
  CASE sig = "INT" -> p \in sigint
    [] sig = "TERM" -> pc[p] \in Mounted \ {"mounted"}
    [] sig = "HUP" -> pc[p] \in Mounted \ {"mounted", "term"}

\* Mutant: signals are collected for as long as their handlers are there.
ListeningOn(p, sig) == pc[p] \in Mounted

\* A stream or future of the loop would notice the signal.
Listening(p, sig) == IF sig = "INT" THEN pc[p] = "wait" ELSE pc[p] \in {"term"} \cup Loop

Signal(p, sig) ==
  /\ Running(p)
  /\ IF Handled(p, sig)
     THEN /\ caught' = IF Listening(p, sig) THEN [caught EXCEPT ![p] = @ \cup {sig}] ELSE caught
          /\ pressed' = IF sig = "INT" /\ pc[p] \in Loop THEN pressed \cup {p} ELSE pressed
          /\ UNCHANGED <<pc, sigint>>
     ELSE Leave(p, "died")
  /\ UNCHANGED <<arg, finished, table, acts>>

Kill(p) ==
  /\ Running(p)
  /\ Leave(p, "killed")
  /\ UNCHANGED <<arg, finished, table, acts>>

\* The helper of a dead process with AutoUnmount unmounts for it.
AutoUnmount(p) ==
  /\ pc[p] \in Ended /\ AutoUnmounts(p)
  /\ Drop(p)
  /\ UNCHANGED <<procs, acts>>

\* Somebody runs `fusermount3 -u` on a point.
OutsideUnmount(at) ==
  /\ acts < MaxActs
  /\ Detach(at)
  /\ acts' = acts + 1
  /\ UNCHANGED procs

AlienMount(x, at) ==
  /\ acts < MaxActs
  /\ ~InTable(x)
  /\ table' = Append(table, [by |-> x, at |-> at])
  /\ acts' = acts + 1
  /\ UNCHANGED procs

\* What the process does by itself once it has its password.
Own(p) ==
  \/ InstallTerm(p) \/ InstallHup(p) \/ Select(p) \/ Tick(p) \/ Unmount(p) \/ Join(p)

MountsNext ==
  \/ \E p \in Proc :
       \/ Start(p) \/ OpenVault(p) \/ GivesUp(p) \/ Serve(p) \/ ServeEnds(p) \/ Mount(p)
       \/ InstallFails(p) \/ Wake(p) \/ Own(p) \/ ThreadEnds(p)
       \/ \E sig \in Sig : Signal(p, sig)
       \/ Kill(p) \/ AutoUnmount(p)
  \/ \E at \in Point : OutsideUnmount(at) \/ \E x \in Alien : AlienMount(x, at)

\* Nothing is assumed of users, of passwords or of other programs.  select! polls
\* its branches in random order, so a signal that stays is looked at in the end.
MountsFairness ==
  \A p \in Proc :
    /\ WF_mountsVars(Own(p))
    /\ WF_mountsVars(ThreadEnds(p))
    /\ SF_mountsVars(Wake(p))

MountsSpec == MountsInit /\ [][MountsNext]_mountsVars /\ MountsFairness

-----------------------------------------------------------------------------
(* Properties. *)

\* A mount whose process is not serving it was left behind by one that was
\* killed, that got a signal it had no handler for yet, or that could not install
\* one (fuse.rs:58-60): never by one that reached its unmount (80-90), whatever
\* signals came and whoever else unmounted meanwhile.
LeftBehind ==
  \A p \in Proc : InTable(p) =>
    /\ pc[p] \in Mounted \cup {"killed", "died", "error"}
    /\ p \notin finished

\* To others the process starts, serves and is gone, and changes no mount but one
\* at a time.
ImplementsLife == Life!LifeSpec

\* SIGTERM and SIGHUP, once their handlers are there, end the command, however
\* the signals, the polling and the unmounts of others fall together; unless
\* another mount was put over this one.
SignalUnmounts ==
  \A p \in Proc : (caught[p] \cap {"TERM", "HUP"} # {})
                    ~> (pc[p] \in Ended \/ Covered(p))

\* A mount that somebody else took away ends its command (fuse.rs:61-62).
OutsideUnmountEnds ==
  \A p \in Proc : (pc[p] \in Loop /\ ~InTable(p)) ~> pc[p] \in Ended

\* fuse.rs:56: "Press Ctrl+C to unmount."
CtrlCUnmounts ==
  \A p \in Proc : p \in pressed ~> (pc[p] \in Ended \/ Covered(p))
=============================================================================
