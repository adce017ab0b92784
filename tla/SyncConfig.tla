----------------------------- MODULE SyncConfig -----------------------------
(***************************************************************************)
(* `axiom sync configure` (sync.rs, conversions.rs): several runs on one   *)
(* vault that write sync_config.json in place, and any of which can fail   *)
(* or be killed on the way.                                                *)
(*                                                                         *)
(* The text of a configuration is its mode, as many cells long as it has   *)
(* blocks; the periodic modes carry an interval and are the longer ones.   *)
(***************************************************************************)
EXTENDS Naturals, SequencesExt

CONSTANTS
  Run,  \* runs of the command
  Asks  \* the modes and intervals they are given

SyncMode == {"manual", "on-demand", "periodic", "hybrid"}
Interval == {"none", "zero", "some"}

Hole == "hole"  \* a cell nobody has written, before one that was
NoFile == <<"absent">>
NoRun == "none"

ASSUME SyncConfigAssumption ==
  /\ Asks \subseteq [mode : SyncMode, interval : Interval]
  /\ NoRun \notin Run

VARIABLES
  asked,    \* the mode and the interval given to each run
  syncing,  \* where each run is
  offset,   \* how much of its text it has written
  syncDir,  \* .axiom_sync is there
  config,   \* sync_config.json: its cells, or NoFile
  last,     \* history: the run that finished last
  torn,     \* history: since the last undisturbed run, runs overlapped or broke off
  touched   \* history: the runs that changed the disk

syncVars == <<asked, syncing, offset, syncDir, config, last, torn, touched>>

\* sync_mode_from: the periodic modes need an interval above zero.
Accepted(a) == a.mode \in {"periodic", "hybrid"} => a.interval = "some"

Size(m) == IF m \in {"periodic", "hybrid"} THEN 3 ELSE 2
TextOf(m) == [i \in 1..Size(m) |-> m]
MyText(r) == TextOf(asked[r].mode)

SyncTypeOK ==
  /\ asked \in [Run -> Asks]
  /\ syncing \in [Run -> {"start", "dir", "open", "write", "done", "refused", "failed", "killed"}]
  /\ offset \in [Run -> 0..3] /\ \A r \in Run : offset[r] <= Len(MyText(r))
  /\ syncDir \in BOOLEAN
  /\ config = NoFile \/ (config \in Seq(SyncMode \cup {Hole}) /\ syncDir)
  /\ last \in Run \cup {NoRun} /\ torn \in BOOLEAN /\ touched \subseteq Run

SyncInit ==
  /\ asked \in [Run -> Asks]
  /\ syncing = [r \in Run |-> "start"] /\ offset = [r \in Run |-> 0]
  /\ syncDir = FALSE /\ config = NoFile
  /\ last = NoRun /\ torn = FALSE /\ touched = {}

Writing(r) == syncing[r] = "write"

\* The mode is checked before anything is touched.
Validate(r) ==
  /\ syncing[r] = "start"
  /\ syncing' = [syncing EXCEPT ![r] = IF Accepted(asked[r]) THEN "dir" ELSE "refused"]
  /\ UNCHANGED <<asked, offset, syncDir, config, last, torn, touched>>

MakeDir(r) ==
  /\ syncing[r] = "dir"
  /\ syncDir' = TRUE
  /\ touched' = IF syncDir THEN touched ELSE touched \cup {r}
  /\ syncing' = [syncing EXCEPT ![r] = "open"]
  /\ UNCHANGED <<asked, offset, config, last, torn>>

\* Mutant: the file is not emptied.
TruncateNot(r) ==
  /\ syncing[r] = "open"
  /\ config' = IF config = NoFile THEN <<>> ELSE config
  /\ syncing' = [syncing EXCEPT ![r] = "write"]
  /\ torn' = \E q \in Run : Writing(q)
  /\ touched' = touched \cup {r}
  /\ UNCHANGED <<asked, offset, syncDir, last>>

\* fs::write opens the file and empties it.  What was wrong with it is gone,
\* unless another run is writing.
Truncate(r) ==
  /\ syncing[r] = "open"
  /\ config' = <<>>
  /\ syncing' = [syncing EXCEPT ![r] = "write"]
  /\ torn' = \E q \in Run : Writing(q)
  /\ touched' = touched \cup {r}
  /\ UNCHANGED <<asked, offset, syncDir, last>>

\* One write call: the cells from the run's offset up to n.
WriteCells(r, n) ==
  /\ Writing(r)
  /\ n \in offset[r] + 1..Len(MyText(r))
  /\ config' = [i \in 1..(IF n > Len(config) THEN n ELSE Len(config)) |->
                  IF i > offset[r] /\ i <= n THEN asked[r].mode
                  ELSE IF i <= Len(config) THEN config[i] ELSE Hole]
  /\ offset' = [offset EXCEPT ![r] = n]
  /\ UNCHANGED <<asked, syncing, syncDir, last, torn, touched>>

Written(r) ==
  /\ Writing(r) /\ offset[r] = Len(MyText(r))
  /\ syncing' = [syncing EXCEPT ![r] = "done"]
  /\ last' = r
  /\ UNCHANGED <<asked, offset, syncDir, config, torn, touched>>

\* The directory, the file or a write fails (a full disk), or the run is killed.
BreakOff(r, how) ==
  /\ syncing[r] \in {"start", "dir", "open", "write"}
  /\ how = "failed" => syncing[r] # "start"
  /\ syncing' = [syncing EXCEPT ![r] = how]
  /\ torn' = (torn \/ Writing(r))
  /\ UNCHANGED <<asked, offset, syncDir, config, last, touched>>

SyncNext ==
  \E r \in Run :
    \/ Validate(r) \/ MakeDir(r) \/ Truncate(r) \/ Written(r)
    \/ \E n \in 1..3 : WriteCells(r, n)
    \/ \E how \in {"failed", "killed"} : BreakOff(r, how)

SyncSpec == SyncInit /\ [][SyncNext]_syncVars

-----------------------------------------------------------------------------
(* Properties. *)

\* The file says exactly what the run that finished last was asked, in a mode
\* that has its interval, unless a run is writing, or the last one overlapped
\* with another or broke off while it wrote in place: then it can be empty, cut
\* short or a mixture, and no later check notices.
ConfigIsLast ==
  (\A r \in Run : ~Writing(r)) /\ ~torn =>
    IF last = NoRun THEN config = NoFile
    ELSE config = MyText(last) /\ Accepted(asked[last])

\* A refused mode or interval leaves the disk as it was.
RefusedChangesNothing == \A r \in Run : syncing[r] = "refused" => r \notin touched
=============================================================================
