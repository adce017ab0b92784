----------------------------- MODULE MountList -----------------------------
(***************************************************************************)
(* `axiom mount list` (mount_list.rs) while the processes and mounts it    *)
(* lists come and go.                                                      *)
(*                                                                         *)
(* On Linux it reads /proc process by process, then the sockets of each    *)
(* webdav process, then the mount table in one read, and puts together     *)
(* what it saw at different times.  On macOS it takes one `ps` and asks    *)
(* lsof about each webdav process.  Command lines and kernel tables are    *)
(* read as what they mean: CommandLine has their syntax.  A vault path is  *)
(* known by its process; a mount of `axiom` is known by its source.        *)
(***************************************************************************)
EXTENDS MountLife, FiniteSets

CONSTANTS Home  \* the points under the home directory

NoPid == 0
NoPoint == "none"

ASSUME ListAssumption ==
  /\ Home \subseteq Point /\ NoPoint \notin Point
  /\ IsFiniteSet(Proc) /\ IsFiniteSet(Alien)

VARIABLES
  os,      \* the system it runs on
  at,      \* where the listing is
  todo,    \* processes it has not come to
  claims,  \* what the command lines ask for, in the order found
  next,    \* the claim, later the mount, that is looked at
  socket,  \* its process held a listening socket when its fds were read
  waiting, \* fuse claims that have no mount yet (fuse_procs)
  mounts,  \* the mount table as it was read
  rows,    \* the rows collected
  steady,  \* history: what has been there ever since the listing began
  ever,    \* history: what was there at some time since
  blank    \* history: the mount table could not be read

listVars == <<os, at, todo, claims, next, socket, waiting, mounts, rows>>
history == <<steady, ever, blank>>
vars == <<lifeVars, listVars, history>>

Row == [kind : Kind, pid : Proc \cup {NoPid}, at : Point \cup {NoPoint},
        state : {"starting", "listening", "mounted", "unidentified"}]
Claim == [pid : Proc, kind : Kind, names : Point \cup {NoPoint}]

TypeOK ==
  /\ os \in {"linux", "macos"}
  /\ at \in {"idle", "scan", "cwd", "fds", "tcp", "match", "done", "failed"}
  /\ todo \subseteq Proc
  /\ claims \in Seq(Claim) /\ Len(claims) <= Cardinality(Proc)
  /\ next \in 1..(IF at \in {"match", "done"} THEN Len(mounts) ELSE Len(claims)) + 1
  /\ socket \in BOOLEAN
  /\ waiting \subseteq 1..Len(claims)
  /\ mounts \in Seq(Mounting)
  /\ rows \in Seq(Row)

Alive(p) == state[p] \in {"starting", "serving"}
Listens(p) == state[p] = "serving" /\ arg[p].kind = "webdav"

\* What there is to see: processes, listeners and mounts.
Things ==
  {<<"run", p>> : p \in {q \in Proc : Alive(q)}}
  \cup {<<"listen", p>> : p \in {q \in Proc : Listens(q)}}
  \cup {<<"mount", m.by, m.at>> : m \in {table[i] : i \in 1..Len(table)}}

Observe ==
  /\ steady' = steady \cap Things'
  /\ ever' = ever \cup Things'
  /\ UNCHANGED blank

Init ==
  /\ LifeInit
  /\ os \in {"linux", "macos"}
  /\ at = "idle"
  /\ todo = {} /\ claims = <<>> /\ next = 1 /\ socket = FALSE
  /\ waiting = {} /\ mounts = <<>> /\ rows = <<>>
  /\ steady = {} /\ ever = {} /\ blank = FALSE

-----------------------------------------------------------------------------
(* Linux. *)

Begin ==
  /\ at = "idle"
  /\ at' = IF os = "linux" THEN "scan" ELSE "cwd"
  /\ todo' = Proc
  /\ steady' = Things /\ ever' = Things
  /\ UNCHANGED <<lifeVars, os, claims, next, socket, waiting, mounts, rows, blank>>

\* /proc gives the process ids in order.
Least(p) == p \in todo /\ \A q \in todo : p <= q

\* The command line of the next process: skipped if the process is gone, is
\* somebody else's or is not there yet.
ReadCmdline(p) ==
  /\ os = "linux" /\ at = "scan"
  /\ Least(p)
  /\ IF Alive(p) /\ arg[p].mine
     THEN at' = "cwd" /\ UNCHANGED todo
     ELSE todo' = todo \ {p} /\ UNCHANGED at
  /\ UNCHANGED <<os, claims, next, socket, waiting, mounts, rows>>

\* Mutant: relative paths are left as they are.
ReadCwdUnresolved(p) ==
  /\ os = "linux" /\ at = "cwd"
  /\ Least(p)
  /\ LET named == arg[p].spelled = "canonical"
     IN  claims' = Append(claims, [pid |-> p, kind |-> arg[p].kind,
                                   names |-> IF named THEN arg[p].at ELSE NoPoint])
  /\ todo' = todo \ {p}
  /\ at' = "scan"
  /\ UNCHANGED <<os, next, socket, waiting, mounts, rows>>

\* Mutant: each of the process's two paths makes a claim.
ReadCwdTwice(p) ==
  /\ os = "linux" /\ at = "cwd"
  /\ Least(p)
  /\ LET c == [pid |-> p, kind |-> arg[p].kind, names |-> arg[p].at]
     IN  claims' = claims \o <<c, c>>
  /\ todo' = todo \ {p}
  /\ at' = "scan"
  /\ UNCHANGED <<os, next, socket, waiting, mounts, rows>>

\* resolve: the working directory is gone with the process; only a path in the
\* kernel's spelling names a mount point.
ReadCwd(p) ==
  /\ os = "linux" /\ at = "cwd"
  /\ Least(p)
  /\ LET named == \/ arg[p].spelled = "canonical"
                  \/ arg[p].spelled = "relative" /\ Alive(p)
     IN  claims' = Append(claims, [pid |-> p, kind |-> arg[p].kind,
                                   names |-> IF named THEN arg[p].at ELSE NoPoint])
  /\ todo' = todo \ {p}
  /\ at' = "scan"
  /\ UNCHANGED <<os, next, socket, waiting, mounts, rows>>

Scanned ==
  /\ os = "linux" /\ at = "scan" /\ todo = {}
  /\ at' = "fds"
  /\ UNCHANGED <<os, todo, claims, next, socket, waiting, mounts, rows>>

\* A fuse claim waits for the mount table.
KeepFuse ==
  /\ os = "linux" /\ at = "fds" /\ next <= Len(claims)
  /\ claims[next].kind = "fuse"
  /\ waiting' = waiting \cup {next}
  /\ next' = next + 1
  /\ UNCHANGED <<os, at, todo, claims, socket, mounts, rows>>

\* The socket inodes among the descriptors of the process.
ReadFds ==
  /\ os = "linux" /\ at = "fds" /\ next <= Len(claims)
  /\ claims[next].kind = "webdav"
  /\ socket' = Listens(claims[next].pid)
  /\ at' = "tcp"
  /\ UNCHANGED <<os, todo, claims, next, waiting, mounts, rows>>

WebdavRow(p, listening) ==
  [kind |-> "webdav", pid |-> p, at |-> NoPoint,
   state |-> IF listening THEN "listening" ELSE "starting"]

\* Listening is what is in the socket table and among those descriptors.
ReadTcp ==
  /\ at = "tcp"
  /\ LET p == claims[next].pid
     IN  rows' = Append(rows, WebdavRow(p, socket /\ Listens(p)))
  /\ next' = next + 1
  /\ at' = "fds"
  /\ socket' = FALSE
  /\ UNCHANGED <<os, todo, claims, waiting, mounts>>

\* The mount table is read at once, when all the claims have been seen to.  One
\* that cannot be read, or is not UTF-8 throughout, counts as empty.
ReadTable ==
  /\ os = "linux" /\ at = "fds" /\ next > Len(claims)
  /\ \/ mounts' = table /\ UNCHANGED blank
     \/ mounts' = <<>> /\ blank' = TRUE
  /\ next' = 1
  /\ at' = "match"
  /\ UNCHANGED <<os, todo, claims, socket, waiting, rows>>

FuseRow(p, point, st) == [kind |-> "fuse", pid |-> p, at |-> point, state |-> st]

\* The first of the waiting claims that names the point.
First(i, point) ==
  /\ i \in waiting /\ claims[i].names = point
  /\ \A j \in waiting : claims[j].names = point => i <= j

\* Mutant: the owner of a mount stays a candidate.
PlaceMountKeep ==
  /\ at = "match" /\ next <= Len(mounts)
  /\ LET m == mounts[next]
     IN  \/ \E i \in waiting :
              /\ First(i, m.at)
              /\ rows' = Append(rows, FuseRow(claims[i].pid, m.at, "mounted"))
         \/ /\ \A i \in waiting : claims[i].names # m.at
            /\ rows' = Append(rows, FuseRow(NoPid, m.at, "unidentified"))
  /\ next' = next + 1
  /\ UNCHANGED <<os, at, todo, claims, socket, waiting, mounts>>

\* One mount: its owner, if it has one, waits no longer.  A mount without an
\* owner is shown if it is one of axiom's or under the home directory.
PlaceMount ==
  /\ at = "match" /\ next <= Len(mounts)
  /\ LET m == mounts[next]
     IN  \/ \E i \in waiting :
              /\ First(i, m.at)
              /\ rows' = Append(rows, FuseRow(claims[i].pid, m.at, "mounted"))
              /\ waiting' = waiting \ {i}
         \/ /\ \A i \in waiting : claims[i].names # m.at
            /\ rows' = IF m.by \in Proc THEN Append(rows, FuseRow(NoPid, m.at, "mounted"))
                       ELSE IF m.at \in Home THEN Append(rows, FuseRow(NoPid, m.at, "unidentified"))
                       ELSE rows
            /\ UNCHANGED waiting
  /\ next' = next + 1
  /\ UNCHANGED <<os, at, todo, claims, socket, mounts>>

\* A claim that got no mount is taken to be starting.
PlaceWaiting(i) ==
  /\ at = "match" /\ next > Len(mounts)
  /\ i \in waiting /\ \A j \in waiting : i <= j
  /\ rows' = Append(rows, FuseRow(claims[i].pid, NoPoint, "starting"))
  /\ waiting' = waiting \ {i}
  /\ UNCHANGED <<os, at, todo, claims, next, socket, mounts>>

\* fuse before webdav, by process id, no process id first; ties stay as they are.
Before(s, i, j) ==
  \/ s[i].kind = "fuse" /\ s[j].kind = "webdav"
  \/ s[i].kind = s[j].kind /\ s[i].pid < s[j].pid
  \/ s[i].kind = s[j].kind /\ s[i].pid = s[j].pid /\ i < j

Position(s, i) == Cardinality({j \in 1..Len(s) : Before(s, j, i)}) + 1
Sorted(s) == [k \in 1..Len(s) |-> s[CHOOSE i \in 1..Len(s) : Position(s, i) = k]]

SortRows ==
  /\ at = "match" /\ next > Len(mounts) /\ waiting = {}
  /\ rows' = Sorted(rows)
  /\ at' = "done"
  /\ UNCHANGED <<os, todo, claims, next, socket, waiting, mounts>>

-----------------------------------------------------------------------------
(* macOS. *)

\* ps shows the processes there are; those of webdav are kept.
Ps ==
  /\ os = "macos" /\ at = "cwd"
  /\ todo' = {p \in Proc : Alive(p) /\ arg[p].mine /\ arg[p].kind = "webdav"}
  /\ at' = "fds"
  /\ UNCHANGED <<os, claims, next, socket, waiting, mounts, rows>>

\* lsof is asked about one process after another, in the order of ps.
Lsof(p) ==
  /\ os = "macos" /\ at = "fds"
  /\ p \in todo
  /\ rows' = Append(rows, WebdavRow(p, Listens(p)))
  /\ todo' = todo \ {p}
  /\ UNCHANGED <<os, at, claims, next, socket, waiting, mounts>>

LsofDone ==
  /\ os = "macos" /\ at = "fds" /\ todo = {}
  /\ rows' = Sorted(rows)
  /\ at' = "done"
  /\ UNCHANGED <<os, todo, claims, next, socket, waiting, mounts>>

\* /proc, ps or lsof cannot be read or run: no rows are printed.
ListFails ==
  /\ at \in {"scan", "cwd"} \/ (os = "macos" /\ at = "fds" /\ todo # {})
  /\ at' = "failed"
  /\ UNCHANGED <<os, todo, claims, next, socket, waiting, mounts, rows>>

Reading ==
  \/ \E p \in Proc : ReadCmdline(p) \/ ReadCwd(p) \/ Lsof(p)
  \/ Scanned \/ KeepFuse \/ ReadFds \/ ReadTcp
  \/ Ps \/ LsofDone \/ ListFails

Putting == PlaceMount \/ (\E i \in waiting : PlaceWaiting(i)) \/ SortRows

\* The world goes on while the listing looks.  What comes after the mount table
\* has been read is not seen: it would only make less steady and more seen ever.
Looks == at \in {"scan", "cwd", "fds", "tcp"}

Next ==
  \/ Begin
  \/ Looks /\ Reading /\ UNCHANGED <<lifeVars, history>>
  \/ ReadTable /\ UNCHANGED <<lifeVars, steady, ever>>
  \/ Putting /\ UNCHANGED <<lifeVars, history>>
  \/ Looks /\ LifeNext /\ Observe /\ UNCHANGED listVars
  \/ at = "idle" /\ LifeNext /\ UNCHANGED <<listVars, history>>

Spec == Init /\ [][Next]_vars

-----------------------------------------------------------------------------
(* Properties of a finished listing. *)

RowsOf(p) == {i \in 1..Len(rows) : rows[i].pid = p}
RowsAt(point) == {i \in 1..Len(rows) : rows[i].at = point}

\* The mounts among the things, by some of xs, on the point.
MountsOf(things, xs, point) == {t \in things : t[1] = "mount" /\ t[2] \in xs /\ t[3] = point}

Listed(p) == os = "linux" \/ arg[p].kind = "webdav"

\* A process of the user that ran the whole time has one row and no more,
\* whichever mounts came and went, and no row is of a process that never ran.
ProcessesListedOnce ==
  at = "done" => \A p \in Proc :
    /\ <<"run", p>> \in steady /\ arg[p].mine /\ Listed(p) => Cardinality(RowsOf(p)) = 1
    /\ RowsOf(p) # {} => <<"run", p>> \in ever /\ arg[p].mine /\ Cardinality(RowsOf(p)) = 1

\* A point has as many "mounted" or "unidentified" rows as it has mounts: no
\* fewer than axiom's that stayed if the table could be read, no more than came.
MountsCounted ==
  at = "done" /\ os = "linux" => \A point \in Point :
    /\ ~blank => Cardinality(RowsAt(point)) >= Cardinality(MountsOf(steady, Proc, point))
    /\ Cardinality(RowsAt(point)) <= Cardinality(MountsOf(ever, Proc \cup Alien, point))
    /\ \A i \in RowsAt(point) : rows[i].state = "unidentified"
         => point \in Home /\ MountsOf(ever, Alien, point) # {}

\* A webdav server is listed as listening if it listened all the time, and only
\* if it did at some time.
ListeningIsTrue ==
  at = "done" => \A i \in 1..Len(rows) : rows[i].kind = "webdav" =>
    /\ <<"listen", rows[i].pid>> \in steady => rows[i].state = "listening"
    /\ rows[i].state = "listening" => <<"listen", rows[i].pid>> \in ever

\* A mounted process is listed with its mount, if its command line names the
\* point as the kernel does, no other process of the user asks for that point and
\* the mount table could be read.  (Otherwise it may be listed as "starting":
\* mount_list.rs:312 does not hold.)
OwnerFound ==
  at = "done" /\ os = "linux" /\ ~blank => \A p \in Proc :
    /\ {<<"run", p>>, <<"mount", p, arg[p].at>>} \subseteq steady
    /\ arg[p].mine /\ arg[p].spelled # "odd"
    /\ \A q \in Proc \ {p} : <<"run", q>> \in ever => ~arg[q].mine \/ arg[q].at # arg[p].at
    => \E i \in 1..Len(rows) : rows[i] = FuseRow(p, arg[p].at, "mounted")

\* What the rows of processes say can be relied on, although the processes and
\* their sockets are read one after another while they change.
ProcessRowsTrue == ProcessesListedOnce /\ ListeningIsTrue

\* So can what the rows of mounts say, read after the processes they are given to.
MountRowsTrue == MountsCounted /\ OwnerFound
=============================================================================
