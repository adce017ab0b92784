----------------------------- MODULE MountInfo -----------------------------
(***************************************************************************)
(* A line of /proc/<pid>/mountinfo as the kernel writes it and as          *)
(* parse_mountinfo (mount_list.rs) reads it.  A line is its bytes.         *)
(***************************************************************************)
EXTENDS Integers, SequencesExt

CONSTANTS
  NameByte,    \* bytes in the name of a mount point
  Optional,    \* what can stand before the separator: sequences of fields
  FsType,      \* file system types
  MaxNameLen   \* bound: how long the name is

SPACE == 32
BACKSLASH == 92
DASH == 45
PLUS == 43
ZERO == 48

Octet == 0..255

\* Names are ASCII: the bytes of other characters pass like letters, and what is
\* not UTF-8 is not read at all.  The kernel's own fields are printable, and none
\* of the optional ones looks like the separator.
ASSUME MountInfoAssumption ==
  /\ NameByte \subseteq 1..127
  /\ FsType \subseteq Seq(33..126)
  /\ Optional \subseteq Seq(Seq(33..126) \ {<<DASH>>})
  /\ MaxNameLen \in Nat

VARIABLES
  name,      \* the mount point
  optional,  \* the optional fields of its line
  fstype,    \* its type
  parsed     \* what parse_mountinfo makes of its line

infoVars == <<name, optional, fstype, parsed>>

-----------------------------------------------------------------------------
(* The kernel. *)

\* Space, tab, newline and backslash are written as three octal digits.
Mangled(b) ==
  IF b \in {SPACE, 9, 10, BACKSLASH}
  THEN <<BACKSLASH, ZERO + (b \div 64), ZERO + ((b \div 8) % 8), ZERO + (b % 8)>>
  ELSE <<b>>

Mangle(s) ==
  LET of[t \in Seq(Octet)] == IF t = <<>> THEN <<>> ELSE of[Front(t)] \o Mangled(Last(t))
  IN  of[s]

\* A space before each field but the first.
Joined(fields) ==
  LET of[t \in Seq(Seq(Octet))] ==
        IF t = <<>> THEN <<>>
        ELSE of[Front(t)] \o (IF Front(t) = <<>> THEN <<>> ELSE <<SPACE>>) \o Last(t)
  IN  of[fields]

Plain == <<97>>

InfoLine(n, opt, type) ==
  Joined(<<Plain, Plain, Plain, Plain, Mangle(n), Plain>> \o opt
         \o << <<DASH>>, type, Mangle(n), Plain>>)

-----------------------------------------------------------------------------
(* mount_list.rs. *)

\* split(' '): the fields that have ended and the one at the end.
SplitByte(split, b) ==
  IF b = SPACE THEN [ended |-> Append(split.ended, split.open), open |-> <<>>]
  ELSE [split EXCEPT !.open = Append(@, b)]

Split(s) ==
  LET of[t \in Seq(Octet)] ==
        IF t = <<>> THEN [ended |-> <<>>, open |-> <<>>] ELSE SplitByte(of[Front(t)], Last(t))
  IN  of[s]

Fields(s) == Append(Split(s).ended, Split(s).open)

IsOctal(b) == b \in ZERO..ZERO + 7

\* The three bytes after i as a number, -1 if they are none or above 255;
\* from_str_radix takes a plus sign for the first.
Octal(s, i) ==
  IF i + 3 <= Len(s) /\ (IsOctal(s[i + 1]) \/ s[i + 1] = PLUS) /\ IsOctal(s[i + 2]) /\ IsOctal(s[i + 3])
  THEN LET high == IF s[i + 1] = PLUS THEN 0 ELSE s[i + 1] - ZERO
           v == high * 64 + (s[i + 2] - ZERO) * 8 + (s[i + 3] - ZERO)
       IN  IF v <= 255 THEN v ELSE -1
  ELSE -1

\* Mutant: after an escape its last digit is read again.
UnescapeNoSkip(s, st) ==
  IF st.i > Len(s) THEN st
  ELSE IF s[st.i] = BACKSLASH /\ Octal(s, st.i) >= 0
  THEN [i |-> st.i + 3, out |-> Append(st.out, Octal(s, st.i))]
  ELSE [i |-> st.i + 1, out |-> Append(st.out, s[st.i])]

\* One turn of the loop of unescape_octal: a byte, or an escape for one.
Unescape(s, st) ==
  IF st.i > Len(s) THEN st
  ELSE IF s[st.i] = BACKSLASH /\ Octal(s, st.i) >= 0
  THEN [i |-> st.i + 4, out |-> Append(st.out, Octal(s, st.i))]
  ELSE [i |-> st.i + 1, out |-> Append(st.out, s[st.i])]

\* No more turns than there are bytes.
unescape_octal(s) ==
  LET after[n \in 0..Len(s)] ==
        IF n = 0 THEN [i |-> 1, out |-> <<>>] ELSE Unescape(s, after[n - 1])
  IN  after[Len(s)].out

FuseTypes == {<<102, 117, 115, 101>>, <<102, 117, 115, 101, 98, 108, 107>>}
FuseDot == <<102, 117, 115, 101, 46>>
IsFuse(t) == t \in FuseTypes \/ IsPrefix(FuseDot, t)

NoMount == [point |-> <<>>, source |-> <<>>, found |-> FALSE]

\* The first field "-" is the separator.
parse_mountinfo(text) ==
  LET f == Fields(text)
      seps == {i \in 1..Len(f) : f[i] = <<DASH>>}
      sep == CHOOSE i \in seps : \A j \in seps : i <= j
  IN  IF seps # {} /\ sep + 2 <= Len(f) /\ Len(f) >= 5 /\ IsFuse(f[sep + 1])
      THEN [point |-> unescape_octal(f[5]), source |-> unescape_octal(f[sep + 2]), found |-> TRUE]
      ELSE NoMount

-----------------------------------------------------------------------------

InfoInit ==
  /\ name = <<47>> /\ optional \in Optional /\ fstype \in FsType
  /\ parsed = parse_mountinfo(InfoLine(name, optional, fstype))

AddByte(b) ==
  /\ Len(name) < MaxNameLen
  /\ LET n == Append(name, b)
     IN  name' = n /\ parsed' = parse_mountinfo(InfoLine(n, optional, fstype))
  /\ UNCHANGED <<optional, fstype>>

InfoNext == \E b \in NameByte : AddByte(b)
InfoSpec == InfoInit /\ [][InfoNext]_infoVars

\* The listing knows exactly the FUSE mounts, each under the name its directory
\* has, also when the name holds spaces, backslashes or what looks like an
\* escape, and whatever optional fields the kernel puts into the line.
NamesSurvive ==
  parsed = IF IsFuse(fstype) THEN [point |-> name, source |-> name, found |-> TRUE] ELSE NoMount
=============================================================================
