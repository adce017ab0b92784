---------------------------- MODULE CommandLine ----------------------------
(***************************************************************************)
(* The command lines of `axiom mount` as the program itself takes them     *)
(* (the declarations of cli.rs, read by clap) and as `mount list` reads    *)
(* them of another process (parse_args, mount_list.rs).                    *)
(*                                                                         *)
(* An argument is its form and its value.  A line grows by one argument as *)
(* long as clap goes along.                                                *)
(***************************************************************************)
EXTENDS Naturals, Sequences

CONSTANTS
  Value,         \* values of options and arguments, names of commands among them
  Hyphened,      \* those that begin with a hyphen
  MaxArguments   \* bound: how long a line is

\* "--path=" and "-p=" carry their value, "-p" and "--path" are followed by it;
\* "-pv" is a short option with its value attached.
Option == {"-p", "--path", "--path=", "-p=", "-pv", "--port", "--port=", "--password-file",
           "--password-file=", "--read-only", "-v", "--json"}
WithValue == {"--path=", "-p=", "-pv", "--port=", "--password-file="}
Nothing == "nothing"

Names == {"mount", "fuse", "webdav", "list", "vault"}

Word(v) == [form |-> "word", val |-> v]
Token ==
  {Word(v) : v \in Value \cup Names}
  \cup {[form |-> o, val |-> v] : o \in WithValue, v \in Value}
  \cup {[form |-> o, val |-> Nothing] : o \in (Option \ WithValue) \cup {"--"}}

ASSUME CommandLineAssumption ==
  /\ Nothing \notin Value
  /\ Hyphened \subseteq Value \ Names
  /\ MaxArguments \in Nat

VARIABLES
  line,  \* the arguments so far
  clap,  \* what clap has made of them
  loop   \* what the loop of parse_args makes of them

lineVars == <<line, clap, loop>>

-----------------------------------------------------------------------------
(* cli.rs. *)

\* `at` is the command reached, `wants` an option whose value is due.
Fresh == [at |-> "axiom", wants |-> Nothing, escaped |-> FALSE,
          path |-> Nothing, point |-> Nothing, port |-> Nothing]

Sub == [axiom |-> {"mount", "vault"}, mount |-> {"fuse", "webdav", "list"}]

Serves == {"fuse", "webdav"}

\* Where each option may stand; --password-file is global.
Allowed(c, o) ==
  CASE o \in {"-p", "--path", "--path=", "-p=", "-pv"} -> c.at \in Serves /\ c.path = Nothing
    [] o \in {"--port", "--port="} -> c.at = "webdav" /\ c.port = Nothing
    [] o = "--read-only" -> c.at = "fuse"
    [] o = "-v" -> c.at = "axiom"
    [] o = "--json" -> c.at = "list"
    [] OTHER -> TRUE

\* A word is a subcommand, or the one positional argument of fuse.
TakesWord(c, v) ==
  \/ c.at \in DOMAIN Sub /\ ~c.escaped /\ v \in Sub[c.at]
  \/ c.at = "fuse" /\ c.point = Nothing

\* A word that begins with a hyphen, and is more than that, is an option of no
\* command until a "--" has come.
MayBeWord(c, v) == c.escaped \/ v \notin Hyphened \ {"-"}

\* Of the arguments of the vault commands only words matter here.
Takes(c, t) ==
  \/ c.at = "vault" /\ t.form = "word" /\ MayBeWord(c, t.val)
  \/ c.wants # Nothing /\ t.form = "word" /\ MayBeWord(c, t.val)
  \/ c.wants = Nothing /\ t.form = "word" /\ MayBeWord(c, t.val) /\ TakesWord(c, t.val)
  \/ c.wants = Nothing /\ t.form = "--" /\ ~c.escaped
  \/ c.wants = Nothing /\ t.form \in Option /\ ~c.escaped /\ Allowed(c, t.form)

WithOption(c, o, v) ==
  CASE o \in {"-p", "--path", "--path=", "-p=", "-pv"} -> [c EXCEPT !.path = v]
    [] o \in {"--port", "--port="} -> [c EXCEPT !.port = v]
    [] OTHER -> c

AfterToken(c, t) ==
  CASE c.at = "vault" -> c
    [] c.at # "vault" /\ c.wants # Nothing -> [WithOption(c, c.wants, t.val) EXCEPT !.wants = Nothing]
    [] c.at # "vault" /\ c.wants = Nothing /\ t.form = "word" ->
         IF c.at \in DOMAIN Sub THEN [c EXCEPT !.at = t.val] ELSE [c EXCEPT !.point = t.val]
    [] c.at # "vault" /\ c.wants = Nothing /\ t.form = "--" -> [c EXCEPT !.escaped = TRUE]
    [] c.at # "vault" /\ c.wants = Nothing /\ t.form \in WithValue -> WithOption(c, t.form, t.val)
    [] OTHER -> IF t.form \in {"-p", "--path", "--port", "--password-file"}
                THEN [c EXCEPT !.wants = t.form] ELSE c

\* The line runs a command.
Complete(c) ==
  /\ c.wants = Nothing
  /\ \/ c.at \in {"vault", "list"}
     \/ c.at = "webdav" /\ c.path # Nothing
     \/ c.at = "fuse" /\ c.path # Nothing /\ c.point # Nothing

-----------------------------------------------------------------------------
(* mount_list.rs. *)

\* The argument is an option's and says where the vault is: `-p` with a hyphen
\* right after it does not, for the loop.
GivesPath(t) ==
  t.form \in {"--path=", "-p=", "-pv"} /\ (t.form = "-pv" => t.val \notin Hyphened)

\* The argument is a word, for the loop.
IsWord(t) == t.form = "word" /\ t.val \notin Hyphened

\* Mutant: the value of --password-file is not passed over.
TakeArgumentKeepsFile(acc, t) ==
  CASE acc.due = "rest" -> [acc EXCEPT !.positional = Append(@, t.val)]
    [] acc.due = "path" -> [acc EXCEPT !.vault = t.val, !.due = "any"]
    [] acc.due = "value" -> [acc EXCEPT !.due = "any"]
    [] acc.due = "any" /\ t.form = "--" -> [acc EXCEPT !.due = "rest"]
    [] acc.due = "any" /\ t.form \in {"-p", "--path"} -> [acc EXCEPT !.due = "path"]
    [] acc.due = "any" /\ GivesPath(t) -> [acc EXCEPT !.vault = t.val]
    [] acc.due = "any" /\ t.form = "--port" -> [acc EXCEPT !.due = "value"]
    [] acc.due = "any" /\ IsWord(t) -> [acc EXCEPT !.positional = Append(@, t.val)]
    [] OTHER -> acc

\* One turn of the loop; `due` is what becomes of the next argument.
TakeArgument(acc, t) ==
  CASE acc.due = "rest" -> [acc EXCEPT !.positional = Append(@, t.val)]
    [] acc.due = "path" -> [acc EXCEPT !.vault = t.val, !.due = "any"]
    [] acc.due = "value" -> [acc EXCEPT !.due = "any"]
    [] acc.due = "any" /\ t.form = "--" -> [acc EXCEPT !.due = "rest"]
    [] acc.due = "any" /\ t.form \in {"-p", "--path"} -> [acc EXCEPT !.due = "path"]
    [] acc.due = "any" /\ GivesPath(t) -> [acc EXCEPT !.vault = t.val]
    [] acc.due = "any" /\ t.form \in {"--port", "--password-file"} -> [acc EXCEPT !.due = "value"]
    [] acc.due = "any" /\ IsWord(t) -> [acc EXCEPT !.positional = Append(@, t.val)]
    [] OTHER -> acc

NoInvocation == [kind |-> Nothing, path |-> Nothing, point |-> Nothing]

BeforeLoop == [due |-> "any", positional |-> <<>>, vault |-> Nothing]

\* What is made of the line after the last turn.
parse_args ==
  LET words == loop.positional
  IN  IF Len(words) >= 2 /\ words[1] = "mount" /\ words[2] \in Serves
      THEN [kind |-> words[2], path |-> loop.vault,
            point |-> IF words[2] = "fuse" /\ Len(words) >= 3 THEN words[3] ELSE Nothing]
      ELSE NoInvocation

-----------------------------------------------------------------------------

\* Both readers take a line from left to right, an argument at a time.
LineInit == line = <<>> /\ clap = Fresh /\ loop = BeforeLoop

Type(t) ==
  /\ Len(line) < MaxArguments
  /\ Takes(clap, t)
  /\ line' = Append(line, t)
  /\ clap' = AfterToken(clap, t)
  /\ loop' = TakeArgument(loop, t)

LineNext == \E t \in Token : Type(t)
LineSpec == LineInit /\ [][LineNext]_lineVars

\* v begins with a hyphen and was attached to `-p`.
Attached(v) ==
  v \in Hyphened /\ \E i \in 1..Len(line) : line[i].form = "-pv" /\ line[i].val = v

\* `mount list` takes the same command, vault and mount point from a running
\* process's command line as that process took from it, wherever the options
\* stand and whatever their values are called, and none from other commands.  It
\* has no vault if the path begins with a hyphen and is attached to `-p`
\* (mount_list.rs:81), and no mount point if that is a lone hyphen
\* (mount_list.rs:83).
ParsedAsRun ==
  Complete(clap) =>
    IF clap.at \in Serves
    THEN /\ parse_args.kind = clap.at
         /\ parse_args.path = clap.path \/ (parse_args.path = Nothing /\ Attached(clap.path))
         /\ parse_args.point = clap.point \/ (parse_args.point = Nothing /\ clap.point = "-")
    ELSE parse_args = NoInvocation
=============================================================================
