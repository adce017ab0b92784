------------------------------ MODULE OAuthFlow ------------------------------
(***************************************************************************)
(* `axiom remote {gdrive,dropbox} auth`: the OAuth callback flow of        *)
(* src/commands/remote_oauth.rs with the exchange and the token save that  *)
(* cmd_dropbox_auth and cmd_gdrive_auth pass to it.                        *)
(*                                                                         *)
(* A flow binds the one callback port, opens the browser, takes ONE        *)
(* connection, reads once from it, exchanges the code of the callback,     *)
(* saves the tokens and only then answers the browser.  Flows of several   *)
(* processes follow one another on the port, so a callback meant for one   *)
(* flow can reach another.  Browsers, provider and other programs are the  *)
(* environment.  Publication of the token file is one step here: that      *)
(* write_private_file makes it one is the subject of PrivateFile.          *)
(***************************************************************************)
EXTENDS Naturals

CONSTANTS
  Flows,   \* runs of an auth command, all with the same --output
  Conns,   \* TCP connections to the callback port
  None     \* no flow, no connection, no file, nothing sent

ASSUME OAuthAssumption == None \notin Flows \cup Conns

VARIABLES
  pc,      \* where each flow is
  port,    \* the flow that holds the callback port
  opened,  \* flows whose authorization page was opened
  peer,    \* the flow whose listener each connection reached
  conn,    \* what became of each connection
  sent,    \* the request sent over each connection
  sock,    \* the connection each flow accepted
  code,    \* whose authorization the code a flow exchanges belongs to
  file,    \* what is at the output path: tokens of a flow, something else, nothing
  seen,    \* history: what was at the path when the flow looked
  raced,   \* history: another program wrote there since
  saved,   \* history: flows whose tokens were saved
  answer   \* the status each connection was answered with

vars == <<pc, port, opened, peer, conn, sent, sock, code, file, seen, raced, saved, answer>>

Foreign == "notTokens"
File == Flows \cup {None, Foreign}
\* A callback names the flow it answers by its state parameter.
Request == [state : Flows \cup {None}, says : {"code", "error", "neither"}]
Stray == [state |-> None, says |-> "neither"]
Busy == {"accept", "read", "exchange", "check", "publish", "answer"}
Ended == {"ok", "err", "dead"}

\* With, besides the types: the flow under way is the one that holds the port.
TypeOK ==
  /\ \A f \in Flows : pc[f] \in Busy <=> port = f
  /\ pc \in [Flows -> {"idle"} \cup Busy \cup Ended]
  /\ port \in Flows \cup {None}
  /\ opened \subseteq Flows
  /\ peer \in [Conns -> Flows \cup {None}]
  /\ conn \in [Conns -> {"none", "waiting", "accepted", "closed"}]
  /\ sent \in [Conns -> Request \cup {None}]
  /\ sock \in [Flows -> Conns \cup {None}]
  /\ code \in [Flows -> Flows \cup {None}]
  /\ file \in File
  /\ seen \in [Flows -> File]
  /\ raced \in [Flows -> BOOLEAN]
  /\ saved \subseteq Flows
  /\ answer \in [Conns -> {"none", "ok200", "bad400", "error500"}]

Init ==
  /\ pc = [f \in Flows |-> "idle"]
  /\ port = None
  /\ opened = {}
  /\ peer = [x \in Conns |-> None]
  /\ conn = [x \in Conns |-> "none"]
  /\ sent = [x \in Conns |-> None]
  /\ sock = [f \in Flows |-> None]
  /\ code = [f \in Flows |-> None]
  /\ file \in {None, Foreign}
  /\ seen = [f \in Flows |-> None]
  /\ raced = [f \in Flows |-> FALSE]
  /\ saved = {}
  /\ answer = [x \in Conns |-> "none"]

Goto(f, label) == pc' = [pc EXCEPT ![f] = label]

\* The listener is dropped when the flow returns; what still waits is reset.
Release(f) ==
  /\ port' = IF port = f THEN None ELSE port
  /\ conn' = [x \in Conns |->
       IF peer[x] = f /\ conn[x] \in {"waiting", "accepted"} THEN "closed" ELSE conn[x]]

\* `let _ = write_html_response(..)`: the answer may not arrive.
Reply(f, status) ==
  \E got \in {status, "none"} : answer' = [answer EXCEPT ![sock[f]] = got]

Fail(f, status) ==
  /\ Reply(f, status)
  /\ Goto(f, "err")
  /\ Release(f)

(***************************************************************************)
(* The steps of a flow.                                                    *)
(***************************************************************************)
\* The port is bound before the browser is opened.
Bind(f) ==
  /\ pc[f] = "idle"
  /\ port = None
  /\ port' = f
  /\ opened' = opened \cup {f}
  /\ Goto(f, "accept")
  /\ UNCHANGED <<peer, conn, sent, sock, code, file, seen, raced, saved, answer>>

\* "Is another process using this port?"
BindFails(f) ==
  /\ pc[f] = "idle"
  /\ port # None
  /\ Goto(f, "err")
  /\ UNCHANGED <<port, opened, peer, conn, sent, sock, code, file, seen, raced, saved, answer>>

\* Mutant: the listener is dropped once a connection has been accepted.
AcceptAndFreePort(f) ==
  /\ pc[f] = "accept"
  /\ \E x \in Conns : /\ peer[x] = f /\ conn[x] = "waiting"
                      /\ conn' = [conn EXCEPT ![x] = "accepted"]
                      /\ sock' = [sock EXCEPT ![f] = x]
  /\ port' = None
  /\ Goto(f, "read")
  /\ UNCHANGED <<opened, peer, sent, code, file, seen, raced, saved, answer>>

Accept(f) ==
  /\ pc[f] = "accept"
  /\ \E x \in Conns : /\ peer[x] = f /\ conn[x] = "waiting"
                      /\ conn' = [conn EXCEPT ![x] = "accepted"]
                      /\ sock' = [sock EXCEPT ![f] = x]
  /\ Goto(f, "read")
  /\ UNCHANGED <<port, opened, peer, sent, code, file, seen, raced, saved, answer>>

\* Mutant: accept has no time limit, and fails only when a connection does.
AcceptFailsWithoutTimeout(f) ==
  /\ pc[f] = "accept"
  /\ \E x \in Conns : peer[x] = f /\ conn[x] = "waiting"
  /\ Goto(f, "err")
  /\ Release(f)
  /\ UNCHANGED <<opened, peer, sent, sock, code, file, seen, raced, saved, answer>>

\* After five minutes without a connection, or when accept itself fails.
AcceptFails(f) ==
  /\ pc[f] = "accept"
  /\ Goto(f, "err")
  /\ Release(f)
  /\ UNCHANGED <<opened, peer, sent, sock, code, file, seen, raced, saved, answer>>

\* Mutant: the state parameter is not compared with the flow's own.
ValidAnyState(f, r) == r.state # None /\ r.says = "code"

\* parse_callback: a state parameter, the flow's own, no provider error, a code.
Valid(f, r) == r.state = f /\ r.says = "code"

\* One read: all of the request, or a first part that is no valid callback.
Received(f) == {sent[sock[f]], Stray} \ {None}

ReadCallback(f) ==
  /\ pc[f] = "read"
  /\ sent[sock[f]] # None
  /\ \E r \in Received(f) :
       /\ Valid(f, r)
       /\ code' = [code EXCEPT ![f] = r.state]
  /\ Goto(f, "exchange")
  /\ UNCHANGED <<port, opened, peer, conn, sent, sock, file, seen, raced, saved, answer>>

\* Anything else ends the flow, whatever else is waiting.
ReadRejected(f) ==
  /\ pc[f] = "read"
  /\ sent[sock[f]] # None
  /\ \E r \in Received(f) : ~Valid(f, r)
  /\ Fail(f, "bad400")
  /\ UNCHANGED <<opened, peer, sent, sock, code, file, seen, raced, saved>>

Exchange(f) ==
  /\ pc[f] = "exchange"
  /\ Goto(f, "check")
  /\ UNCHANGED <<port, opened, peer, conn, sent, sock, code, file, seen, raced, saved, answer>>

\* Mutant: whatever is at the path is replaced.
Replaceable_Any(content) == TRUE

\* Nothing at the path, or a regular file that reads as tokens.
Replaceable(content) == content # Foreign

CheckOutput(f) ==
  /\ pc[f] = "check"
  /\ Replaceable(file)
  /\ seen' = [seen EXCEPT ![f] = file]
  /\ raced' = [raced EXCEPT ![f] = FALSE]
  /\ Goto(f, "publish")
  /\ UNCHANGED <<port, opened, peer, conn, sent, sock, code, file, saved, answer>>

Publish(f) ==
  /\ pc[f] = "publish"
  /\ file' = f
  /\ saved' = saved \cup {f}
  /\ Goto(f, "answer")
  /\ UNCHANGED <<port, opened, peer, conn, sent, sock, code, seen, raced, answer>>

\* The exchange, the check of the path, its directory or the write fails; so
\* does the check when the path is not replaceable.
ExchangeOrSaveFails(f) ==
  /\ pc[f] \in {"exchange", "check", "publish"}
  /\ Fail(f, "error500")
  /\ UNCHANGED <<opened, peer, sent, sock, code, file, seen, raced, saved>>

\* Mutant: an answer the browser does not take is an error of the command.
AnswerMustArrive(f) ==
  /\ pc[f] = "answer"
  /\ \E got \in {"ok200", "none"} :
       /\ answer' = [answer EXCEPT ![sock[f]] = got]
       /\ Goto(f, IF got = "none" THEN "err" ELSE "ok")
  /\ Release(f)
  /\ UNCHANGED <<opened, peer, sent, sock, code, file, seen, raced, saved>>

Answer(f) ==
  /\ pc[f] = "answer"
  /\ Reply(f, "ok200")
  /\ Goto(f, "ok")
  /\ Release(f)
  /\ UNCHANGED <<opened, peer, sent, sock, code, file, seen, raced, saved>>

FlowStep(f) ==
  \/ Accept(f) \/ AcceptFails(f) \/ ReadCallback(f) \/ ReadRejected(f) \/ Exchange(f)
  \/ CheckOutput(f) \/ Publish(f) \/ ExchangeOrSaveFails(f) \/ Answer(f)

(***************************************************************************)
(* The environment.                                                        *)
(***************************************************************************)
\* A browser, or anything else on this machine, connects and sends when it likes.
Connect(x) ==
  /\ conn[x] = "none"
  /\ port # None
  /\ conn' = [conn EXCEPT ![x] = "waiting"]
  /\ peer' = [peer EXCEPT ![x] = port]
  /\ UNCHANGED <<pc, port, opened, sent, sock, code, file, seen, raced, saved, answer>>

\* The page of a flow may send its callback more than once, and after the flow
\* has ended; requests that belong to no flow come too (an icon, a health check,
\* a connection closed without a word).
Send(x) ==
  /\ conn[x] \in {"waiting", "accepted"}
  /\ sent[x] = None
  /\ \E r \in {Stray} \cup [state : opened, says : {"code", "error"}] :
       sent' = [sent EXCEPT ![x] = r]
  /\ UNCHANGED <<pc, port, opened, peer, conn, sock, code, file, seen, raced, saved, answer>>

\* Another program creates or replaces the file at the output path.
OtherWrites ==
  /\ file # Foreign
  /\ file' = Foreign
  /\ raced' = [f \in Flows |-> pc[f] = "publish" \/ raced[f]]
  /\ UNCHANGED <<pc, port, opened, peer, conn, sent, sock, code, seen, saved, answer>>

\* Ctrl+C, or the process is killed.
Kill(f) ==
  /\ pc[f] \in Busy
  /\ Goto(f, "dead")
  /\ Release(f)
  /\ UNCHANGED <<opened, peer, sent, sock, code, file, seen, raced, saved, answer>>

Next ==
  \/ \E f \in Flows : Bind(f) \/ BindFails(f) \/ FlowStep(f) \/ Kill(f)
  \/ \E x \in Conns : Connect(x) \/ Send(x)
  \/ OtherWrites

Spec == Init /\ [][Next]_vars

\* The runtime polls a flow that can run; exchanging the code ends one way or
\* the other.  Nothing makes a peer connect or speak, and nobody a user start.
FairSpec == Spec /\ \A f \in Flows : WF_vars(FlowStep(f))

(***************************************************************************)
(* Properties.                                                             *)
(***************************************************************************)
\* The browser and the terminal are told of success only when the code has been
\* exchanged and the tokens saved (README, "OAuth token files").
SuccessMeansSaved ==
  \A f \in Flows :
    pc[f] = "ok" \/ (sock[f] # None /\ answer[sock[f]] = "ok200") => f \in saved

\* A flow that reports failure has left the file at the path as it was.
FailureMeansNotSaved == \A f \in Flows : pc[f] = "err" => f \notin saved

\* What the browser and the terminal are told agrees with what is on the disk,
\* in whatever order the exchange, the save, the answer and their failures come.
ReportsAreTrue == SuccessMeansSaved /\ FailureMeansNotSaved

\* Tokens are saved only from the authorization of the flow itself, although a
\* late callback of an earlier flow can reach the listener of the next.
OwnAuthorizationOnly ==
  \A f \in Flows : pc[f] \in {"exchange", "check", "publish", "answer"} \/ f \in saved =>
    code[f] = f

\* A flow replaces the very file that it saw, which held tokens or was missing,
\* or one that another program put there after it had looked: no other flow comes
\* between, as whoever checks and publishes holds the port.
ReplacesOnlySeen ==
  [][\A f \in Flows : pc[f] = "publish" /\ pc'[f] = "answer" =>
       raced[f] \/ (file = seen[f] /\ file # Foreign)]_vars

\* Every flow that starts ends, or has accepted a connection over which nothing
\* is ever sent: that read has no time limit.
EndsUnlessPeerSilent ==
  \A f \in Flows :
    <>[](\/ pc[f] \in Ended \cup {"idle"}
         \/ pc[f] = "read" /\ sent[sock[f]] = None)

\* Only a callback that carries the flow's state can end it (the comment in
\* parse_callback: without the check "any local request could end the flow").
OnlyOwnStateEnds ==
  [][\A f \in Flows : pc[f] = "read" /\ pc'[f] = "err" => sent[sock[f]].state = f]_vars
=============================================================================
