--------------------------- MODULE OAuthFlowProofs ---------------------------
(***************************************************************************)
(* Theorems about OAuthFlow, for any number of flows and connections.      *)
(*                                                                         *)
(* Two facts carry the proof: the flow under way is the one that holds the *)
(* port (in TypeOK), so that what a flow saw at the path stays there while *)
(* it publishes; and the connection a flow answers reached that flow's own *)
(* listener (Sockets), so that no other flow speaks for it (Told).         *)
(***************************************************************************)
EXTENDS OAuthFlow, TLAPS

Serving == {"read", "exchange", "check", "publish", "answer"}

Sockets ==
  /\ \A f \in Flows : sock[f] # None => peer[sock[f]] = f /\ conn[sock[f]] # "none"
  /\ \A f \in Flows : pc[f] \in Serving => sock[f] # None
  /\ \A x \in Conns : conn[x] = "none" => answer[x] = "none"

\* Who may have been told of success, and who has saved tokens.
Told ==
  /\ \A x \in Conns : answer[x] = "ok200" => peer[x] \in saved
  /\ \A f \in Flows : pc[f] \in {"ok", "answer"} => f \in saved
  /\ \A f \in Flows : pc[f] \notin {"ok", "answer", "dead"} => f \notin saved

Looked ==
  \A f \in Flows : pc[f] = "publish" => seen[f] # Foreign /\ (file = seen[f] \/ raced[f])

Inv ==
  /\ TypeOK
  /\ Sockets
  /\ Told
  /\ OwnAuthorizationOnly
  /\ Looked

USE DEF Goto

LEMMA InitInv == Init => Inv
  <1> SUFFICES ASSUME Init PROVE Inv
    OBVIOUS
  <1> USE OAuthAssumption DEF Init
  <1>1. TypeOK
    BY DEF TypeOK, Busy, Ended, File, Request
  <1>2. Sockets /\ Told /\ OwnAuthorizationOnly /\ Looked
    BY DEF Sockets, Told, OwnAuthorizationOnly, Looked, Serving
  <1> QED
    BY <1>1, <1>2 DEF Inv

LEMMA TypeStep == TypeOK /\ Sockets /\ [Next]_vars => TypeOK'
  <1> SUFFICES ASSUME TypeOK, Sockets, [Next]_vars PROVE TypeOK'
    OBVIOUS
  <1> USE OAuthAssumption DEF TypeOK, Busy, Ended, File
  <1>1. ASSUME NEW f \in Flows, Bind(f) \/ BindFails(f) PROVE TypeOK'
    BY <1>1 DEF Bind, BindFails
  <1>2. ASSUME NEW f \in Flows, Accept(f) PROVE TypeOK'
    BY <1>2 DEF Accept
  <1>3. ASSUME NEW f \in Flows, AcceptFails(f) \/ Kill(f) PROVE TypeOK'
    BY <1>3 DEF AcceptFails, Kill, Release
  <1>4. ASSUME NEW f \in Flows, ReadCallback(f) PROVE TypeOK'
    <2>1. code' = [code EXCEPT ![f] = f]
      BY <1>4 DEF ReadCallback, Valid
    <2> QED
      BY <1>4, <2>1 DEF ReadCallback
  <1>5. ASSUME NEW f \in Flows, ReadRejected(f) PROVE TypeOK'
    <2>1. pc[f] = "read" /\ Fail(f, "bad400")
      BY <1>5 DEF ReadRejected
    <2>2. UNCHANGED <<opened, peer, sent, sock, code, file, seen, raced, saved>>
      BY <1>5 DEF ReadRejected
    <2> QED
      BY <2>1, <2>2, ZenonT(30) DEF Fail, Reply, Release
  <1>6. ASSUME NEW f \in Flows, Exchange(f) \/ CheckOutput(f) \/ Publish(f) PROVE TypeOK'
    <2>1. CASE Exchange(f)
      BY <2>1 DEF Exchange
    <2>2. CASE CheckOutput(f)
      BY <2>2 DEF CheckOutput
    <2>3. CASE Publish(f)
      BY <2>3 DEF Publish
    <2> QED
      BY <1>6, <2>1, <2>2, <2>3
  <1>7. ASSUME NEW f \in Flows, ExchangeOrSaveFails(f) PROVE TypeOK'
    BY <1>7, ZenonT(30) DEF ExchangeOrSaveFails, Fail, Reply, Release
  <1>8. ASSUME NEW f \in Flows, Answer(f) PROVE TypeOK'
    BY <1>8, ZenonT(30) DEF Answer, Reply, Release
  <1>9. ASSUME NEW x \in Conns, Connect(x) PROVE TypeOK'
    BY <1>9 DEF Connect
  <1>10. ASSUME NEW x \in Conns, Send(x) PROVE TypeOK'
    <2>1. {Stray} \cup [state : opened, says : {"code", "error"}] \subseteq Request
      BY DEF Stray, Request
    <2>2. PICK r \in Request : sent' = [sent EXCEPT ![x] = r]
      BY <1>10, <2>1 DEF Send
    <2> QED
      BY <1>10, <2>2 DEF Send
  <1>11. CASE OtherWrites
    BY <1>11 DEF OtherWrites
  <1>12. CASE UNCHANGED vars
    BY <1>12 DEF vars
  <1> QED
    BY <1>1, <1>2, <1>3, <1>4, <1>5, <1>6, <1>7, <1>8, <1>9, <1>10, <1>11, <1>12
    DEF Next, FlowStep

\* The connection a flow has accepted reached its own listener.
LEMMA SocketsStep == TypeOK /\ Sockets /\ [Next]_vars => Sockets'
  <1> SUFFICES ASSUME TypeOK, Sockets, [Next]_vars PROVE Sockets'
    OBVIOUS
  <1> USE OAuthAssumption DEF TypeOK, Busy, Sockets, Serving
  <1>1. ASSUME NEW f \in Flows, Bind(f) \/ BindFails(f) PROVE Sockets'
    BY <1>1 DEF Bind, BindFails
  <1>2. ASSUME NEW f \in Flows, Accept(f) PROVE Sockets'
    BY <1>2 DEF Accept
  <1>3. ASSUME NEW f \in Flows, AcceptFails(f) \/ Kill(f) PROVE Sockets'
    BY <1>3 DEF AcceptFails, Kill, Release
  <1>4. ASSUME NEW f \in Flows, ReadCallback(f) PROVE Sockets'
    BY <1>4 DEF ReadCallback
  <1>5. ASSUME NEW f \in Flows, ReadRejected(f) PROVE Sockets'
    BY <1>5 DEF ReadRejected, Fail, Reply, Release
  <1>6. ASSUME NEW f \in Flows, Exchange(f) \/ CheckOutput(f) \/ Publish(f) PROVE Sockets'
    BY <1>6 DEF Exchange, CheckOutput, Publish
  <1>7. ASSUME NEW f \in Flows, ExchangeOrSaveFails(f) PROVE Sockets'
    BY <1>7 DEF ExchangeOrSaveFails, Fail, Reply, Release
  <1>8. ASSUME NEW f \in Flows, Answer(f) PROVE Sockets'
    BY <1>8 DEF Answer, Reply, Release
  <1>9. ASSUME NEW x \in Conns, Connect(x) \/ Send(x) PROVE Sockets'
    BY <1>9 DEF Connect, Send
  <1>10. CASE OtherWrites \/ UNCHANGED vars
    BY <1>10 DEF OtherWrites, vars
  <1> QED
    BY <1>1, <1>2, <1>3, <1>4, <1>5, <1>6, <1>7, <1>8, <1>9, <1>10 DEF Next, FlowStep

\* Success is told only to the connection of a flow that has saved its tokens.
LEMMA ToldStep == TypeOK /\ Sockets /\ Told /\ [Next]_vars => Told'
  <1> SUFFICES ASSUME TypeOK, Sockets, Told, [Next]_vars PROVE Told'
    OBVIOUS
  <1> USE OAuthAssumption DEF TypeOK, Busy, Sockets, Serving, Told
  <1>1. ASSUME NEW f \in Flows, Bind(f) \/ BindFails(f) PROVE Told'
    BY <1>1 DEF Bind, BindFails
  <1>2. ASSUME NEW f \in Flows, Accept(f) PROVE Told'
    BY <1>2 DEF Accept
  <1>3. ASSUME NEW f \in Flows, AcceptFails(f) \/ Kill(f) PROVE Told'
    BY <1>3 DEF AcceptFails, Kill, Release
  <1>4. ASSUME NEW f \in Flows, ReadCallback(f) PROVE Told'
    BY <1>4 DEF ReadCallback
  <1>5. ASSUME NEW f \in Flows, ReadRejected(f) PROVE Told'
    BY <1>5 DEF ReadRejected, Fail, Reply, Release
  <1>6. ASSUME NEW f \in Flows, Exchange(f) \/ CheckOutput(f) \/ Publish(f) PROVE Told'
    BY <1>6 DEF Exchange, CheckOutput, Publish
  <1>7. ASSUME NEW f \in Flows, ExchangeOrSaveFails(f) PROVE Told'
    BY <1>7 DEF ExchangeOrSaveFails, Fail, Reply, Release
  <1>8. ASSUME NEW f \in Flows, Answer(f) PROVE Told'
    BY <1>8 DEF Answer, Reply, Release
  <1>9. ASSUME NEW x \in Conns, Connect(x) \/ Send(x) PROVE Told'
    BY <1>9 DEF Connect, Send
  <1>10. CASE OtherWrites \/ UNCHANGED vars
    BY <1>10 DEF OtherWrites, vars
  <1> QED
    BY <1>1, <1>2, <1>3, <1>4, <1>5, <1>6, <1>7, <1>8, <1>9, <1>10 DEF Next, FlowStep

\* The code a flow exchanges, and what it saw at the path it is to replace.
LEMMA SavingStep ==
  TypeOK /\ Told /\ OwnAuthorizationOnly /\ Looked /\ [Next]_vars
    => (OwnAuthorizationOnly /\ Looked)'
  <1> SUFFICES ASSUME TypeOK, Told, OwnAuthorizationOnly, Looked, [Next]_vars
               PROVE  (OwnAuthorizationOnly /\ Looked)'
    OBVIOUS
  <1> USE OAuthAssumption DEF TypeOK, Busy, Told, OwnAuthorizationOnly, Looked
  <1>1. ASSUME NEW f \in Flows, Bind(f) \/ BindFails(f)
        PROVE  (OwnAuthorizationOnly /\ Looked)'
    BY <1>1 DEF Bind, BindFails
  <1>2. ASSUME NEW f \in Flows, Accept(f) \/ AcceptFails(f) \/ Kill(f)
        PROVE  (OwnAuthorizationOnly /\ Looked)'
    BY <1>2 DEF Accept, AcceptFails, Kill
  <1>3. ASSUME NEW f \in Flows, ReadCallback(f) PROVE (OwnAuthorizationOnly /\ Looked)'
    <2>1. code' = [code EXCEPT ![f] = f]
      BY <1>3 DEF ReadCallback, Valid
    <2> QED
      BY <1>3, <2>1 DEF ReadCallback
  <1>4. ASSUME NEW f \in Flows, ReadRejected(f) \/ ExchangeOrSaveFails(f) \/ Answer(f)
        PROVE  (OwnAuthorizationOnly /\ Looked)'
    BY <1>4 DEF ReadRejected, ExchangeOrSaveFails, Answer, Fail
  <1>5. ASSUME NEW f \in Flows, Exchange(f) PROVE (OwnAuthorizationOnly /\ Looked)'
    BY <1>5 DEF Exchange
  <1>6. ASSUME NEW f \in Flows, CheckOutput(f) PROVE (OwnAuthorizationOnly /\ Looked)'
    BY <1>6 DEF CheckOutput, Replaceable
  <1>7. ASSUME NEW f \in Flows, Publish(f) PROVE (OwnAuthorizationOnly /\ Looked)'
    <2>1. \A g \in Flows : pc[g] = "publish" => g = f
      BY <1>7 DEF Publish
    <2> QED
      BY <1>7, <2>1 DEF Publish
  <1>8. ASSUME NEW x \in Conns, Connect(x) \/ Send(x)
        PROVE  (OwnAuthorizationOnly /\ Looked)'
    BY <1>8 DEF Connect, Send
  <1>9. CASE OtherWrites
    <2>1. \A f \in Flows : pc[f] = "publish" => raced'[f]
      BY <1>9 DEF OtherWrites
    <2> QED
      BY <1>9, <2>1 DEF OtherWrites
  <1>10. CASE UNCHANGED vars
    BY <1>10 DEF vars
  <1> QED
    BY <1>1, <1>2, <1>3, <1>4, <1>5, <1>6, <1>7, <1>8, <1>9, <1>10
    DEF Next, FlowStep

LEMMA Invariance == Spec => []Inv
  <1>1. Inv /\ [Next]_vars => Inv'
    BY TypeStep, SocketsStep, ToldStep, SavingStep DEF Inv
  <1> QED
    BY InitInv, <1>1, PTL DEF Spec

\* Every state of the flows is well-typed, and a flow under way, and only it,
\* holds the callback port.
THEOREM TypeCorrect == Spec => []TypeOK
  <1>1. Inv => TypeOK
    BY DEF Inv
  <1> QED
    BY Invariance, <1>1, PTL

\* complete_oauth_flow_on answers the browser with success, and the command ends
\* with success, only when the tokens have been saved; a command that fails has
\* not replaced the token file.
THEOREM ReportsTell == Spec => []ReportsAreTrue
  <1>1. Inv => SuccessMeansSaved
    BY DEF Inv, TypeOK, Sockets, Told, SuccessMeansSaved
  <1>2. Inv => FailureMeansNotSaved
    BY DEF Inv, Told, FailureMeansNotSaved
  <1>3. Inv => ReportsAreTrue
    BY <1>1, <1>2 DEF ReportsAreTrue
  <1> QED
    BY Invariance, <1>3, PTL

\* parse_callback lets a flow exchange only a code of its own authorization,
\* whichever flow's callback reaches the port.
THEOREM CodesAreOwn == Spec => []OwnAuthorizationOnly
  <1>1. Inv => OwnAuthorizationOnly
    BY DEF Inv
  <1> QED
    BY Invariance, <1>1, PTL

\* save_tokens replaces no file that it saw to hold something else, and between
\* its look at the path and its write no other flow writes there.
THEOREM ReplacesWhatItSaw == Spec => ReplacesOnlySeen
  <1> DEFINE Same == \A f \in Flows : pc[f] = "publish" /\ pc'[f] = "answer" =>
                        raced[f] \/ (file = seen[f] /\ file # Foreign)
  <1>1. Inv => [Same]_vars
    BY DEF Inv, Looked
  <1>2. Spec => [][Same]_vars
    BY Invariance, <1>1, PTL DEF Spec
  <1> QED
    BY <1>2 DEF ReplacesOnlySeen
=============================================================================
