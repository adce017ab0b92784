----------------------------- MODULE MCOAuthFlow -----------------------------
(***************************************************************************)
(* OAuthFlow for TLC: two auth commands and three connections, so that a   *)
(* callback can be repeated, come late or come second.                     *)
(***************************************************************************)
EXTENDS OAuthFlow, TLC

CONSTANTS f1, f2, x1, x2, x3

MCFlows == {f1, f2}
MCConns == {x1, x2}
MCConns3 == {x1, x2, x3}
=============================================================================
