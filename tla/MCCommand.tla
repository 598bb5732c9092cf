----------------------------- MODULE MCCommand -----------------------------
(* Values for TLC's instances of CloudCommand.                             *)
EXTENDS CloudCommand

(* What a text, and a ping beside it, may call.                            *)
CommandOps == {"Bind", "RegUsr", "Ping"}
=============================================================================
