------------------------------ MODULE MCDaemon ------------------------------
(* Values for TLC's instances of CloudDaemon and of the modules above it.  *)
EXTENDS CloudDaemonInv, CloudBinding

(* What may go wrong outside the process.                                  *)
AnyFault == {"socket", "refuse", "drop"}
AgentFaults == {"refuse", "drop"}

(* The agent may refuse whatever a bound device sends.                     *)
BoundCommands == {"AUTH", "UPDEV", "UBINDEV"}

AllMessages == {"field", "upnp", "network"}
=============================================================================
