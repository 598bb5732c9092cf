------------------------------- MODULE MCApi -------------------------------
(* Values for TLC's instances of CloudApi.                                 *)
EXTENDS CloudApiInv, CloudBinding

AgentFaults == {"refuse", "drop"}

(* The defaults, 3000 ms and 20 retries in a 32-bit int, scaled down so    *)
(* that, as there, the last retry's wait fits and the shift after it does  *)
(* not: 3000 * 2^19 < 2^31 <= 3000 * 2^20, and 3 * 2 < 8 <= 3 * 4.         *)
ScaledWait == 3
ScaledMax == 2
ScaledMod == 16
=============================================================================
