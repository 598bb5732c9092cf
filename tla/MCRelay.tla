------------------------------ MODULE MCRelay ------------------------------
(* Values for TLC's instances of RelayClient.                              *)
EXTENDS RelayClient

(* With 0 only the parent serves a connection; with a number that is no    *)
(* process both sides of the fork do.                                      *)
BothStrays == {0, 9}
=============================================================================
