------------------------------- MODULE MCEcho -------------------------------
(* Values for TLC's instances of EchoClient.                               *)
EXTENDS EchoClient

(* fork() returns -1, 0 or a process number; 2 is the number of one of the *)
(* two processes the first one may create.                                 *)
AllStrays == {-1, 0, 2}
=============================================================================
