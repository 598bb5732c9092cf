----------------------------- MODULE EchoServer -----------------------------
(***************************************************************************)
(* socket-programming/client-server/server.c: a process accepts a          *)
(* connection, forks, and whoever then finds pid # fork() echoes.  pid is  *)
(* compared with the result of fork(), never assigned, so it keeps what    *)
(* main's stack held; both processes may echo the same connection, and     *)
(* both go back to accept() afterwards.                                    *)
(*                                                                         *)
(* A stream is cut into pieces, numbered by the client that sends them; a  *)
(* read may take any number of them that have arrived.                     *)
(***************************************************************************)
EXTENDS Integers, Sequences, SequencesExt

CONSTANTS
  Clients,     \* each one makes one connection
  NoClient,    \* a process without a connection
  Procs,       \* process numbers: the limit on server processes
  Main,        \* the first process
  Strays,      \* what the uninitialised pid may hold
  Backlog      \* connections that may wait for accept()

ASSUME ClientAssumption == NoClient \notin Clients
ASSUME ProcAssumption ==
  Procs \subseteq Nat \ {0} /\ Main \in Procs /\ Strays \subseteq Int
ASSUME BacklogAssumption == Backlog \in Nat

VARIABLES
  pid,     \* main's variable, the same in every process
  lenOk,   \* whether bufflen, as uninitialised, is a length accept() takes
  proc,    \* each process: where it is, its conn, and what it has read
  queue,   \* connections made but not accepted
  wire     \* each client's connection: its end, and the two streams

serverVars == <<pid, lenOk, proc, queue, wire>>

Free == [pc |-> "none", conn |-> NoClient, buf |-> <<>>]

ServerTypeOK ==
  /\ pid \in Strays /\ lenOk \in BOOLEAN
  /\ proc \in [Procs -> [pc : {"none", "accept", "fork", "read", "send", "close",
                               "dead"},
                         conn : Clients \cup {NoClient}, buf : Seq(Nat)]]
  /\ \A p \in Procs :
       proc[p].conn = NoClient <=> proc[p].pc \in {"none", "accept", "dead"}
  /\ queue \in Seq(Clients)
  /\ wire \in [Clients -> [end : {"new", "up", "shut", "reset"},
                           up : Seq(Nat), down : Seq(Nat)]]

Goto(p, label) == proc' = [proc EXCEPT ![p].pc = label]

\* The processes that hold a copy of the connection of c.
Holders(c) == {p \in Procs : proc[p].conn = c}

\* close(conn), or the exit of p: the last copy closes the connection, and
\* what p had not read makes it a reset, which may overtake the answers.
Drop(p, label) ==
  LET c == proc[p].conn IN
  /\ proc' = [proc EXCEPT ![p] = [Free EXCEPT !.pc = label]]
  /\ \/ wire' = wire
     \/ /\ Holders(c) = {p} /\ wire[c].up # <<>>
        /\ wire' = [wire EXCEPT ![c].down = <<>>]

-----------------------------------------------------------------------------
\* Mutant: every process at accept() takes the same connection.
AcceptKeeps(p) ==
  /\ proc[p].pc = "accept"
  /\ queue # <<>>
  /\ IF lenOk
     THEN proc' = [proc EXCEPT ![p].pc = "fork", ![p].conn = Head(queue)]
     ELSE proc' = proc
  /\ UNCHANGED <<pid, lenOk, queue, wire>>

\* The kernel drops the connection whose address it cannot return.
Accept(p) ==
  /\ proc[p].pc = "accept"
  /\ queue # <<>>
  /\ IF lenOk
     THEN proc' = [proc EXCEPT ![p].pc = "fork", ![p].conn = Head(queue)]
     ELSE proc' = proc
  /\ queue' = Tail(queue)
  /\ UNCHANGED <<pid, lenOk, wire>>

\* Mutant: whatever fork() returns, echo.
AfterForkAlways(result) == "read"

\* if ( (pid == fork()) == 0 ) _str_echo(conn);
AfterFork(result) == IF pid # result THEN "read" ELSE "close"

Fork(p) ==
  /\ proc[p].pc = "fork"
  /\ \/ Goto(p, AfterFork(-1))
     \/ \E q \in Procs :
          /\ proc[q].pc = "none"
          /\ proc' = [proc EXCEPT ![p].pc = AfterFork(q),
                                  ![q] = [proc[p] EXCEPT !.pc = AfterFork(0)]]
  /\ UNCHANGED <<pid, lenOk, queue, wire>>

\* Mutant: what was read stays in the stream.
ReadAgain(p) ==
  LET c == proc[p].conn IN
  /\ proc[p].pc = "read"
  /\ wire[c].up # <<>>
  /\ proc' = [proc EXCEPT ![p].pc = "send", ![p].buf = wire[c].up]
  /\ UNCHANGED <<pid, lenOk, queue, wire>>

\* Mutant: the loop goes on at the end of the stream.
ReadSpins(p) ==
  LET c == proc[p].conn IN
  /\ proc[p].pc = "read"
  /\ \E n \in 1..Len(wire[c].up) :
       /\ proc' = [proc EXCEPT ![p].pc = "send", ![p].buf = SubSeq(wire[c].up, 1, n)]
       /\ wire' = [wire EXCEPT ![c].up = SubSeq(@, n + 1, Len(@))]
  /\ UNCHANGED <<pid, lenOk, queue>>

\* Some of what has arrived; or the end, or an error, which end the loop.
Read(p) ==
  LET c == proc[p].conn IN
  /\ proc[p].pc = "read"
  /\ \/ \E n \in 1..Len(wire[c].up) :
          /\ proc' = [proc EXCEPT ![p].pc = "send", ![p].buf = SubSeq(wire[c].up, 1, n)]
          /\ wire' = [wire EXCEPT ![c].up = SubSeq(@, n + 1, Len(@))]
     \/ /\ \/ wire[c].end = "shut" /\ wire[c].up = <<>>
           \/ wire[c].end = "reset"
        /\ Goto(p, "close")
        /\ wire' = wire
  /\ UNCHANGED <<pid, lenOk, queue>>

\* To a client that is gone the first bytes bring a reset, and any bytes
\* after it an error, or SIGPIPE, which nobody catches.
Send(p) ==
  LET c == proc[p].conn IN
  /\ proc[p].pc = "send"
  /\ \/ /\ wire[c].end = "up"
        /\ wire' = [wire EXCEPT ![c].down = @ \o proc[p].buf]
        /\ proc' = [proc EXCEPT ![p].pc = "read", ![p].buf = <<>>]
     \/ /\ wire[c].end = "shut"
        /\ \E e \in {"shut", "reset"} : wire' = [wire EXCEPT ![c].end = e]
        /\ proc' = [proc EXCEPT ![p].pc = "read", ![p].buf = <<>>]
     \/ /\ wire[c].end = "reset"
        /\ proc' = [proc EXCEPT ![p].pc = "read", ![p].buf = <<>>]
        /\ wire' = wire
     \/ wire[c].end = "reset" /\ Drop(p, "dead")
  /\ UNCHANGED <<pid, lenOk, queue>>

\* Mutant: the connection stays open.
CloseForgotten(p) ==
  /\ proc[p].pc = "close"
  /\ Goto(p, "accept")
  /\ UNCHANGED <<pid, lenOk, queue, wire>>

Close(p) ==
  /\ proc[p].pc = "close"
  /\ Drop(p, "accept")
  /\ UNCHANGED <<pid, lenOk, queue>>

ServerStep(p) == Accept(p) \/ Fork(p) \/ Read(p) \/ Send(p) \/ Close(p)

ServerInit ==
  /\ pid \in Strays /\ lenOk \in BOOLEAN
  /\ proc = [p \in Procs |-> IF p = Main THEN [Free EXCEPT !.pc = "accept"] ELSE Free]
  /\ queue = <<>>
  /\ wire = [c \in Clients |-> [end |-> "new", up |-> <<>>, down |-> <<>>]]
=============================================================================
