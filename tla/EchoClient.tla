----------------------------- MODULE EchoClient -----------------------------
(***************************************************************************)
(* socket-programming/client-server/client.c against the server: a line    *)
(* from the terminal, a wait of 500 seconds for something to come back,    *)
(* the next line.  A late echo is taken for the answer to a later line.    *)
(***************************************************************************)
EXTENDS EchoServer

CONSTANT MaxLines    \* bound on the lines typed at a client

ASSUME LineAssumption == MaxLines \in Nat

VARIABLE client    \* each client: where it is, lines sent, pieces printed

vars == <<serverVars, client>>

ClientLabels == {"connect", "line", "send", "select", "recv", "exit"}

TypeOK ==
  /\ ServerTypeOK
  /\ client \in [Clients -> [pc : ClientLabels, sent : 0..MaxLines, seen : Seq(Nat)]]

Move(c, label) == client' = [client EXCEPT ![c].pc = label]

\* The server has closed its end.
HungUp(c) ==
  wire[c].end # "new" /\ c \notin ToSet(queue) /\ Holders(c) = {}

-----------------------------------------------------------------------------
\* _socket_init; that connect() failed goes unnoticed.
Connect(c) ==
  /\ client[c].pc = "connect"
  /\ \/ /\ Len(queue) < Backlog
        /\ queue' = Append(queue, c)
        /\ wire' = [wire EXCEPT ![c].end = "up"]
     \/ UNCHANGED <<queue, wire>>
  /\ Move(c, "line")
  /\ UNCHANGED <<pid, lenOk, proc>>

Line(c) ==
  /\ client[c].pc = "line"
  /\ client[c].sent < MaxLines
  /\ Move(c, "send")
  /\ UNCHANGED serverVars

\* An error of send() is printed, and the line is waited for all the same.
SendLine(c) ==
  LET n == client[c].sent + 1 IN
  /\ client[c].pc = "send"
  /\ wire' = IF wire[c].end = "up" /\ ~HungUp(c)
             THEN [wire EXCEPT ![c].up = Append(@, n)]
             ELSE wire
  /\ client' = [client EXCEPT ![c].pc = "select", ![c].sent = n]
  /\ UNCHANGED <<pid, lenOk, proc, queue>>

\* _recv_echo: select() returns at once, or not for 500 seconds.
Readable(c) == wire[c].end # "up" \/ wire[c].down # <<>> \/ HungUp(c)

Select(c) ==
  /\ client[c].pc = "select"
  /\ Readable(c)
  /\ Move(c, "recv")
  /\ UNCHANGED serverVars

Timeout(c) ==
  /\ client[c].pc = "select"
  /\ ~Readable(c)
  /\ Move(c, "line")
  /\ UNCHANGED serverVars

\* recv() of what has come, and fputs().
RecvEcho(c) ==
  /\ client[c].pc = "recv"
  /\ \/ \E n \in 1..Len(wire[c].down) :
          /\ wire' = [wire EXCEPT ![c].down = SubSeq(@, n + 1, Len(@))]
          /\ client' = [client EXCEPT ![c].pc = "line",
                                      ![c].seen = @ \o SubSeq(wire[c].down, 1, n)]
     \/ /\ wire[c].down = <<>>
        /\ Move(c, "line")
        /\ wire' = wire
  /\ UNCHANGED <<pid, lenOk, proc, queue>>

\* End of input, or SIGINT at any point: the kernel closes the connection,
\* with a reset when answers were left unread.
Exit(c) ==
  /\ client[c].pc # "exit"
  /\ Move(c, "exit")
  /\ wire' = IF wire[c].end = "up"
             THEN [wire EXCEPT ![c].end = IF wire[c].down = <<>> THEN "shut" ELSE "reset",
                               ![c].down = <<>>]
             ELSE wire
  /\ UNCHANGED <<pid, lenOk, proc, queue>>

ClientStep(c) ==
  \/ Connect(c) \/ Line(c) \/ SendLine(c) \/ Select(c) \/ Timeout(c) \/ RecvEcho(c)
  \/ Exit(c)

-----------------------------------------------------------------------------
Init ==
  /\ ServerInit
  /\ client = [c \in Clients |-> [pc |-> "connect", sent |-> 0, seen |-> <<>>]]

Next ==
  \/ \E p \in Procs : ServerStep(p) /\ UNCHANGED client
  \/ \E c \in Clients : ClientStep(c)

Spec == Init /\ [][Next]_vars

(* Every process is scheduled.  Nothing obliges a user to type, or a wait   *)
(* of 500 seconds to end at any particular moment.                          *)
Fairness == \A p \in Procs : WF_vars(ServerStep(p) /\ UNCHANGED client)

FairSpec == Spec /\ Fairness

-----------------------------------------------------------------------------
(* Properties.                                                             *)

\* However many processes read one connection, and whatever the client
\* waits for, a piece is in one place only: on its way to the server, in the
\* buffer of one process, on its way back, or printed.
Places(c) ==
  [up |-> wire[c].up, down |-> wire[c].down, seen |-> client[c].seen]
Buffered(c, n) == {p \in Holders(c) : n \in ToSet(proc[p].buf)}
EchoedOnce ==
  \A c \in Clients :
    /\ \A i, j \in DOMAIN Places(c) : \A n \in ToSet(Places(c)[i]) :
         /\ n \in ToSet(Places(c)[j]) => i = j
         /\ Buffered(c, n) = {}
    /\ \A n \in 1..MaxLines : \A p, q \in Buffered(c, n) : p = q

\* When main's stack held 0, only the parent echoes, and what the client
\* prints is in the order in which it was sent, timeouts and late echoes
\* included.
InOrder ==
  pid = 0 => \A c \in Clients : \A i, j \in DOMAIN client[c].seen :
               i < j => client[c].seen[i] < client[c].seen[j]

\* A connection is accepted once and never handed on: at most the two sides
\* of one fork() hold it, although each of them forks again.
HeldByTwo ==
  \A c \in Clients : \A p, q, r \in Holders(c) : p = q \/ q = r \/ p = r

\* Once a client is gone every process that holds its connection closes it.
ClosedEverywhere ==
  \A c \in Clients :
    client[c].pc = "exit" /\ Holders(c) # {} ~> Holders(c) = {}

\* Both sides of a fork() may echo, which leaves nobody at accept(); still,
\* when every user leaves some day, a client that waits to be accepted is,
\* unless SIGPIPE has killed every process.
Accepted ==
  (\A c \in Clients : <>(client[c].pc = "exit")) =>
    \A c \in Clients :
      c \in ToSet(queue) ~> \/ c \notin ToSet(queue)
                            \/ \A p \in Procs : proc[p].pc \in {"none", "dead"}
=============================================================================
