---------------------------- MODULE RelayServer ----------------------------
(***************************************************************************)
(* socket-programming/http-relay/relay_server.c: a camera's audio, POSTed  *)
(* by relay_client.c, is appended to /tmp/audio, from which GET requests   *)
(* are served.  A process per connection, forked as in EchoServer.         *)
(*                                                                         *)
(* Streams and files are sequences of pieces; a read takes any number of   *)
(* those that have arrived.  Audio pieces are numbered by the camera.      *)
(***************************************************************************)
EXTENDS Integers, Sequences, SequencesExt, FiniteSets

CONSTANTS
  Camera,      \* the connection of relay_client
  Readers,     \* connections of other HTTP clients
  NoClient,    \* a process without a connection
  Procs,       \* process numbers: the limit on server processes
  Main,        \* the first process
  Strays,      \* what the uninitialised pid may hold
  Block,       \* pieces in a block of stdio
  MaxPieces,   \* bound on the audio pieces of the camera
  MaxFile      \* bound on the file when the end of a stream is printed

Clients == {Camera} \cup Readers

ASSUME RelayAssumption ==
  /\ Camera \notin Readers /\ NoClient \notin Clients
  /\ Procs \subseteq Nat \ {0} /\ IsFiniteSet(Procs) /\ Main \in Procs
  /\ Strays \subseteq Int /\ Block \in Nat \ {0}
  /\ MaxPieces \in Nat /\ MaxFile \in Nat

(* Pieces that are not audio.  Junk stands for bytes that do not belong    *)
(* where they are: uninitialised, or left by an earlier read or chunk.     *)
Junk == 0
Post == -1       \* the request lines
Get == -2
Unknown == -3    \* the type of a request that is neither
Http == -4       \* the status line of the camera
Header == -5     \* what the server answers
Pieces == Header..MaxPieces

VARIABLES
  pid,     \* main's variable, the same in every process
  lenOk,   \* whether bufflen, as uninitialised, is a length accept() takes
  proc,    \* each process: where it is, and its locals
  queue,   \* connections made but not accepted
  wire,    \* each connection: its client's end, and the two streams
  disk     \* /tmp/audio: does it exist, and what it holds

serverVars == <<pid, lenOk, proc, queue, wire, disk>>

\* type is the request's; used tells whether recvline or sendline holds
\* anything; out is what stdio has yet to write; pos and eof are a GET's file.
Free == [pc |-> "none", conn |-> NoClient, type |-> Unknown, used |-> FALSE,
         out |-> <<>>, pos |-> 0, eof |-> FALSE]

ServerTypeOK ==
  /\ pid \in Strays /\ lenOk \in BOOLEAN
  /\ proc \in [Procs -> [pc : {"none", "accept", "type", "answer", "post", "get",
                               "quit", "dead"},
                         conn : Clients \cup {NoClient}, type : {Post, Get, Unknown},
                         used : BOOLEAN, out : Seq(Pieces), pos : Nat, eof : BOOLEAN]]
  /\ queue \in Seq(Clients)
  /\ wire \in [Clients -> [end : {"new", "up", "shut", "reset"},
                           up : Seq(Pieces), down : Seq(Pieces)]]
  /\ disk \in [made : BOOLEAN, data : Seq(Pieces)]

Goto(p, label) == proc' = [proc EXCEPT ![p].pc = label]

\* The process is at accept() again, or ends: its locals are gone.
Forget(p, label) == proc' = [proc EXCEPT ![p] = [Free EXCEPT !.pc = label]]

Holders(c) == {p \in Procs : proc[p].conn = c}

Take(c, n) == wire' = [wire EXCEPT ![c].up = SubSeq(@, n + 1, Len(@))]

\* A read meets the end of the stream, or an error.
Ended(c) == \/ wire[c].end = "shut" /\ wire[c].up = <<>>
            \/ wire[c].end = "reset"

(* sys_send_packet, whose result no caller acts upon.  To a client that is *)
(* gone the first bytes bring a reset, any after it an error, or SIGPIPE,  *)
(* which nobody catches.  then is what the process does next.              *)
Sending(p, data, then) ==
  LET c == proc[p].conn IN
  \/ /\ wire' = CASE wire[c].end = "up"    -> [wire EXCEPT ![c].down = @ \o data]
                  [] wire[c].end = "shut"  -> [wire EXCEPT ![c].end = "reset"]
                  [] wire[c].end = "reset" -> wire
     /\ then
  \/ /\ wire[c].end = "reset" /\ data # <<>>
     /\ Forget(p, "dead")
     /\ wire' = wire

-----------------------------------------------------------------------------
\* Mutant: whatever fork() returns, serve.
AfterForkAlways(result, c) == [Free EXCEPT !.pc = "type", !.conn = c]

\* if ( (pid == fork()) == 0 ) thread_client_worker(&conn), else close(conn).
AfterFork(result, c) ==
  IF pid # result THEN [Free EXCEPT !.pc = "type", !.conn = c]
  ELSE [Free EXCEPT !.pc = "accept"]

\* accept() and fork().  The kernel drops a connection whose address it cannot
\* return.  Process numbers are given out in ascending order.
Accept(p) ==
  LET c == Head(queue)
      unused == {q \in Procs : proc[q].pc = "none"}
  IN
  /\ proc[p].pc = "accept"
  /\ queue # <<>>
  /\ queue' = Tail(queue)
  /\ proc' = IF ~lenOk THEN proc
             ELSE IF unused = {} THEN [proc EXCEPT ![p] = AfterFork(-1, c)]
             ELSE LET q == Min(unused)
                  IN [proc EXCEPT ![p] = AfterFork(q, c), ![q] = AfterFork(0, c)]
  /\ UNCHANGED <<pid, lenOk, wire, disk>>

(* get_client_type looks at the start of the first read and drops the rest *)
(* of it.  At the end of the stream recvline is uninitialised.             *)
\* Mutant: what does not begin with POST is taken for a GET or the like.
TypeOfRaw(piece) == piece

TypeOf(piece) == IF piece \in {Post, Get} THEN piece ELSE Unknown

GetClientType(p) ==
  LET c == proc[p].conn
      Typed(t) == proc' = [proc EXCEPT ![p].pc = "answer", ![p].type = t]
  IN
  /\ proc[p].pc = "type"
  /\ \/ \E n \in 1..Len(wire[c].up) : Take(c, n) /\ Typed(TypeOf(wire[c].up[1]))
     \/ wire[c].end = "reset" /\ Typed(Unknown) /\ wire' = wire
     \/ Ended(c) /\ (\E t \in {Post, Get, Unknown} : Typed(t)) /\ wire' = wire
  /\ UNCHANGED <<pid, lenOk, queue, disk>>

(* http_send_404 and close(); or http_send_200 or http_send_ah, and then   *)
(* fopen(): "a" makes the file, "r" of none gives the NULL on which feof() *)
(* faults.                                                                 *)
Answer(p) ==
  LET t == proc[p].type IN
  /\ proc[p].pc = "answer"
  /\ Sending(p, <<Header>>,
       CASE t = Unknown -> Forget(p, "accept")
         [] t = Post    -> Goto(p, "post")
         [] t = Get     -> IF disk.made THEN Goto(p, "get") ELSE Forget(p, "dead"))
  /\ disk' = [disk EXCEPT !.made = @ \/ proc'[p].pc = "post"]
  /\ UNCHANGED <<pid, lenOk, queue>>

\* What a buffer that may be used or not holds behind the new data.
Remains(p) == IF proc[p].used THEN {<<Junk>>} ELSE {<<>>, <<Junk>>}

(* handle_post_read, as often as select() finds the connection readable.   *)
(* The result of the read is dropped: at the end of the stream, or after   *)
(* an error, what recvline still holds is printed to the file, each time.  *)
(* stdio writes whole blocks.                                              *)
Fprintf(p, line) ==
  LET all == proc[p].out \o line
      k == (Len(all) \div Block) * Block
  IN /\ disk' = [disk EXCEPT !.data = @ \o SubSeq(all, 1, k)]
     /\ proc' = [proc EXCEPT ![p].used = TRUE, ![p].out = SubSeq(all, k + 1, Len(all))]

\* Mutant: what was read stays in the stream.
PostReadAgain(p) ==
  LET c == proc[p].conn IN
  /\ proc[p].pc = "post"
  /\ wire[c].up # <<>>
  /\ Len(disk.data) < MaxFile
  /\ Fprintf(p, wire[c].up)
  /\ UNCHANGED <<pid, lenOk, queue, wire>>

PostRead(p) ==
  LET c == proc[p].conn IN
  /\ proc[p].pc = "post"
  /\ \/ \E n \in 1..Len(wire[c].up) :
          Take(c, n) /\ Fprintf(p, SubSeq(wire[c].up, 1, n))
     \/ /\ Ended(c)
        /\ Len(disk.data) < MaxFile
        /\ \E line \in Remains(p) : Fprintf(p, line)
        /\ wire' = wire
  /\ UNCHANGED <<pid, lenOk, queue>>

(* handle_get_write.  sendline ends in a NUL only behind the first chunk,  *)
(* and a short read leaves the chunk before it there.  At end of file the  *)
(* loop only spins: feof() holds for ever.                                 *)
Chunks(p) ==
  LET rest == Len(disk.data) - proc[p].pos
      next == IF rest = 0 THEN <<>> ELSE <<disk.data[proc[p].pos + 1]>>
  IN {[data |-> next, eof |-> eof] : eof \in CASE rest = 0 -> {TRUE}
                                               [] rest = 1 -> BOOLEAN
                                               [] rest > 1 -> {FALSE}}

\* Mutant: a read at the end of the file starts it over.
GetWriteRewinds(p) ==
  /\ proc[p].pc = "get"
  /\ \E chunk \in Chunks(p) :
       Sending(p, chunk.data,
         proc' = [proc EXCEPT ![p].pos = IF chunk.eof THEN 0 ELSE @ + 1])
  /\ Len(wire[proc[p].conn].down) < MaxFile + MaxPieces
  /\ UNCHANGED <<pid, lenOk, queue, disk>>

GetWrite(p) ==
  /\ proc[p].pc = "get" /\ ~proc[p].eof
  /\ \E chunk \in Chunks(p) :
     \E behind \in IF chunk.eof \/ ~proc[p].used THEN Remains(p) ELSE {<<>>} :
       Sending(p, chunk.data \o behind,
         proc' = [proc EXCEPT ![p].pos = @ + Len(chunk.data), ![p].eof = chunk.eof,
                              ![p].used = TRUE])
  /\ UNCHANGED <<pid, lenOk, queue, disk>>

Running == {p \in Procs : proc[p].pc \notin {"none", "quit", "dead"}}
Stopped == [p \in Procs |-> IF p \in Running THEN [Free EXCEPT !.pc = "quit"] ELSE proc[p]]

\* Mutant: _exit().
QuitAtOnce ==
  /\ Running # {}
  /\ proc' = Stopped
  /\ UNCHANGED <<pid, lenOk, queue, wire, disk>>

(* _server_quit.  SIGINT comes from the terminal, to every process; each   *)
(* one's exit() writes what stdio holds.                                   *)
Quit ==
  /\ Running # {}
  /\ proc' = Stopped
  /\ \E order \in SetToSeqs(Running) :
       disk' = [disk EXCEPT !.data =
                 @ \o FlattenSeq([i \in DOMAIN order |-> proc[order[i]].out])]
  /\ UNCHANGED <<pid, lenOk, queue, wire>>
=============================================================================
