---------------------------- MODULE RelayClient ----------------------------
(***************************************************************************)
(* socket-programming/http-relay/relay_client.c between a camera and the   *)
(* server: GET the audio from the one, POST it to the other.               *)
(***************************************************************************)
EXTENDS RelayServer

CONSTANTS
  Zeros,       \* the audio pieces that may hold a zero byte
  Window       \* unread pieces at which a connection takes no more

ASSUME ClientAssumption == Zeros \subseteq 1..MaxPieces /\ Window \in Nat \ {0}

VARIABLES
  cam,     \* the camera: its end of the connection, what it has sent, the stream,
           \* and the pieces that hold a zero byte
  relay    \* relay_client: where it is, recvline

clientVars == <<cam, relay>>
vars == <<serverVars, clientVars>>

TypeOK ==
  /\ ServerTypeOK
  /\ cam \in [end : {"new", "up", "shut"}, sent : -1..MaxPieces, up : Seq(Pieces),
             zeros : SUBSET Zeros]
  /\ relay \in [pc : {"local", "remote", "get", "select", "process_remote", "close",
                      "done", "dead"},
                line : Seq(BOOLEAN)]

Step(label) == relay' = [relay EXCEPT !.pc = label]

\* The server's end of c is closed: nobody is left to read it.
HungUp(c) == wire[c].end # "new" /\ c \notin ToSet(queue) /\ Holders(c) = {}

\* connect() to the server, unless it fails.
Dial(c) ==
  \/ wire' = [wire EXCEPT ![c].end = "up"] /\ queue' = Append(queue, c)
  \/ UNCHANGED <<wire, queue>>

-----------------------------------------------------------------------------
(* main: neither connect() is looked at.                                   *)
InitLocal ==
  /\ relay.pc = "local"
  /\ \/ cam' = [cam EXCEPT !.end = "up"]
     \/ cam' = cam
  /\ Step("remote")
  /\ UNCHANGED serverVars

InitRemote ==
  /\ relay.pc = "remote"
  /\ Dial(Camera)
  /\ Step("get")
  /\ UNCHANGED <<pid, lenOk, proc, disk, cam>>

\* http_get: a send on a socket that is not connected raises SIGPIPE.
HttpGet ==
  /\ relay.pc = "get"
  /\ IF cam.end = "new" THEN Step("dead") /\ cam' = cam
     ELSE /\ Step("select")
          /\ cam' = IF cam.end = "up" THEN [cam EXCEPT !.sent = 0, !.up = <<Http>>] ELSE cam
  /\ UNCHANGED serverVars

\* What the two calls of select(), neither of which waits, may report.
LocalReadable == cam.up # <<>> \/ cam.end = "shut"
RemoteWritable == wire[Camera].end = "new" \/ HungUp(Camera) \/ Len(wire[Camera].up) < Window
RemoteReadable == wire[Camera].end = "new" \/ HungUp(Camera) \/ wire[Camera].down # <<>>

(* process_local.  recv() fills the front of recvline and ends no string:  *)
(* what is sent on runs to the first zero byte, be it one of an earlier    *)
(* read.  line says which pieces of recvline hold one; pieces are taken to *)
(* be of one size.                                                         *)
Received(data) ==
  [i \in DOMAIN data |-> data[i] \in cam.zeros] \o SubSeq(relay.line, Len(data) + 1, Len(relay.line))
\* Mutant: one too short.
ToZeroShort(line) == Min({i \in DOMAIN line : line[i]} \cup {Len(line)}) - 1

ToZero(line) == Min({i \in DOMAIN line : line[i]} \cup {Len(line)})
Forwarded(data) ==
  LET k == ToZero(Received(data)) IN
  IF data[1] = Http THEN <<Post>>
  ELSE IF k <= Len(data) THEN SubSeq(data, 1, k) ELSE Append(data, Junk)

\* Mutant: the result of process_local is not looked at.
AfterLocalIgnored(failed, readable) == IF readable THEN "process_remote" ELSE "select"

\* ret is what process_remote returns, if it is called.
AfterLocal(failed, readable) ==
  IF readable THEN "process_remote" ELSE IF failed THEN "close" ELSE "select"

\* readable is what select() said of the server a moment ago.  tcp_send to a
\* server that is gone fails, or raises SIGPIPE.
ProcessLocal ==
  /\ relay.pc = "select"
  /\ LocalReadable /\ RemoteWritable
  /\ \E readable \in {FALSE, RemoteReadable} :
     \/ \E n \in 1..Len(cam.up) :
          LET data == SubSeq(cam.up, 1, n)
              line == Received(data)
          IN
          /\ cam' = [cam EXCEPT !.up = SubSeq(@, n + 1, Len(@))]
          /\ IF wire[Camera].end = "up" /\ ~HungUp(Camera)
             THEN /\ wire' = [wire EXCEPT ![Camera].up = @ \o Forwarded(data)]
                  /\ relay' = [pc |-> AfterLocal(FALSE, readable), line |-> line]
             ELSE /\ \E label \in {AfterLocal(TRUE, readable), "dead"} :
                       relay' = [pc |-> label, line |-> line]
                  /\ wire' = wire
     \/ /\ cam.up = <<>>
        /\ Step(AfterLocal(TRUE, readable))
        /\ UNCHANGED <<cam, wire>>
  /\ UNCHANGED <<pid, lenOk, proc, queue, disk>>

ProcessRemote ==
  /\ \/ relay.pc = "process_remote"
     \/ relay.pc = "select" /\ RemoteReadable
  /\ IF wire[Camera].down # <<>>
     THEN wire' = [wire EXCEPT ![Camera].down = <<>>] /\ Step("select")
     ELSE wire' = wire /\ Step("close")
  /\ UNCHANGED <<pid, lenOk, proc, queue, disk, cam>>

\* A client that leaves: with a reset when something was left unread.
Hang(c) ==
  wire' = IF wire[c].end = "up"
          THEN [wire EXCEPT ![c].end = IF wire[c].down = <<>> THEN "shut" ELSE "reset"]
          ELSE wire

\* Both ends are closed, also by the exit of a process that was killed.
CloseBoth ==
  /\ relay.pc \in {"close", "dead"}
  /\ Hang(Camera)
  /\ Step("done")
  /\ UNCHANGED <<pid, lenOk, proc, queue, disk, cam>>

RelayStep ==
  \/ InitLocal \/ InitRemote \/ HttpGet \/ ProcessLocal \/ ProcessRemote
  \/ CloseBoth

-----------------------------------------------------------------------------
(* The camera, and the other clients of the server.                        *)

CameraSends ==
  /\ cam.end = "up"
  /\ cam.sent >= 0 /\ cam.sent < MaxPieces
  /\ LET n == cam.sent + 1 IN
     \E zeros \in SUBSET ({n} \cap Zeros) :
       cam' = [cam EXCEPT !.sent = n, !.up = Append(@, n), !.zeros = @ \cup zeros]
  /\ UNCHANGED <<serverVars, relay>>

CameraEnds ==
  /\ cam.end = "up"
  /\ cam' = [cam EXCEPT !.end = "shut"]
  /\ UNCHANGED <<serverVars, relay>>

ReaderAsks(c) ==
  /\ wire[c].end = "new"
  /\ wire' = [wire EXCEPT ![c].end = "up", ![c].up = <<Get>>]
  /\ queue' = Append(queue, c)
  /\ UNCHANGED <<pid, lenOk, proc, disk, clientVars>>

ReaderLeaves(c) ==
  /\ wire[c].end = "up"
  /\ wire' = [wire EXCEPT ![c].end = "shut"]
  /\ UNCHANGED <<pid, lenOk, proc, queue, disk, clientVars>>

-----------------------------------------------------------------------------
ServerStep(p) ==
  \/ Accept(p) \/ GetClientType(p) \/ Answer(p) \/ PostRead(p) \/ GetWrite(p)

Init ==
  /\ pid \in Strays /\ lenOk \in BOOLEAN
  /\ proc = [p \in Procs |-> IF p = Main THEN [Free EXCEPT !.pc = "accept"] ELSE Free]
  /\ queue = <<>>
  /\ wire = [c \in Clients |-> [end |-> "new", up |-> <<>>, down |-> <<>>]]
  /\ disk = [made |-> FALSE, data |-> <<>>]
  /\ cam = [end |-> "new", sent |-> -1, up |-> <<>>, zeros |-> {}]
  /\ \E line \in {<<>>, <<FALSE, FALSE>>} :
       relay = [pc |-> "local", line |-> line]

Next ==
  \/ \E p \in Procs : ServerStep(p) /\ UNCHANGED clientVars
  \/ Quit /\ UNCHANGED clientVars
  \/ RelayStep \/ CameraSends \/ CameraEnds
  \/ \E c \in Readers : ReaderAsks(c) \/ ReaderLeaves(c)

Spec == Init /\ [][Next]_vars

(* The processes are scheduled.  Nothing obliges a camera or a reader to   *)
(* come, to send or to leave, or anybody to stop the server.               *)
Fairness ==
  /\ \A p \in Procs : WF_vars(ServerStep(p) /\ UNCHANGED clientVars)
  /\ WF_vars(RelayStep)

FairSpec == Spec /\ Fairness

-----------------------------------------------------------------------------
(* Properties.  Those for pid = 0 are about a main whose stack held 0, in  *)
(* which one process serves each connection.                               *)

Audio(s) ==
  LET upTo[i \in 0..Len(s)] ==
        IF i = 0 THEN <<>>
        ELSE IF s[i] > 0 THEN Append(upTo[i - 1], s[i]) ELSE upTo[i - 1]
  IN upTo[Len(s)]
Kept == ToSet(Audio(disk.data)) \cup UNION {ToSet(Audio(proc[p].out)) : p \in Procs}

\* Through the camera's connection, recvline, the server's connection and
\* stdio, however the reads cut the stream, audio comes to the file in the
\* order in which the camera sent it, and nothing twice.
PostedInOrder ==
  pid = 0 => \A i, j \in DOMAIN Audio(disk.data) :
               i < j => Audio(disk.data)[i] < Audio(disk.data)[j]

\* Once the first audio has come to the server nothing is lost on the way
\* there: what the relay has taken from the camera is kept or under way, up to
\* the first zero byte (strlen), while the server is there to take it.
NoGap ==
  pid = 0 /\ ~HungUp(Camera) =>
    \A m \in Kept, n \in 1..MaxPieces :
      m < n /\ n <= cam.sent /\ (\A z \in cam.zeros : n < z) =>
        n \in Kept \cup ToSet(cam.up) \cup ToSet(wire[Camera].up)

\* Audio the server has taken is in the file or in the buffer of a process
\* that will write it: no end of a process loses it, be it by SIGINT or SIGPIPE.
NothingLost == [][Kept \subseteq Kept']_vars

\* A reader hears the audio of the file from its start, in order, and nothing
\* of it twice, even while the file grows.
Heard ==
  pid = 0 => \A c \in Readers : IsPrefix(Audio(wire[c].down), Audio(disk.data))

\* Neither loop of the server ends, and still a process is at accept() until
\* fork() has failed, unless somebody stops one.
Accepted == {c \in Clients : wire[c].end # "new" /\ c \notin ToSet(queue)}
Available ==
  pid = 0 /\ Cardinality(Accepted) < Cardinality(Procs) =>
    \E p \in Procs : proc[p].pc \in {"accept", "quit"}

\* Whichever end goes first, the relay ends, unless the server leaves the
\* connection full: then it does not look at the camera any more.
Stuck == relay.pc = "select" /\ ~RemoteWritable
RelayEnds ==
  relay.pc = "select" /\ (cam.end = "shut" \/ HungUp(Camera)) ~>
    relay.pc = "done" \/ [](Stuck)
=============================================================================
