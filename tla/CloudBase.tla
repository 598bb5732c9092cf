----------------------------- MODULE CloudBase -----------------------------
(***************************************************************************)
(* What the threads of snippets/swCloud.c share: the static struct cloud,  *)
(* its mutex, the saved configuration, the descriptors of the process and  *)
(* the cloud agent behind /tmp/cloud.socket, with the routines every       *)
(* thread calls: cloud_do_disconnect, cloud_do_connect, cloud_send_packet. *)
(*                                                                         *)
(* A step is the code from one access of shared data to the next, so two   *)
(* threads interleave wherever the code lets them.  pc[t] names the next   *)
(* access of thread t; a routine returns to the label frame[t].back.       *)
(***************************************************************************)
EXTENDS Integers, Sequences

CONSTANTS
  Daemon,      \* the thread of cloud_daemon
  Handlers,    \* threads that deliver system messages to the msg_ handlers
  Callers,     \* threads that call the sw functions
  NoThread,    \* the mutex is free
  Fds,         \* descriptor numbers the process may use
  Users,       \* cloud accounts
  NoUser,      \* the empty account string
  Infos,       \* values of the device information (name, password, address)
  RetryWait,   \* CLOUD_RETRY_WAIT, in units of CLOUD_PACE
  RetryMax,    \* CLOUD_RETRY_MAX
  IntMod,      \* 2^w for the w-bit int of retry_wait
  Faults,      \* what may go wrong outside: "socket", "refuse", "drop"
  Refusals,    \* the commands the agent may answer with an error
  Controls,    \* the device-control requests the agent may push
  MaxInbox,    \* bound on unread packets of a connection when one is pushed
  Reboots      \* may the device lose power?

NoFd == -1

ASSUME ThreadAssumption ==
  /\ Daemon \notin Handlers \cup Callers
  /\ Handlers \cap Callers = {}
  /\ NoThread \notin {Daemon} \cup Handlers \cup Callers
ASSUME FdAssumption == Fds \subseteq Nat
ASSUME UserAssumption == NoUser \notin Users /\ Infos # {}
ASSUME RetryAssumption ==
  RetryWait \in Nat /\ RetryMax \in Nat /\ IntMod \in Nat \ {0}
ASSUME ControlAssumption ==
  Controls \subseteq {"UNBIND", "ECHO", "RENAME", "GET_RESOLUTION", "RESOLUTION"}
ASSUME BoundAssumption == MaxInbox \in Nat /\ Reboots \in BOOLEAN

VARIABLES
  cloud,   \* the struct cloud: status, binded, update, fd, counters ...
  lock,    \* owner of cloud.lock
  conf,    \* saved account and password (sysConfSetString)
  sock,    \* the socket behind each descriptor number
  agent,   \* the cloud agent: running, device bound, device info it knows
  pc,      \* next access of each thread
  frame    \* locals of each thread

shared == <<cloud, lock, conf, sock, agent>>
vars == <<cloud, lock, conf, sock, agent, pc, frame>>

Threads == {Daemon} \cup Handlers \cup Callers

Statuses ==
  {"INIT", "CONNECTING", "CONNECTED", "DISCONNECTED", "BROKEN", "RESTART"}
Commands == {"AUTH", "REGUSR", "BINDEV", "UBINDEV", "UPDEV"}

-----------------------------------------------------------------------------
(* Packets and sockets.  An answer remembers who asked (to) and what (cmd) *)
(* for the properties; the code sees only whether its text begins with OK. *)

Packet(kind, cmd, to, ok) == [kind |-> kind, cmd |-> cmd, to |-> to, ok |-> ok]
Hello == Packet("hello", "", NoThread, FALSE)
Answer(t, c, ok) == Packet("answer", c, t, ok)
Control(d) == Packet("control", d, NoThread, FALSE)

Packets ==
  {Hello} \cup {Control(d) : d \in Controls}
          \cup {Answer(t, c, ok) : t \in Threads, c \in Commands, ok \in BOOLEAN}

FreeSock == [st |-> "free", auth |-> FALSE, in |-> <<>>]

Unconnected(f) == f \in Fds /\ sock[f].st = "open"
Connected(f) == f \in Fds /\ sock[f].st = "up"
HasPacket(f) == f \in Fds /\ sock[f].st \in {"up", "hup"} /\ sock[f].in # <<>>
\* read() returns 0 or -1: bad descriptor, never connected, or end of file.
ReadFails(f) ==
  f \in Fds => \/ sock[f].st \in {"free", "open"}
               \/ sock[f].st = "hup" /\ sock[f].in = <<>>
Pop(f) == sock' = [sock EXCEPT ![f].in = Tail(@)]

(* The number socket() returns: the lowest free one, or -1.                *)
FreeFds == {f \in Fds : sock[f].st = "free"}
SocketResults ==
  {f \in FreeFds : \A g \in FreeFds : f <= g}
    \cup (IF FreeFds = {} \/ "socket" \in Faults THEN {NoFd} ELSE {})

-----------------------------------------------------------------------------
(* Control flow of a thread.                                               *)

Blank == [back |-> "idle", res |-> "ok", cmd |-> "AUTH", rfd |-> NoFd,
          seen |-> FALSE, info |-> CHOOSE i \in Infos : TRUE, user |-> NoUser]

Goto(t, label) == pc' = [pc EXCEPT ![t] = label]

\* Go on at label with the locals of finished calls forgotten.
Leave(t, label) ==
  /\ Goto(t, label)
  /\ frame' = [frame EXCEPT ![t] = Blank]

Call(t, routine, back) ==
  /\ Goto(t, routine)
  /\ frame' = [frame EXCEPT ![t].back = back]

Return(t, res) ==
  /\ Goto(t, frame[t].back)
  /\ frame' = [frame EXCEPT ![t] =
                [Blank EXCEPT !.res = res, !.user = frame[t].user]]

\* Return from a routine with no result: the caller's result survives.
Done(t) ==
  /\ Goto(t, frame[t].back)
  /\ frame' = [frame EXCEPT ![t].back = "idle"]

\* The arguments of cloud_send_packet; an update carries the device
\* information as it is when cloud_do_update formats it.
Request(t, c, back) ==
  /\ Goto(t, "send")
  /\ frame' = [frame EXCEPT ![t].back = back, ![t].cmd = c,
                            ![t].info = IF c = "UPDEV" THEN cloud.devinfo ELSE @]

-----------------------------------------------------------------------------
(* cloud.lock is taken again by its owner (swCloudBind calls               *)
(* cloud_get_status under it), so it is a recursive mutex.                 *)

CanLock(t) == lock \in {NoThread, t}
Acquire(t) == CanLock(t) /\ lock' = t
Release(t) == lock' = IF lock = t THEN NoThread ELSE lock

\* Mutant: the store is not guarded by the lock.
SetStatusUnlocked(t, at, s, next) ==
  /\ pc[t] = at
  /\ cloud' = [cloud EXCEPT !.status = s]
  /\ Goto(t, next)
  /\ UNCHANGED <<lock, conf, sock, agent, frame>>

(* cloud_set_status: the lock is taken and released around one store.      *)
SetStatus(t, at, s, next) ==
  /\ pc[t] = at
  /\ CanLock(t)
  /\ cloud' = [cloud EXCEPT !.status = s]
  /\ Goto(t, next)
  /\ UNCHANGED <<lock, conf, sock, agent, frame>>

(* int is two's complement: retry_wait <<= 1 past the top comes out as a   *)
(* negative number on the build's target.                                  *)
Wrap(n) == LET m == n % IntMod IN IF 2 * m >= IntMod THEN m - IntMod ELSE m

(* cloud_clear_counter; the three counters are one cell.                   *)
ClearedCounters(c) ==
  [c EXCEPT !.retries = 0, !.waits = 0, !.retry_wait = RetryWait]

-----------------------------------------------------------------------------
(* cloud_do_disconnect: test, close and clear are three accesses of fd.    *)

CloseTest(t) ==
  /\ pc[t] = "close_test"
  /\ IF cloud.fd = NoFd THEN Done(t) ELSE Goto(t, "close_fd") /\ frame' = frame
  /\ UNCHANGED shared

\* Mutant: cloud.fd is forgotten, not closed.
CloseFdForgotten(t) ==
  /\ pc[t] = "close_fd"
  /\ Goto(t, "close_clear")
  /\ UNCHANGED <<shared, frame>>

CloseFd(t) ==
  /\ pc[t] = "close_fd"
  /\ sock' = IF cloud.fd \in Fds THEN [sock EXCEPT ![cloud.fd] = FreeSock] ELSE sock
  /\ Goto(t, "close_clear")
  /\ UNCHANGED <<cloud, lock, conf, agent, frame>>

CloseClear(t) ==
  /\ pc[t] = "close_clear"
  /\ cloud' = [cloud EXCEPT !.fd = NoFd]
  /\ Done(t)
  /\ UNCHANGED <<lock, conf, sock, agent>>

-----------------------------------------------------------------------------
(* cloud_do_connect: socket, connect, and the agent's greeting.  Nothing   *)
(* closes the descriptor cloud.fd held before, nor the new one on failure. *)

ConnectFails(t) ==
  /\ cloud' = [cloud EXCEPT !.reachable = FALSE]
  /\ Return(t, "net")

Socket(t) ==
  /\ pc[t] = "socket"
  /\ \E f \in SocketResults :
       IF f = NoFd
       THEN /\ cloud' = [cloud EXCEPT !.fd = NoFd, !.reachable = FALSE]
            /\ Return(t, "net")
            /\ sock' = sock
       ELSE /\ cloud' = [cloud EXCEPT !.fd = f]
            /\ sock' = [sock EXCEPT ![f].st = "open"]
            /\ Goto(t, "connect")
            /\ frame' = frame
  /\ UNCHANGED <<lock, conf, agent>>

\* connect() works once per socket; the agent greets, or closes at once.
Connect(t) ==
  /\ pc[t] = "connect"
  /\ \/ /\ Unconnected(cloud.fd)
        /\ \/ sock' = [sock EXCEPT ![cloud.fd].st = "up", ![cloud.fd].in = <<Hello>>]
           \/ "refuse" \in Faults /\ sock' = [sock EXCEPT ![cloud.fd].st = "hup"]
        /\ Goto(t, "hello_fd")
        /\ UNCHANGED <<cloud, frame>>
     \/ /\ ~Unconnected(cloud.fd) \/ "refuse" \in Faults
        /\ ConnectFails(t)
        /\ sock' = sock
  /\ UNCHANGED <<lock, conf, agent>>

HelloFd(t) ==
  /\ pc[t] = "hello_fd"
  /\ frame' = [frame EXCEPT ![t].rfd = cloud.fd]
  /\ Goto(t, "hello")
  /\ UNCHANGED shared

ReadHello(t) ==
  LET f == frame[t].rfd IN
  /\ pc[t] = "hello"
  /\ \/ /\ HasPacket(f)
        /\ Pop(f)
        /\ cloud' = [cloud EXCEPT !.reachable = TRUE]
        /\ Return(t, "ok")
     \/ /\ ReadFails(f)
        /\ ConnectFails(t)
        /\ sock' = sock
  /\ UNCHANGED <<lock, conf, agent>>

-----------------------------------------------------------------------------
(* cloud_send_packet of a request: write it, then read one packet as its   *)
(* answer.  Header and body are one packet here.                           *)

\* The agent serves command c, deciding ok; info is what an update carries.
Verdicts(c) == IF c \in Refusals THEN BOOLEAN ELSE {TRUE}
Served(c, ok, info) ==
  IF ~ok THEN agent
  ELSE [agent EXCEPT !.bound = IF c = "BINDEV" THEN TRUE
                               ELSE IF c = "UBINDEV" THEN FALSE ELSE @,
                     !.info = IF c = "UPDEV" THEN info ELSE @]

\* Only cloud_do_update records that the network failed.
RequestFails(t) ==
  /\ cloud' = IF frame[t].cmd = "UPDEV" THEN [cloud EXCEPT !.reachable = FALSE]
              ELSE cloud
  /\ Return(t, "net")

Answered(t, f, c) ==
  \E ok \in Verdicts(c) :
    /\ agent' = Served(c, ok, frame[t].info)
    /\ sock' = [sock EXCEPT ![f].in = Append(@, Answer(t, c, ok)),
                            ![f].auth = @ \/ (c = "AUTH" /\ ok)]

\* The agent goes away before it answers, having served the request or not.
Unanswered(t, f, c) ==
  /\ "drop" \in Faults
  /\ sock' = [sock EXCEPT ![f].st = "hup"]
  /\ \/ agent' = agent
     \/ \E ok \in Verdicts(c) : agent' = Served(c, ok, frame[t].info)

Send(t) ==
  LET f == cloud.fd
      c == frame[t].cmd
  IN
  /\ pc[t] = "send"
  /\ IF Connected(f)
     THEN /\ Answered(t, f, c) \/ Unanswered(t, f, c)
          /\ Goto(t, "recv_fd")
          /\ UNCHANGED <<cloud, frame>>
     ELSE /\ RequestFails(t)
          /\ UNCHANGED <<sock, agent>>
  /\ UNCHANGED <<lock, conf>>

RecvFd(t) ==
  /\ pc[t] = "recv_fd"
  /\ frame' = [frame EXCEPT ![t].rfd = cloud.fd]
  /\ Goto(t, "recv")
  /\ UNCHANGED shared

Recv(t) ==
  LET f == frame[t].rfd IN
  /\ pc[t] = "recv"
  /\ \/ /\ HasPacket(f)
        /\ Pop(f)
        /\ Return(t, IF Head(sock[f].in).ok THEN "ok" ELSE "no")
        /\ cloud' = cloud
     \/ /\ ReadFails(f)
        /\ RequestFails(t)
        /\ sock' = sock
  /\ UNCHANGED <<lock, conf, agent>>

Routine(t) ==
  \/ CloseTest(t) \/ CloseFd(t) \/ CloseClear(t)
  \/ Socket(t) \/ Connect(t) \/ HelloFd(t) \/ ReadHello(t)
  \/ Send(t) \/ RecvFd(t) \/ Recv(t)

-----------------------------------------------------------------------------
(* The agent on its own, and the power supply.                             *)

AgentStarts ==
  /\ ~agent.running
  /\ agent' = [agent EXCEPT !.running = TRUE]
  /\ UNCHANGED <<cloud, lock, conf, sock, pc, frame>>

AgentPushes ==
  /\ \E f \in Fds, d \in Controls :
       /\ Connected(f) /\ sock[f].auth
       /\ Len(sock[f].in) < MaxInbox
       /\ sock' = [sock EXCEPT ![f].in = Append(@, Control(d))]
  /\ UNCHANGED <<cloud, lock, conf, agent, pc, frame>>

AgentDrops ==
  /\ "drop" \in Faults
  /\ \E f \in Fds : Connected(f) /\ sock' = [sock EXCEPT ![f].st = "hup"]
  /\ UNCHANGED <<cloud, lock, conf, agent, pc, frame>>

(* cloud_init and cloud_start, from the saved configuration.               *)
Booted(account, info) ==
  [status |-> "INIT", binded |-> account # NoUser, update |-> FALSE,
   fd |-> NoFd, reachable |-> FALSE, retries |-> 0, waits |-> 0,
   retry_wait |-> RetryWait, account |-> account, devinfo |-> info]

AllFree == [f \in Fds |-> FreeSock]
Started == [t \in Threads |-> IF t = Daemon THEN "boot" ELSE "idle"]

Reboot ==
  /\ Reboots
  /\ \E i \in Infos : cloud' = Booted(conf.account, i)
  /\ lock' = NoThread
  /\ sock' = AllFree
  /\ agent' = [agent EXCEPT !.running = FALSE]
  /\ pc' = Started
  /\ frame' = [t \in Threads |-> Blank]
  /\ conf' = conf

Environment == AgentStarts \/ AgentPushes \/ AgentDrops \/ Reboot

RoutineLabels ==
  {"close_test", "close_fd", "close_clear", "socket", "connect", "hello_fd",
   "hello", "send", "recv_fd", "recv"}

Clouds ==
  [status : Statuses, binded : BOOLEAN, update : BOOLEAN, fd : Fds \cup {NoFd},
   reachable : BOOLEAN, retries : Nat, waits : Nat, retry_wait : Int,
   account : Users \cup {NoUser}, devinfo : Infos]
Sockets ==
  [st : {"free", "open", "up", "hup"}, auth : BOOLEAN, in : Seq(Packets)]
Frames(labels) ==
  [back : labels, res : {"ok", "no", "net", "binded"}, cmd : Commands,
   rfd : Fds \cup {NoFd}, seen : BOOLEAN, info : Infos,
   user : Users \cup {NoUser}]

\* Every variable has its type, with pc and the return labels in labels.
Typed(labels) ==
  /\ cloud \in Clouds
  /\ lock \in Threads \cup {NoThread}
  /\ conf \in [account : Users \cup {NoUser}, password : Users \cup {NoUser}]
  /\ sock \in [Fds -> Sockets]
  /\ agent \in [running : BOOLEAN, bound : BOOLEAN, info : Infos]
  /\ pc \in [Threads -> labels]
  /\ frame \in [Threads -> Frames(labels)]

Init ==
  \E u \in Users \cup {NoUser}, i, j \in Infos :
    /\ cloud = Booted(u, i)
    /\ lock = NoThread
    /\ conf = [account |-> u, password |-> u]
    /\ sock = AllFree
    /\ agent = [running |-> FALSE, bound |-> u # NoUser, info |-> j]
    /\ pc = Started
    /\ frame = [t \in Threads |-> Blank]
=============================================================================
