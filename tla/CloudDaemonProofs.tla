------------------------- MODULE CloudDaemonProofs -------------------------
(***************************************************************************)
(* IInv is an inductive invariant of CloudDaemon, and what follows from    *)
(* it, for any threads, descriptors, faults, refusals, pushes and retry    *)
(* limits: the session, and that the daemon forgets the binding only when  *)
(* the agent has, so that CloudDaemon implements Binding.                  *)
(***************************************************************************)
EXTENDS CloudDaemonInv, CloudBinding, TLAPS

-----------------------------------------------------------------------------
(* The type invariant.                                                     *)

Labels == RoutineLabels \cup DaemonLabels \cup HandlerLabels

LEMMA BlankType ==
  ASSUME NEW L, Labels \subseteq L
  PROVE  Blank \in Frames(L)
  BY UserAssumption DEF Blank, Frames, Labels, HandlerLabels, Commands

\* The helpers that move a thread keep pc and frame typed.
LEMMA GotoType ==
  ASSUME NEW L, Labels \subseteq L, Typed(L),
         NEW t \in Threads, NEW l \in L, Goto(t, l)
  PROVE  pc' \in [Threads -> L]
  BY DEF Typed, Goto

LEMMA FrameTyped ==
  ASSUME NEW L, Labels \subseteq L, Typed(L), NEW t \in Threads
  PROVE  frame[t] \in Frames(L)
  BY DEF Typed

LEMMA CallType ==
  ASSUME NEW L, Labels \subseteq L, Typed(L),
         NEW t \in Threads, NEW l \in L, NEW b \in L, Call(t, l, b)
  PROVE  pc' \in [Threads -> L] /\ frame' \in [Threads -> Frames(L)]
<1>1. [frame[t] EXCEPT !.back = b] \in Frames(L)
  BY FrameTyped DEF Frames
<1> QED
  BY <1>1, GotoType DEF Call, Typed

LEMMA LeaveType ==
  ASSUME NEW L, Labels \subseteq L, Typed(L),
         NEW t \in Threads, NEW l \in L, Leave(t, l)
  PROVE  pc' \in [Threads -> L] /\ frame' \in [Threads -> Frames(L)]
  BY GotoType, BlankType DEF Leave, Typed

LEMMA DoneType ==
  ASSUME NEW L, Labels \subseteq L, Typed(L), NEW t \in Threads, Done(t)
  PROVE  pc' \in [Threads -> L] /\ frame' \in [Threads -> Frames(L)]
<1>1. "idle" \in L /\ frame[t].back \in L
  BY FrameTyped DEF Labels, HandlerLabels, Frames
<1>2. [frame[t] EXCEPT !.back = "idle"] \in Frames(L)
  BY <1>1, FrameTyped DEF Frames
<1> QED
  BY <1>1, <1>2, GotoType DEF Done, Typed

LEMMA ReturnType ==
  ASSUME NEW L, Labels \subseteq L, Typed(L),
         NEW t \in Threads, NEW r \in {"ok", "no", "net"}, Return(t, r)
  PROVE  pc' \in [Threads -> L] /\ frame' \in [Threads -> Frames(L)]
<1>1. frame[t].back \in L
  BY FrameTyped DEF Frames
<1>2. [Blank EXCEPT !.res = r, !.user = frame[t].user] \in Frames(L)
  BY BlankType, FrameTyped DEF Frames
<1> QED
  BY <1>1, <1>2, GotoType DEF Return, Typed

LEMMA RequestType ==
  ASSUME NEW L, Labels \subseteq L, Typed(L),
         NEW t \in Threads, NEW c \in Commands, NEW b \in L, Request(t, c, b)
  PROVE  pc' \in [Threads -> L] /\ frame' \in [Threads -> Frames(L)]
<1>1. "send" \in L
  BY DEF Labels, RoutineLabels
<1> DEFINE i == IF c = "UPDEV" THEN cloud.devinfo ELSE frame[t].info
<1> DEFINE g == [frame[t] EXCEPT !.back = b, !.cmd = c, !.info = i]
<1>2. i \in Infos
  BY FrameTyped DEF Typed, Clouds, Frames
<1>3. g \in Frames(L)
  BY ZenonT(40), <1>2, FrameTyped DEF Frames
<1>4. frame' = [frame EXCEPT ![t] = g]
  BY FrameTyped DEF Request, Typed, Frames
<1> HIDE DEF g
<1>5. frame' \in [Threads -> Frames(L)]
  BY <1>3, <1>4 DEF Typed
<1> QED
  BY <1>1, <1>5, GotoType DEF Request

LEMMA SharedType ==
  ASSUME NEW L, Labels \subseteq L, Typed(L), UNCHANGED shared,
         pc' \in [Threads -> L], frame' \in [Threads -> Frames(L)]
  PROVE  Typed(L)'
  BY DEF Typed, shared, Labels

\* A socket stays one when its state changes and when a packet is read or
\* added.
LEMMA StateType ==
  ASSUME NEW L, Labels \subseteq L, Typed(L),
         NEW f \in Fds, NEW st \in {"free", "open", "up", "hup"}
  PROVE  [sock EXCEPT ![f].st = st] \in [Fds -> Sockets]
<1>1. [sock[f] EXCEPT !.st = st] \in Sockets
  BY SMTT(30) DEF Typed, Sockets
<1> QED
  BY <1>1 DEF Typed

LEMMA PopTyped ==
  ASSUME NEW L, Labels \subseteq L, Typed(L),
         NEW f \in Fds, sock[f].in # <<>>, Pop(f)
  PROVE  sock' \in [Fds -> Sockets]
<1>1. sock[f] \in Sockets
  BY DEF Typed
<1>2. Tail(sock[f].in) \in Seq(Packets)
  BY <1>1 DEF Sockets
<1>3. [sock[f] EXCEPT !.in = Tail(sock[f].in)] \in Sockets
  BY <1>1, <1>2 DEF Sockets
<1> QED
  BY <1>3 DEF Pop, Typed

LEMMA PushType ==
  ASSUME NEW L, Labels \subseteq L, Typed(L),
         NEW f \in Fds, NEW p \in Packets, NEW a \in BOOLEAN,
         sock' = [sock EXCEPT ![f].in = Append(@, p), ![f].auth = a]
  PROVE  sock' \in [Fds -> Sockets]
<1>1. sock[f] \in Sockets
  BY DEF Typed
<1>2. Append(sock[f].in, p) \in Seq(Packets)
  BY <1>1 DEF Sockets
<1> DEFINE g == [sock[f] EXCEPT !.in = Append(sock[f].in, p), !.auth = a]
<1>3. g \in Sockets
  BY <1>1, <1>2 DEF Sockets
<1>4. sock' = [sock EXCEPT ![f] = g]
  BY DEF Typed
<1> HIDE DEF g
<1> QED
  BY <1>3, <1>4 DEF Typed

\* What the agent becomes by serving a request.
LEMMA ServedType ==
  ASSUME NEW L, Labels \subseteq L, Typed(L),
         NEW t \in Threads, NEW ok \in BOOLEAN
  PROVE  Served(frame[t].cmd, ok, frame[t].info)
           \in [running : BOOLEAN, bound : BOOLEAN, info : Infos]
<1>1. frame[t].info \in Infos
  BY FrameTyped DEF Frames
<1> QED
  BY <1>1 DEF Served, Typed

LEMMA RoutineType ==
  ASSUME NEW L, Labels \subseteq L, Typed(L), NEW t \in Threads, Routine(t)
  PROVE  Typed(L)'
<1>1. CASE CloseTest(t)
  <2>1. pc' \in [Threads -> L] /\ frame' \in [Threads -> Frames(L)]
    <3>1. "close_fd" \in L
      BY DEF Labels, RoutineLabels
    <3>2. CASE cloud.fd = NoFd
      BY <1>1, <3>2, DoneType DEF CloseTest
    <3>3. CASE cloud.fd # NoFd
      BY <1>1, <3>1, <3>3, GotoType DEF CloseTest, Typed
    <3> QED
      BY <3>2, <3>3
  <2> QED
    BY <1>1, <2>1, SharedType DEF CloseTest
<1>2. CASE CloseFd(t)
  <2>1. pc' \in [Threads -> L]
    BY <1>2, GotoType DEF CloseFd, Labels, RoutineLabels
  <2>2. FreeSock \in Sockets
    BY DEF FreeSock, Sockets
  <2>3. sock' \in [Fds -> Sockets]
    BY <1>2, <2>2 DEF CloseFd, Typed
  <2> QED
    BY <1>2, <2>1, <2>3 DEF CloseFd, Typed
<1>3. CASE CloseClear(t)
  <2>1. pc' \in [Threads -> L] /\ frame' \in [Threads -> Frames(L)]
    BY <1>3, DoneType DEF CloseClear
  <2>2. cloud' \in Clouds
    BY <1>3 DEF CloseClear, Typed, Clouds
  <2> QED
    BY <1>3, <2>1, <2>2 DEF CloseClear, Typed
<1>4. CASE Socket(t)
  <2> PICK f \in SocketResults :
        IF f = NoFd
        THEN /\ cloud' = [cloud EXCEPT !.fd = NoFd, !.reachable = FALSE]
             /\ Return(t, "net")
             /\ sock' = sock
        ELSE /\ cloud' = [cloud EXCEPT !.fd = f]
             /\ sock' = [sock EXCEPT ![f].st = "open"]
             /\ Goto(t, "connect")
             /\ frame' = frame
    BY <1>4 DEF Socket
  <2>1. f \in Fds \cup {NoFd}
    BY DEF SocketResults, FreeFds
  <2>2. CASE f = NoFd
    <3>1. pc' \in [Threads -> L] /\ frame' \in [Threads -> Frames(L)]
      BY <2>2, ReturnType
    <3>2. cloud' \in Clouds
      BY ZenonT(40), <2>2 DEF Typed, Clouds
    <3> QED
      BY <1>4, <2>2, <3>1, <3>2 DEF Socket, Typed
  <2>3. CASE f # NoFd
    <3>1. pc' \in [Threads -> L]
      BY <2>3, GotoType DEF Labels, RoutineLabels
    <3>2. cloud' \in Clouds
      BY <2>1, <2>3 DEF Typed, Clouds
    <3>3. sock' \in [Fds -> Sockets]
      BY <2>1, <2>3, StateType
    <3> QED
      BY <1>4, <2>3, <3>1, <3>2, <3>3 DEF Socket, Typed
  <2> QED
    BY <2>2, <2>3
<1>5. CASE Connect(t)
  <2>1. CASE ConnectFails(t) /\ sock' = sock
    <3>1. pc' \in [Threads -> L] /\ frame' \in [Threads -> Frames(L)]
      BY <2>1, ReturnType DEF ConnectFails
    <3>2. cloud' \in Clouds
      BY <2>1 DEF ConnectFails, Typed, Clouds
    <3> QED
      BY <1>5, <2>1, <3>1, <3>2 DEF Connect, Typed
  <2>2. CASE /\ cloud.fd \in Fds
             /\ Goto(t, "hello_fd") /\ UNCHANGED <<cloud, frame>>
             /\ \/ sock' = [sock EXCEPT ![cloud.fd].st = "up", ![cloud.fd].in = <<Hello>>]
                \/ sock' = [sock EXCEPT ![cloud.fd].st = "hup"]
    <3>1. pc' \in [Threads -> L]
      BY <2>2, GotoType DEF Labels, RoutineLabels
    <3>2. <<Hello>> \in Seq(Packets)
      BY DEF Packets
    <3>3. sock' \in [Fds -> Sockets]
      <4> DEFINE g == [sock[cloud.fd] EXCEPT !.st = "up", !.in = <<Hello>>]
      <4>1. g \in Sockets
        <5>1. sock[cloud.fd] \in Sockets
          BY <2>2 DEF Typed
        <5> QED
          BY <3>2, <5>1 DEF Sockets
      <4>2. CASE sock' = [sock EXCEPT ![cloud.fd].st = "up", ![cloud.fd].in = <<Hello>>]
        <5>1. sock' = [sock EXCEPT ![cloud.fd] = g]
          BY <2>2, <4>2 DEF Typed
        <5> HIDE DEF g
        <5> QED
          BY <2>2, <4>1, <5>1 DEF Typed
      <4>3. CASE sock' = [sock EXCEPT ![cloud.fd].st = "hup"]
        BY <2>2, <4>3, StateType
      <4> QED
        BY <2>2, <4>2, <4>3
    <3> QED
      BY <1>5, <2>2, <3>1, <3>3 DEF Connect, Typed
  <2> QED
    BY <1>5, <2>1, <2>2 DEF Connect, Unconnected
<1>6. CASE HelloFd(t)
  <2>1. pc' \in [Threads -> L]
    BY <1>6, GotoType DEF HelloFd, Labels, RoutineLabels
  <2>2. [frame[t] EXCEPT !.rfd = cloud.fd] \in Frames(L)
    BY FrameTyped DEF Typed, Clouds, Frames
  <2>3. frame' \in [Threads -> Frames(L)]
    BY <1>6, <2>2 DEF HelloFd, Typed
  <2> QED
    BY <1>6, <2>1, <2>3, SharedType DEF HelloFd
<1>7. CASE ReadHello(t)
  <2> DEFINE f == frame[t].rfd
  <2>1. CASE HasPacket(f) /\ Pop(f) /\ Return(t, "ok")
             /\ cloud' = [cloud EXCEPT !.reachable = TRUE]
    <3>1. pc' \in [Threads -> L] /\ frame' \in [Threads -> Frames(L)]
      BY <2>1, ReturnType
    <3>2. cloud' \in Clouds
      BY <2>1 DEF Typed, Clouds
    <3>3. sock' \in [Fds -> Sockets]
      BY <2>1, PopTyped DEF HasPacket
    <3> QED
      BY <1>7, <3>1, <3>2, <3>3 DEF ReadHello, Typed
  <2>2. CASE ConnectFails(t) /\ sock' = sock
    <3>1. pc' \in [Threads -> L] /\ frame' \in [Threads -> Frames(L)]
      BY <2>2, ReturnType DEF ConnectFails
    <3>2. cloud' \in Clouds
      BY <2>2 DEF ConnectFails, Typed, Clouds
    <3> QED
      BY <1>7, <2>2, <3>1, <3>2 DEF ReadHello, Typed
  <2> QED
    BY <1>7, <2>1, <2>2 DEF ReadHello
<1>8. CASE Send(t)
  <2> DEFINE f == cloud.fd
  <2> DEFINE c == frame[t].cmd
  <2>1. c \in Commands
    BY FrameTyped DEF Frames
  <2>2. CASE Connected(f)
    <3>1. f \in Fds
      BY <2>2 DEF Connected
    <3>2. pc' \in [Threads -> L] /\ frame' = frame /\ cloud' = cloud
      BY <1>8, <2>2, GotoType DEF Send, Labels, RoutineLabels
    <3>3. \A ok \in Verdicts(c) : ok \in BOOLEAN
      BY DEF Verdicts
    <3>4. CASE Answered(t, f, c)
      <4> PICK ok \in Verdicts(c) :
            /\ agent' = Served(c, ok, frame[t].info)
            /\ sock' = [sock EXCEPT ![f].in = Append(@, Answer(t, c, ok)),
                                    ![f].auth = @ \/ (c = "AUTH" /\ ok)]
        BY <3>4 DEF Answered
      <4> DEFINE a == sock[f].auth \/ (c = "AUTH" /\ ok)
      <4>1. ok \in BOOLEAN
        BY <3>3
      <4>2. Answer(t, c, ok) \in Packets
        BY <2>1, <4>1 DEF Packets
      <4>3. a \in BOOLEAN
        OBVIOUS
      <4>4. sock' = [sock EXCEPT ![f].in = Append(@, Answer(t, c, ok)), ![f].auth = a]
        BY <3>1 DEF Typed, Sockets
      <4>5. sock' \in [Fds -> Sockets]
        BY <3>1, <4>2, <4>3, <4>4, PushType
      <4> QED
        BY <1>8, <3>2, <4>1, <4>5, ServedType DEF Send, Typed
    <3>5. CASE Unanswered(t, f, c)
      <4>1. sock' \in [Fds -> Sockets]
        BY <3>1, <3>5 DEF Unanswered, Typed, Sockets
      <4>2. agent' = agent \/ \E ok \in BOOLEAN : agent' = Served(c, ok, frame[t].info)
        BY <3>3, <3>5 DEF Unanswered
      <4>3. agent \in [running : BOOLEAN, bound : BOOLEAN, info : Infos]
        BY DEF Typed
      <4>4. agent' \in [running : BOOLEAN, bound : BOOLEAN, info : Infos]
        BY <4>2, <4>3, ServedType
      <4> QED
        BY <1>8, <3>2, <4>1, <4>4 DEF Send, Typed
    <3> QED
      BY <1>8, <2>2, <3>4, <3>5 DEF Send
  <2>3. CASE ~Connected(f)
    <3>1. pc' \in [Threads -> L] /\ frame' \in [Threads -> Frames(L)]
      BY <1>8, <2>3, ReturnType DEF Send, RequestFails
    <3>2. cloud' \in Clouds
      BY ZenonT(40), <1>8, <2>3 DEF Send, RequestFails, Typed, Clouds
    <3> QED
      BY <1>8, <2>3, <3>1, <3>2 DEF Send, Typed
  <2> QED
    BY <2>2, <2>3
<1>9. CASE RecvFd(t)
  <2>1. pc' \in [Threads -> L]
    BY <1>9, GotoType DEF RecvFd, Labels, RoutineLabels
  <2>2. [frame[t] EXCEPT !.rfd = cloud.fd] \in Frames(L)
    BY FrameTyped DEF Typed, Clouds, Frames
  <2>3. frame' \in [Threads -> Frames(L)]
    BY <1>9, <2>2 DEF RecvFd, Typed
  <2> QED
    BY <1>9, <2>1, <2>3, SharedType DEF RecvFd
<1>10. CASE Recv(t)
  <2> DEFINE f == frame[t].rfd
  <2>1. CASE HasPacket(f) /\ Pop(f) /\ cloud' = cloud
             /\ \E r \in {"ok", "no"} : Return(t, r)
    <3>1. pc' \in [Threads -> L] /\ frame' \in [Threads -> Frames(L)]
      BY <2>1, ReturnType
    <3>2. sock' \in [Fds -> Sockets]
      BY <2>1, PopTyped DEF HasPacket
    <3> QED
      BY <1>10, <2>1, <3>1, <3>2 DEF Recv, Typed
  <2>2. CASE RequestFails(t) /\ sock' = sock
    <3>1. pc' \in [Threads -> L] /\ frame' \in [Threads -> Frames(L)]
      BY <2>2, ReturnType DEF RequestFails
    <3>2. cloud' \in Clouds
      BY <2>2 DEF RequestFails, Typed, Clouds
    <3> QED
      BY <1>10, <2>2, <3>1, <3>2 DEF Recv, Typed
  <2> QED
    BY <1>10, <2>1, <2>2 DEF Recv
<1> QED
  BY <1>1, <1>2, <1>3, <1>4, <1>5, <1>6, <1>7, <1>8, <1>9, <1>10 DEF Routine

LEMMA DaemonThread == Daemon \in Threads
  BY DEF Threads

\* The steps that only move the daemon on.
LEMMA MoveType ==
  ASSUME NEW L, Labels \subseteq L, Typed(L),
         NEW t \in Threads, NEW l \in L, Goto(t, l),
         UNCHANGED <<shared, frame>>
  PROVE  Typed(L)'
<1>1. pc' \in [Threads -> L]
  BY GotoType
<1>2. frame' \in [Threads -> Frames(L)]
  BY DEF Typed
<1> QED
  BY <1>1, <1>2, SharedType

\* The steps that only change the struct cloud.
LEMMA CloudType ==
  ASSUME NEW L, Labels \subseteq L, Typed(L),
         cloud' \in Clouds, UNCHANGED <<lock, conf, sock, agent>>,
         pc' \in [Threads -> L], frame' \in [Threads -> Frames(L)]
  PROVE  Typed(L)'
  BY DEF Typed

LEMMA SetStatusType ==
  ASSUME NEW L, Labels \subseteq L, Typed(L),
         NEW t \in Threads, NEW at, NEW s \in Statuses, NEW l \in L,
         SetStatus(t, at, s, l)
  PROVE  Typed(L)'
<1>1. pc' \in [Threads -> L] /\ frame' = frame
  BY GotoType DEF SetStatus
<1>2. cloud' \in Clouds
  BY DEF SetStatus, Typed, Clouds
<1> QED
  BY <1>1, <1>2 DEF SetStatus, Typed

LEMMA ClearedType ==
  ASSUME NEW L, Labels \subseteq L, Typed(L)
  PROVE  ClearedCounters(cloud) \in Clouds
<1> DEFINE c1 == [cloud EXCEPT !.retries = 0]
<1> DEFINE c2 == [c1 EXCEPT !.waits = 0]
<1>1. c1 \in Clouds
  BY DEF Typed, Clouds
<1>2. ClearedCounters(cloud) = [c2 EXCEPT !.retry_wait = RetryWait]
  BY DEF ClearedCounters
<1> HIDE DEF c1
<1>3. c2 \in Clouds
  BY <1>1 DEF Clouds
<1> HIDE DEF c2
<1> QED
  BY <1>2, <1>3, RetryAssumption DEF Clouds

LEMMA WrapType == ASSUME NEW n \in Int PROVE Wrap(n) \in Int
  BY RetryAssumption DEF Wrap

LEMMA DaemonType ==
  ASSUME NEW L, Labels \subseteq L, Typed(L), DaemonStep
  PROVE  Typed(L)'
<1> USE DaemonThread
<1>1. CASE Routine(Daemon)
  BY <1>1, RoutineType
<1>2. CASE WaitAgent
  BY <1>2, MoveType DEF WaitAgent, Labels, RoutineLabels, DaemonLabels
<1>3. CASE StatusInit
  BY <1>3, MoveType DEF StatusInit, Labels, RoutineLabels, DaemonLabels
<1>4. CASE StatusConnected
  BY <1>4, MoveType DEF StatusConnected, Labels, RoutineLabels, DaemonLabels
<1>5. CASE NeedUpdate
  BY <1>5, MoveType DEF NeedUpdate, Labels, RoutineLabels, DaemonLabels
<1>6. CASE Poll
  BY <1>6, MoveType DEF Poll, Labels, RoutineLabels, DaemonLabels
<1>7. CASE PollSelect
  BY <1>7, MoveType DEF PollSelect, Labels, RoutineLabels, DaemonLabels
<1>8. CASE SetConnecting
  BY <1>8, SetStatusType DEF SetConnecting, Statuses, Labels, DaemonLabels
<1>9. CASE SetDisconnected
  BY <1>9, SetStatusType DEF SetDisconnected, Statuses, Labels, DaemonLabels
<1>10. CASE SetBroken
  BY <1>10, SetStatusType DEF SetBroken, Statuses, Labels, DaemonLabels
<1>11. CASE SetConnected
  BY <1>11, SetStatusType DEF SetConnected, Statuses, Labels, DaemonLabels
<1>12. CASE SetUnbound
  BY <1>12, SetStatusType DEF SetUnbound, Statuses, Labels, DaemonLabels
<1>13. CASE Resume
  BY <1>13, SetStatusType DEF Resume, Statuses, Labels, DaemonLabels
<1>14. CASE UnbindStatus
  BY <1>14, SetStatusType DEF UnbindStatus, Statuses, Labels, DaemonLabels
<1>15. CASE Dispatch
  <2>1. pc' \in [Threads -> L] /\ frame' \in [Threads -> Frames(L)]
    <3>1. cloud.status \in Statuses
      BY DEF Typed, Clouds
    <3>2. \/ \E l \in L : Leave(Daemon, l)
          \/ \E l \in L, b \in L : Call(Daemon, l, b)
      BY <1>15, <3>1
         DEF Dispatch, Statuses, Labels, RoutineLabels, DaemonLabels
    <3> QED
      BY <3>2, CallType, LeaveType
  <2> QED
    BY <1>15, <2>1, SharedType DEF Dispatch
<1>16. CASE Linked
  <2>1. pc' \in [Threads -> L] /\ frame' \in [Threads -> Frames(L)]
    BY <1>16, CallType, LeaveType, RequestType
       DEF Linked, Commands, Labels, RoutineLabels, DaemonLabels
  <2> QED
    BY <1>16, <2>1, SharedType DEF Linked
<1>17. CASE AuthDone
  <2>1. pc' \in [Threads -> L] /\ frame' \in [Threads -> Frames(L)]
    BY <1>17, CallType, LeaveType, RequestType
       DEF AuthDone, Commands, Labels, RoutineLabels, DaemonLabels
  <2> QED
    BY <1>17, <2>1, SharedType DEF AuthDone
<1>18. CASE UpdateDone
  <2>1. pc' \in [Threads -> L] /\ frame' \in [Threads -> Frames(L)]
    BY <1>18, CallType, LeaveType, RequestType
       DEF UpdateDone, Commands, Labels, RoutineLabels, DaemonLabels
  <2> QED
    BY <1>18, <2>1, SharedType DEF UpdateDone
<1>19. CASE RefreshDone
  <2>1. pc' \in [Threads -> L] /\ frame' \in [Threads -> Frames(L)]
    BY <1>19, CallType, LeaveType, RequestType
       DEF RefreshDone, Commands, Labels, RoutineLabels, DaemonLabels
  <2> QED
    BY <1>19, <2>1, SharedType DEF RefreshDone
<1>20. CASE Reply
  <2>1. pc' \in [Threads -> L] /\ frame' \in [Threads -> Frames(L)]
    BY <1>20, CallType, LeaveType, RequestType
       DEF Reply, Commands, Labels, RoutineLabels, DaemonLabels
  <2> QED
    BY <1>20, <2>1, SharedType DEF Reply
<1>21. CASE ClearUnbound
  <2>1. pc' \in [Threads -> L] /\ frame' = frame
    BY <1>21, GotoType DEF ClearUnbound, Labels, DaemonLabels
  <2>2. cloud' \in Clouds
    BY <1>21, ClearedType DEF ClearUnbound, Typed, Clouds
  <2> QED
    BY <1>21, <2>1, <2>2, CloudType DEF ClearUnbound, Typed
<1>22. CASE Retry
  <2>1. pc' \in [Threads -> L] /\ frame' = frame
    BY <1>22, GotoType DEF Retry, Labels, DaemonLabels
  <2>2. cloud' \in Clouds
    <3> DEFINE w == Wrap(2 * cloud.retry_wait)
    <3>1. cloud \in Clouds
      BY DEF Typed
    <3>2. w \in Int
      BY <3>1, WrapType DEF Clouds
    <3> HIDE DEF w
    <3> DEFINE n == cloud.retries + 1
    <3>3. n \in Nat
      BY <3>1 DEF Clouds
    <3> HIDE DEF n
    <3>4. [cloud EXCEPT !.retries = n, !.waits = 0, !.retry_wait = w] \in Clouds
      BY <3>1, <3>2, <3>3 DEF Clouds
    <3> QED
      BY <1>22, <3>1, <3>4 DEF Retry, w, n
  <2> QED
    BY <1>22, <2>1, <2>2, CloudType DEF Retry, Typed
<1>23. CASE Pace
  <2>1. pc' \in [Threads -> L] /\ frame' = frame
    BY <1>23, GotoType DEF Pace, Labels, DaemonLabels
  <2>2. cloud' \in Clouds
    BY <1>23, ClearedType DEF Pace, Typed, Clouds
  <2> QED
    BY <1>23, <2>1, <2>2, CloudType DEF Pace, Typed
<1>24. CASE Restart
  <2>1. pc' \in [Threads -> L] /\ frame' = frame
    BY <1>24, GotoType DEF Restart, Labels, DaemonLabels
  <2>2. cloud' \in Clouds
    BY <1>24, ClearedType DEF Restart, Typed, Clouds
  <2> QED
    BY <1>24, <2>1, <2>2, CloudType DEF Restart, Typed
<1>25. CASE NeedRead
  <2>1. pc' \in [Threads -> L]
    BY <1>25, GotoType DEF NeedRead, Labels, DaemonLabels
  <2>2. [frame[Daemon] EXCEPT !.seen = cloud.update] \in Frames(L)
    <3>1. cloud.update \in BOOLEAN
      BY DEF Typed, Clouds
    <3> QED
      BY <3>1, FrameTyped DEF Frames
  <2>3. frame' \in [Threads -> Frames(L)]
    BY <1>25, <2>2 DEF NeedRead, Typed
  <2> QED
    BY <1>25, <2>1, <2>3, SharedType DEF NeedRead
<1>26. CASE NeedClear
  <2>1. pc' \in [Threads -> L] /\ frame' \in [Threads -> Frames(L)]
    BY <1>26, LeaveType, RequestType
       DEF NeedClear, Commands, Labels, DaemonLabels
  <2>2. cloud' \in Clouds
    BY <1>26 DEF NeedClear, Typed, Clouds
  <2> QED
    BY <1>26, <2>1, <2>2, CloudType DEF NeedClear
<1>27. CASE UnbindDone
  <2>1. pc' \in [Threads -> L] /\ frame' \in [Threads -> Frames(L)]
    BY <1>27, LeaveType DEF UnbindDone, Labels, DaemonLabels
  <2>2. cloud' \in Clouds
    BY <1>27 DEF UnbindDone, Typed, Clouds
  <2> QED
    BY <1>27, <2>1, <2>2, CloudType DEF UnbindDone
<1>28. CASE ControlLock
  <2>1. pc' \in [Threads -> L]
    BY <1>28, GotoType DEF ControlLock, ControlNothing, Labels, DaemonLabels
  <2>2. lock' \in Threads \cup {NoThread}
    BY <1>28 DEF ControlLock, ControlNothing, Acquire, Release, Typed
  <2> QED
    BY <1>28, <2>1, <2>2 DEF ControlLock, Typed
<1>29. CASE ControlPoll
  <2>1. pc' \in [Threads -> L]
    BY <1>29, GotoType DEF ControlPoll, ControlNothing, Labels, DaemonLabels
  <2>2. lock' \in Threads \cup {NoThread}
    BY <1>29 DEF ControlPoll, ControlNothing, Acquire, Release, Typed
  <2> QED
    BY <1>29, <2>1, <2>2 DEF ControlPoll, Typed
<1>30. CASE ControlSelect
  <2>1. pc' \in [Threads -> L]
    BY <1>30, GotoType DEF ControlSelect, ControlNothing, Labels, DaemonLabels
  <2>2. lock' \in Threads \cup {NoThread}
    BY <1>30 DEF ControlSelect, ControlNothing, Acquire, Release, Typed
  <2> QED
    BY <1>30, <2>1, <2>2 DEF ControlSelect, Typed
<1>31. CASE ControlRecvFd
  <2>1. pc' \in [Threads -> L]
    BY <1>31, GotoType DEF ControlRecvFd, Labels, DaemonLabels
  <2>2. [frame[Daemon] EXCEPT !.rfd = cloud.fd] \in Frames(L)
    BY FrameTyped DEF Typed, Clouds, Frames
  <2>3. frame' \in [Threads -> Frames(L)]
    BY <1>31, <2>2 DEF ControlRecvFd, Typed
  <2> QED
    BY <1>31, <2>1, <2>3, SharedType DEF ControlRecvFd
<1>32. CASE ControlRecv
  <2>1. pc' \in [Threads -> L] /\ frame' \in [Threads -> Frames(L)]
    BY <1>32, LeaveType, RequestType, CallType
       DEF ControlRecv, Commands, Labels, RoutineLabels, DaemonLabels
  <2>2. sock' \in [Fds -> Sockets]
    BY <1>32, PopTyped DEF ControlRecv, HasPacket, Typed
  <2>3. lock' \in Threads \cup {NoThread}
    BY <1>32 DEF ControlRecv, Release, Typed
  <2> QED
    BY <1>32, <2>1, <2>2, <2>3 DEF ControlRecv, Typed
<1>33. CASE UnbindAccount
  <2>1. pc' \in [Threads -> L]
    BY <1>33, GotoType DEF UnbindAccount, Labels, DaemonLabels
  <2>2. conf' \in [account : Users \cup {NoUser}, password : Users \cup {NoUser}]
    BY <1>33 DEF UnbindAccount, Typed
  <2> QED
    BY <1>33, <2>1, <2>2 DEF UnbindAccount, Typed
<1>34. CASE UnbindPassword
  <2>1. pc' \in [Threads -> L]
    BY <1>34, GotoType DEF UnbindPassword, Labels, DaemonLabels
  <2>2. conf' \in [account : Users \cup {NoUser}, password : Users \cup {NoUser}]
    BY <1>34 DEF UnbindPassword, Typed
  <2> QED
    BY <1>34, <2>1, <2>2 DEF UnbindPassword, Typed
<1> QED
  BY <1>1, <1>2, <1>3, <1>4, <1>5, <1>6, <1>7, <1>8, <1>9, <1>10, <1>11,
     <1>12, <1>13, <1>14, <1>15, <1>16, <1>17, <1>18, <1>19, <1>20, <1>21,
     <1>22, <1>23, <1>24, <1>25, <1>26, <1>27, <1>28, <1>29, <1>30, <1>31,
     <1>32, <1>33, <1>34 DEF DaemonStep

LEMMA HandlerType ==
  ASSUME NEW L, Labels \subseteq L, Typed(L), NEW t \in Handlers, HandlerStep(t)
  PROVE  Typed(L)'
<1>1. t \in Threads
  BY DEF Threads
<1>2. CASE DeliverField(t) \/ DeliverUpnp(t) \/ DeliverNetwork(t)
  BY <1>1, <1>2, MoveType
     DEF DeliverField, DeliverUpnp, DeliverNetwork, Deliver, Labels, HandlerLabels
<1>3. CASE StoreField(t) \/ MarkField(t) \/ MarkNetwork(t)
  <2>1. pc' \in [Threads -> L] /\ frame' = frame
    BY <1>1, <1>3, GotoType
       DEF StoreField, MarkField, MarkNetwork, MarkUpdate, Labels, HandlerLabels
  <2>2. cloud' \in Clouds
    BY ZenonT(40), <1>3
       DEF StoreField, MarkField, MarkNetwork, MarkUpdate, Typed, Clouds
  <2> QED
    BY <1>3, <2>1, <2>2
       DEF StoreField, MarkField, MarkNetwork, MarkUpdate, Typed
<1>4. CASE StoreUpnp(t) \/ MarkUpnp(t)
  <2>1. pc' \in [Threads -> L]
    BY <1>1, <1>4, GotoType DEF StoreUpnp, MarkUpnp, Labels, HandlerLabels
  <2>2. cloud' \in Clouds
    BY ZenonT(40), <1>4 DEF StoreUpnp, MarkUpnp, Typed, Clouds
  <2>3. lock' \in Threads \cup {NoThread}
    BY <1>1, <1>4 DEF StoreUpnp, MarkUpnp, Acquire, Release, Typed
  <2> QED
    BY <1>4, <2>1, <2>2, <2>3 DEF StoreUpnp, MarkUpnp, Typed
<1>5. CASE SetRestart(t)
  BY <1>1, <1>5, SetStatusType DEF SetRestart, Statuses, Labels, HandlerLabels
<1> QED
  BY <1>2, <1>3, <1>4, <1>5 DEF HandlerStep

LEMMA BootedType ==
  ASSUME NEW u \in Users \cup {NoUser}, NEW i \in Infos
  PROVE  Booted(u, i) \in Clouds
  BY RetryAssumption DEF Booted, Clouds, Statuses

LEMMA StartedType ==
  ASSUME NEW L, Labels \subseteq L
  PROVE  /\ AllFree \in [Fds -> Sockets]
         /\ Started \in [Threads -> L]
         /\ [t \in Threads |-> Blank] \in [Threads -> Frames(L)]
<1>1. FreeSock \in Sockets
  BY DEF FreeSock, Sockets
<1> QED
  BY <1>1, BlankType
     DEF AllFree, Started, Labels, DaemonLabels, HandlerLabels

LEMMA EnvironmentType ==
  ASSUME NEW L, Labels \subseteq L, Typed(L), Environment
  PROVE  Typed(L)'
<1>1. CASE AgentStarts
  BY <1>1 DEF AgentStarts, Typed
<1>2. CASE AgentPushes
  <2> PICK f \in Fds, d \in Controls :
        sock' = [sock EXCEPT ![f].in = Append(@, Control(d))]
    BY <1>2 DEF AgentPushes
  <2>1. Control(d) \in Packets
    BY DEF Packets
  <2>2. sock[f] \in Sockets
    BY DEF Typed
  <2>3. [sock[f] EXCEPT !.in = Append(@, Control(d))] \in Sockets
    <3>1. Append(sock[f].in, Control(d)) \in Seq(Packets)
      BY <2>1, <2>2 DEF Sockets
    <3> QED
      BY <2>2, <3>1 DEF Sockets
  <2>4. sock' \in [Fds -> Sockets]
    BY <2>3 DEF Typed
  <2> QED
    BY <1>2, <2>4 DEF AgentPushes, Typed
<1>3. CASE AgentDrops
  <2>1. sock' \in [Fds -> Sockets]
    BY <1>3, StateType DEF AgentDrops
  <2> QED
    BY <1>3, <2>1 DEF AgentDrops, Typed
<1>4. CASE Reboot
  <2>1. cloud' \in Clouds
    BY <1>4, BootedType DEF Reboot, Typed
  <2> QED
    BY <1>4, <2>1, StartedType DEF Reboot, Typed
<1> QED
  BY <1>1, <1>2, <1>3, <1>4 DEF Environment

LEMMA InitType ==
  ASSUME NEW L, Labels \subseteq L, Init
  PROVE  Typed(L)
<1> PICK u \in Users \cup {NoUser}, i \in Infos, j \in Infos :
      /\ cloud = Booted(u, i)
      /\ lock = NoThread
      /\ conf = [account |-> u, password |-> u]
      /\ sock = AllFree
      /\ agent = [running |-> FALSE, bound |-> u # NoUser, info |-> j]
      /\ pc = Started
      /\ frame = [t \in Threads |-> Blank]
  BY DEF Init
<1> QED
  BY BootedType, StartedType DEF Typed

\* The same of the daemon's own labels.
LEMMA OwnTypes == TypeOK <=> Typed(Labels)
  BY DEF TypeOK, Labels

LEMMA FrameType ==
  ASSUME TypeOK, NEW t \in Threads
  PROVE  frame[t] \in Frames(Labels)
  BY FrameTyped, OwnTypes

LEMMA PopType ==
  ASSUME TypeOK, NEW f \in Fds, sock[f].in # <<>>, Pop(f)
  PROVE  sock' \in [Fds -> Sockets]
  BY PopTyped, OwnTypes

\* Every variable keeps its type, for any number of handlers, descriptors,
\* accounts, faults and retries.
THEOREM TypeCorrect == Spec => []TypeOK
<1>1. TypeOK' <=> Typed(Labels)'
  BY DEF TypeOK, Labels
<1>2. TypeOK /\ [Next]_vars => TypeOK'
  <2> SUFFICES ASSUME Typed(Labels), [Next]_vars PROVE Typed(Labels)'
    BY <1>1, OwnTypes
  <2>1. CASE DaemonStep
    BY <2>1, DaemonType
  <2>2. CASE \E t \in Handlers : HandlerStep(t)
    BY <2>2, HandlerType
  <2>3. CASE Environment
    BY <2>3, EnvironmentType
  <2>4. CASE UNCHANGED vars
    BY <2>4 DEF vars, Typed
  <2> QED
    BY <2>1, <2>2, <2>3, <2>4 DEF Next
<1>3. Init => TypeOK
  BY InitType, OwnTypes
<1> QED
  BY <1>2, <1>3, PTL DEF Spec

-----------------------------------------------------------------------------
(* What the helpers that move the daemon do to its pc and its locals.      *)

LEMMA Moved ==
  ASSUME TypeOK, NEW l, Goto(Daemon, l)
  PROVE  pc'[Daemon] = l
  BY DaemonThread DEF Goto, TypeOK, Typed

LEMMA DaemonLeft ==
  ASSUME TypeOK, NEW l, Leave(Daemon, l)
  PROVE  pc'[Daemon] = l /\ frame'[Daemon] = Blank
  BY DaemonThread, Moved DEF Leave, TypeOK, Typed

LEMMA DaemonCalled ==
  ASSUME TypeOK, NEW l, NEW b, Call(Daemon, l, b)
  PROVE  /\ pc'[Daemon] = l
         /\ frame'[Daemon].back = b
         /\ frame'[Daemon].res = frame[Daemon].res
  BY DaemonThread, Moved, FrameType DEF Call, TypeOK, Typed, Frames

LEMMA Finished ==
  ASSUME TypeOK, Done(Daemon)
  PROVE  /\ pc'[Daemon] = frame[Daemon].back
         /\ frame'[Daemon].back = "idle"
  BY DaemonThread, Moved, FrameType DEF Done, TypeOK, Typed, Frames

LEMMA ReturnedWith ==
  ASSUME TypeOK, NEW r, Return(Daemon, r)
  PROVE  /\ pc'[Daemon] = frame[Daemon].back
         /\ frame'[Daemon].back = "idle"
         /\ frame'[Daemon].res = r
  BY DaemonThread, Moved, FrameType DEF Return, Blank, TypeOK, Typed, Frames

LEMMA DaemonRequested ==
  ASSUME TypeOK, NEW c, NEW b, Request(Daemon, c, b)
  PROVE  /\ pc'[Daemon] = "send"
         /\ frame'[Daemon].back = b
         /\ frame'[Daemon].cmd = c
  BY DaemonThread, Moved, FrameType DEF Request, TypeOK, Typed, Frames

-----------------------------------------------------------------------------
(* What the steps on sockets leave of them.                                *)

\* Sockets keep their state and their authentication, with no packet more in
\* their inboxes.
KeptSockets ==
  \A f \in Fds :
    /\ sock'[f].st = sock[f].st /\ sock'[f].auth = sock[f].auth
    /\ \A n \in 1..Len(sock'[f].in) :
         \E m \in 1..Len(sock[f].in) : sock'[f].in[n] = sock[f].in[m]

LEMMA PopKeeps ==
  ASSUME TypeOK, NEW f \in Fds, sock[f].in # <<>>, Pop(f)
  PROVE  KeptSockets
<1>1. sock \in [Fds -> Sockets]
  BY DEF TypeOK, Typed
<1> SUFFICES ASSUME NEW g \in Fds
             PROVE  /\ sock'[g].st = sock[g].st /\ sock'[g].auth = sock[g].auth
                    /\ \A n \in 1..Len(sock'[g].in) :
                         \E m \in 1..Len(sock[g].in) : sock'[g].in[n] = sock[g].in[m]
  BY DEF KeptSockets
<1>2. CASE g # f
  BY <1>1, <1>2 DEF Pop
<1>3. CASE g = f
  <2>1. /\ sock'[f].st = sock[f].st /\ sock'[f].auth = sock[f].auth
        /\ sock'[f].in = Tail(sock[f].in)
    BY <1>1 DEF Pop, Sockets
  <2>2. sock[f].in \in Seq(Packets)
    BY <1>1 DEF Sockets
  <2>3. ASSUME NEW n \in 1..Len(sock'[f].in)
        PROVE  \E m \in 1..Len(sock[f].in) : sock'[f].in[n] = sock[f].in[m]
    <3>1. n + 1 \in 1..Len(sock[f].in) /\ sock'[f].in[n] = sock[f].in[n + 1]
      BY <2>1, <2>2
    <3> QED
      BY <3>1
  <2> QED
    BY <1>3, <2>1, <2>3
<1> QED
  BY <1>2, <1>3

LEMMA FirstOk ==
  ASSUME TypeOK, OkIsAuthenticated, NEW f \in Fds, sock[f].in # <<>>,
         Head(sock[f].in).ok
  PROVE  sock[f].auth
<1>1. sock[f].in \in Seq(Packets)
  BY DEF TypeOK, Typed, Sockets
<1>2. 1 \in 1..Len(sock[f].in) /\ Head(sock[f].in) = sock[f].in[1]
  BY <1>1
<1> QED
  BY <1>2 DEF OkIsAuthenticated

\* A packet that the agent adds keeps the meaning of OK when it is no OK, or
\* comes on an authenticated connection.
LEMMA PushKeeps ==
  ASSUME TypeOK, OkIsAuthenticated, NEW f \in Fds, NEW p \in Packets,
         NEW a \in BOOLEAN, sock[f].auth => a, p.ok => a,
         sock' = [sock EXCEPT ![f].in = Append(@, p), ![f].auth = a]
  PROVE  /\ OkIsAuthenticated'
         /\ \A g \in Fds : sock'[g].st = sock[g].st
         /\ \A g \in Fds : sock[g].auth => sock'[g].auth
<1>1. sock[f].in \in Seq(Packets)
  BY DEF TypeOK, Typed, Sockets
<1>2. /\ sock'[f].in = Append(sock[f].in, p) /\ sock'[f].auth = a
      /\ sock'[f].st = sock[f].st
      /\ \A g \in Fds : g # f => sock'[g] = sock[g]
  BY DEF TypeOK, Typed, Sockets
<1>3. ASSUME NEW n \in 1..Len(sock'[f].in), sock'[f].in[n].ok
      PROVE  sock'[f].auth
  <2>1. CASE n = Len(sock[f].in) + 1
    <3>1. sock'[f].in[n] = p
      BY <1>1, <1>2, <2>1
    <3>2. p.ok
      BY <1>3, <3>1
    <3> QED
      BY <1>2, <3>2
  <2>2. CASE n # Len(sock[f].in) + 1
    <3>1. Len(sock'[f].in) = Len(sock[f].in) + 1 /\ Len(sock[f].in) \in Nat
      BY <1>1, <1>2
    <3>2. n \in 1..Len(sock[f].in)
      BY <2>2, <3>1
    <3>3. sock'[f].in[n] = sock[f].in[n]
      <4>1. Append(sock[f].in, p)[n] = sock[f].in[n]
        BY <1>1, <3>2
      <4> QED
        BY <1>2, <4>1
    <3> QED
      BY <1>2, <1>3, <3>2, <3>3 DEF OkIsAuthenticated
  <2> QED
    BY <2>1, <2>2
<1>4. OkIsAuthenticated'
  BY <1>2, <1>3 DEF OkIsAuthenticated
<1> QED
  BY <1>2, <1>4

-----------------------------------------------------------------------------
(* Steps of other threads, and of the daemon outside the routines.         *)

\* Handlers and the agent leave the daemon where it is.
LEMMA QuietStep ==
  ASSUME TypeOK, IInv, pc'[Daemon] = pc[Daemon], frame'[Daemon] = frame[Daemon],
         cloud'.fd = cloud.fd, cloud'.status \in {cloud.status, "RESTART"},
         \A f \in Fds : /\ sock'[f].st = "free" <=> sock[f].st = "free"
                        /\ sock[f].auth => sock'[f].auth,
         OkIsAuthenticated'
  PROVE  IInv'
<1>1. NoDescriptorLeak' /\ (Authenticated(cloud.fd) => Authenticated(cloud.fd)')
  BY DEF IInv, Descriptors, NoDescriptorLeak, Authenticated
<1>2. (Returns /\ Unconnecting /\ Standing /\ Descriptors)'
  BY <1>1 DEF IInv, Returns, Unconnecting, Standing, Descriptors, At, Back,
     Closes, Connects, Requests, Commanded
<1>3. Session'
  BY DEF IInv, Session, InSession, Sessions, Closing, At, Back, Requests,
     Authenticated
<1> QED
  BY <1>2, <1>3 DEF IInv

LEMMA HandlerInv ==
  ASSUME TypeOK, IInv, NEW t \in Handlers, HandlerStep(t)
  PROVE  IInv'
<1>1. t # Daemon /\ t \in Threads
  BY ThreadAssumption DEF Threads
<1>2. pc'[Daemon] = pc[Daemon] /\ frame' = frame /\ sock' = sock
  BY <1>1, DaemonThread
     DEF HandlerStep, DeliverField, StoreField, MarkField, DeliverUpnp, StoreUpnp,
         MarkUpnp, DeliverNetwork, MarkNetwork, SetRestart, Deliver, MarkUpdate,
         SetStatus, Goto, shared, TypeOK, Typed
<1>3. cloud'.fd = cloud.fd /\ cloud'.status \in {cloud.status, "RESTART"}
  BY DEF HandlerStep, DeliverField, StoreField, MarkField, DeliverUpnp, StoreUpnp,
         MarkUpnp, DeliverNetwork, MarkNetwork, SetRestart, Deliver, MarkUpdate,
         SetStatus, shared, TypeOK, Typed, Clouds
<1>4. OkIsAuthenticated'
  BY <1>2 DEF IInv, OkIsAuthenticated
<1> QED
  BY <1>2, <1>3, <1>4, QuietStep

\* The branch of the loop for each status.
LEMMA DispatchMoves ==
  ASSUME TypeOK, Dispatch
  PROVE  \/ cloud.status = "INIT" /\ pc'[Daemon] = "init"
         \/ cloud.status = "CONNECTED" /\ pc'[Daemon] = "connected"
         \/ /\ cloud.status = "CONNECTING"
            /\ pc'[Daemon] = "socket" /\ frame'[Daemon].back = "linked"
         \/ /\ cloud.status \in {"DISCONNECTED", "BROKEN", "RESTART"}
            /\ pc'[Daemon] = "close_test"
            /\ frame'[Daemon].back \in {"retry", "poll", "restart"}
<1>1. cloud.status \in Statuses
  BY DEF TypeOK, Typed, Clouds
<1> QED
  BY <1>1, DaemonLeft, DaemonCalled DEF Dispatch, Statuses

LEMMA WorkInv ==
  ASSUME TypeOK, IInv, DaemonStep, ~Routine(Daemon)
  PROVE  IInv'
<1> USE DaemonThread
<1> USE DEF IInv, Returns, Unconnecting, Standing, Descriptors, NoDescriptorLeak,
            OkIsAuthenticated, Session, InSession, Sessions, Closing, At, Back,
            Closes, Connects, Requests, Commanded, Authenticated
<1>1. CASE WaitAgent
  BY <1>1, Moved DEF WaitAgent, shared
<1>2. CASE Dispatch
  BY <1>2, DispatchMoves DEF Dispatch, shared
<1>3. CASE StatusInit
  BY <1>3, Moved DEF StatusInit, shared
<1>4. CASE SetConnecting
  BY <1>4, Moved DEF SetConnecting, SetStatus, TypeOK, Typed, Clouds
<1>5. CASE SetDisconnected
  BY <1>5, Moved DEF SetDisconnected, SetStatus, TypeOK, Typed, Clouds
<1>6. CASE SetBroken
  BY <1>6, Moved DEF SetBroken, SetStatus, TypeOK, Typed, Clouds
<1>7. CASE SetConnected
  BY <1>7, Moved DEF SetConnected, SetStatus, TypeOK, Typed, Clouds
<1>8. CASE Linked
  <2>1. \/ pc'[Daemon] \in {"to_disconnected", "unbound"}
        \/ /\ pc'[Daemon] = "send" /\ frame'[Daemon].back = "auth_done"
           /\ frame'[Daemon].cmd = "AUTH"
    BY <1>8, DaemonLeft, DaemonRequested DEF Linked
  <2> QED
    BY <1>8, <2>1 DEF Linked, shared
<1>9. CASE AuthDone
  <2>1. \/ pc'[Daemon] \in {"to_disconnected", "to_broken"}
        \/ /\ frame[Daemon].res = "ok"
           /\ pc'[Daemon] = "send" /\ frame'[Daemon].back = "update_done"
           /\ frame'[Daemon].cmd = "UPDEV"
    BY <1>9, DaemonLeft, DaemonRequested DEF AuthDone
  <2> QED
    BY <1>9, <2>1 DEF AuthDone, shared
<1>10. CASE UpdateDone
  <2>1. pc'[Daemon] \in {"to_disconnected", "to_broken", "to_connected"}
    BY <1>10, DaemonLeft DEF UpdateDone
  <2> QED
    BY <1>10, <2>1 DEF UpdateDone, shared
<1>11. CASE SetUnbound
  BY <1>11, Moved DEF SetUnbound, SetStatus, TypeOK, Typed, Clouds
<1>12. CASE ClearUnbound
  BY <1>12, Moved DEF ClearUnbound, ClearedCounters, TypeOK, Typed, Clouds
<1>13. CASE StatusConnected
  BY <1>13, Moved DEF StatusConnected, shared
<1>14. CASE NeedUpdate
  BY <1>14, Moved DEF NeedUpdate, shared
<1>15. CASE NeedRead
  BY <1>15, Moved, FrameType DEF NeedRead, shared, TypeOK, Typed, Frames
<1>16. CASE NeedClear
  <2>1. \/ pc'[Daemon] = "poll"
        \/ /\ pc'[Daemon] = "send" /\ frame'[Daemon].back = "refresh_done"
           /\ frame'[Daemon].cmd = "UPDEV"
    BY <1>16, DaemonLeft, DaemonRequested DEF NeedClear
  <2>2. cloud'.fd = cloud.fd /\ cloud'.status = cloud.status
    BY <1>16 DEF NeedClear, TypeOK, Typed, Clouds
  <2> QED
    BY <1>16, <2>1, <2>2 DEF NeedClear
<1>17. CASE RefreshDone
  <2>1. pc'[Daemon] \in {"to_disconnected", "to_broken", "poll"}
    BY <1>17, DaemonLeft DEF RefreshDone
  <2> QED
    BY <1>17, <2>1 DEF RefreshDone, shared
<1>18. CASE Retry
  BY ZenonT(40), <1>18, Moved DEF Retry, TypeOK, Typed, Clouds
<1>19. CASE Resume
  BY <1>19, Moved DEF Resume, SetStatus, TypeOK, Typed, Clouds
<1>20. CASE Pace
  BY <1>20, Moved DEF Pace, TypeOK, Typed, Clouds
<1>21. CASE Restart
  BY <1>21, Moved DEF Restart, ClearedCounters, TypeOK, Typed, Clouds
<1>22. CASE Poll
  BY <1>22, Moved DEF Poll, shared
<1>23. CASE PollSelect
  BY <1>23, Moved DEF PollSelect, shared
<1>24. CASE ControlLock
  BY <1>24, Moved DEF ControlLock
<1>25. CASE ControlPoll
  BY <1>25, Moved DEF ControlPoll, ControlNothing
<1>26. CASE ControlSelect
  BY <1>26, Moved DEF ControlSelect, ControlNothing
<1>27. CASE ControlRecvFd
  BY <1>27, Moved, FrameType DEF ControlRecvFd, shared, TypeOK, Typed, Frames
<1>28. CASE ControlRecv
  <2>1. cloud' = cloud /\ pc[Daemon] = "ctl_recv"
    BY <1>28 DEF ControlRecv
  <2>2. \/ pc'[Daemon] \in {"top", "reply"}
        \/ /\ pc'[Daemon] = "send" /\ frame'[Daemon].back = "unbind_done"
           /\ frame'[Daemon].cmd = "UBINDEV"
        \/ /\ pc'[Daemon] = "close_test"
           /\ frame'[Daemon].back = "to_disconnected"
    BY <1>28, DaemonLeft, DaemonCalled, DaemonRequested DEF ControlRecv
  <2>3. KeptSockets
    BY <1>28, PopKeeps DEF ControlRecv, HasPacket, KeptSockets
  <2> QED
    BY <2>1, <2>2, <2>3 DEF KeptSockets
<1>29. CASE UnbindDone
  <2>1. pc'[Daemon] \in {"unbind_status", "reply"}
    BY <1>29, DaemonLeft DEF UnbindDone
  <2>2. cloud'.fd = cloud.fd /\ cloud'.status = cloud.status
    BY <1>29 DEF UnbindDone, TypeOK, Typed, Clouds
  <2> QED
    BY <1>29, <2>1, <2>2 DEF UnbindDone
<1>30. CASE UnbindStatus
  BY <1>30, Moved DEF UnbindStatus, SetStatus, TypeOK, Typed, Clouds
<1>31. CASE UnbindAccount
  BY <1>31, Moved DEF UnbindAccount
<1>32. CASE UnbindPassword
  BY <1>32, Moved DEF UnbindPassword
<1>33. CASE Reply
  <2>1. \/ pc'[Daemon] = "top"
        \/ /\ pc'[Daemon] = "close_test"
           /\ frame'[Daemon].back = "to_disconnected"
    BY <1>33, DaemonLeft, DaemonCalled DEF Reply
  <2> QED
    BY <1>33, <2>1 DEF Reply, shared
<1> QED
  BY <1>1, <1>2, <1>3, <1>4, <1>5, <1>6, <1>7, <1>8, <1>9, <1>10, <1>11,
     <1>12, <1>13, <1>14, <1>15, <1>16, <1>17, <1>18, <1>19, <1>20, <1>21,
     <1>22, <1>23, <1>24, <1>25, <1>26, <1>27, <1>28, <1>29, <1>30, <1>31,
     <1>32, <1>33 DEF DaemonStep

-----------------------------------------------------------------------------
(* The routines as the daemon runs them: disconnect, connect, request.     *)

LEMMA DisconnectInv ==
  ASSUME TypeOK, IInv, CloseTest(Daemon) \/ CloseFd(Daemon) \/ CloseClear(Daemon)
  PROVE  IInv'
<1> USE DEF IInv, Returns, Unconnecting, Standing, Descriptors, NoDescriptorLeak,
            OkIsAuthenticated, Session, InSession, Sessions, Closing, At, Back,
            Closes, Connects, Requests, Commanded, Authenticated
<1>1. CASE CloseTest(Daemon)
  <2>1. \/ /\ cloud.fd = NoFd /\ pc'[Daemon] = frame[Daemon].back
           /\ frame'[Daemon].back = "idle"
        \/ cloud.fd # NoFd /\ pc'[Daemon] = "close_fd" /\ frame' = frame
    BY <1>1, Finished, Moved DEF CloseTest
  <2> QED
    BY <1>1, <2>1 DEF CloseTest, shared
<1>2. CASE CloseFd(Daemon)
  <2>1. \A f \in Fds : sock'[f].st = "free" /\ OkIsAuthenticated'
    BY <1>2 DEF CloseFd, FreeSock, TypeOK, Typed
  <2> QED
    BY <1>2, <2>1, Moved DEF CloseFd
<1>3. CASE CloseClear(Daemon)
  <2>1. cloud'.fd = NoFd /\ cloud'.status = cloud.status
    BY <1>3 DEF CloseClear, TypeOK, Typed, Clouds
  <2> QED
    BY <1>3, <2>1, Finished DEF CloseClear
<1> QED
  BY <1>1, <1>2, <1>3

LEMMA GreetingKeeps ==
  ASSUME TypeOK, OkIsAuthenticated, Connect(Daemon)
  PROVE  /\ OkIsAuthenticated'
         /\ \A g \in Fds : sock[g].st = "free" => sock'[g].st = "free"
<1>1. sock' = sock \/ Unconnected(cloud.fd)
  BY DEF Connect
<1>2. CASE sock' = sock
  BY <1>2 DEF OkIsAuthenticated
<1>3. CASE Unconnected(cloud.fd) /\ sock' # sock
  <2>1. \A g \in Fds : g # cloud.fd => sock'[g] = sock[g]
    BY <1>3 DEF Connect, TypeOK, Typed
  <2>2. /\ sock[cloud.fd].st # "free" /\ sock'[cloud.fd].auth = sock[cloud.fd].auth
        /\ sock'[cloud.fd].in \in {sock[cloud.fd].in, <<Hello>>}
    BY <1>3 DEF Connect, Unconnected, TypeOK, Typed, Sockets
  <2>3. \A n \in 1..Len(<<Hello>>) : n = 1 /\ ~Hello.ok
    BY DEF Hello, Packet
  <2> QED
    BY <2>1, <2>2, <2>3 DEF OkIsAuthenticated
<1> QED
  BY <1>1, <1>2, <1>3

\* An attempt to connect starts with no descriptor, so that what socket()
\* returns is the only one.
LEMMA ConnectInv ==
  ASSUME TypeOK, IInv,
         Socket(Daemon) \/ Connect(Daemon) \/ HelloFd(Daemon) \/ ReadHello(Daemon)
  PROVE  IInv'
<1> USE DEF IInv, Returns, Unconnecting, Standing, Descriptors, NoDescriptorLeak,
            OkIsAuthenticated, Session, InSession, Sessions, Closing, At, Back,
            Closes, Connects, Requests, Commanded, Authenticated
<1>1. CASE Socket(Daemon)
  <2> PICK f \in SocketResults :
        IF f = NoFd
        THEN /\ cloud' = [cloud EXCEPT !.fd = NoFd, !.reachable = FALSE]
             /\ Return(Daemon, "net")
             /\ sock' = sock
        ELSE /\ cloud' = [cloud EXCEPT !.fd = f]
             /\ sock' = [sock EXCEPT ![f].st = "open"]
             /\ Goto(Daemon, "connect")
             /\ frame' = frame
    BY <1>1 DEF Socket
  <2>1. cloud'.fd = f /\ cloud'.status = cloud.status /\ pc[Daemon] = "socket"
    BY ZenonT(40), <1>1 DEF Socket, TypeOK, Typed, Clouds
  <2>2. CASE f = NoFd
    BY <2>1, <2>2, ReturnedWith
  <2>3. CASE f # NoFd
    <3>1. f \in Fds
      BY <2>3 DEF SocketResults, FreeFds
    <3>2. \A g \in Fds : /\ g # f => sock'[g] = sock[g]
                         /\ sock'[g].in = sock[g].in /\ sock'[g].auth = sock[g].auth
      BY <2>3, <3>1 DEF TypeOK, Typed, Sockets
    <3>3. \A g \in Fds : sock[g].st = "free"
      BY <2>1, FdAssumption DEF NoFd
    <3> QED
      BY <2>1, <2>3, <3>1, <3>2, <3>3, Moved
  <2> QED
    BY <2>2, <2>3
<1>2. CASE Connect(Daemon)
  <2>1. cloud'.fd = cloud.fd /\ cloud'.status = cloud.status
    BY <1>2 DEF Connect, ConnectFails, TypeOK, Typed, Clouds
  <2>2. \/ pc'[Daemon] = "hello_fd" /\ frame' = frame
        \/ pc'[Daemon] = "linked" /\ frame'[Daemon].back = "idle"
    BY <1>2, Moved, ReturnedWith DEF Connect, ConnectFails
  <2> QED
    BY <1>2, <2>1, <2>2, GreetingKeeps DEF Connect
<1>3. CASE HelloFd(Daemon)
  <2>1. frame'[Daemon].back = frame[Daemon].back
    BY <1>3, DaemonThread, FrameType DEF HelloFd, TypeOK, Typed, Frames
  <2> QED
    BY <1>3, <2>1, Moved DEF HelloFd, shared
<1>4. CASE ReadHello(Daemon)
  <2>1. cloud'.fd = cloud.fd /\ cloud'.status = cloud.status
    BY <1>4 DEF ReadHello, ConnectFails, TypeOK, Typed, Clouds
  <2>2. pc'[Daemon] = "linked" /\ frame'[Daemon].back = "idle"
    BY <1>4, ReturnedWith DEF ReadHello, ConnectFails
  <2>3. KeptSockets
    BY <1>4, PopKeeps DEF ReadHello, HasPacket, KeptSockets
  <2> QED
    BY SMTT(30), <1>4, <2>1, <2>2, <2>3 DEF ReadHello, KeptSockets
<1> QED
  BY <1>1, <1>2, <1>3, <1>4

\* Only a request sent where the daemon has a session, or AUTH itself, gets
\* an OK.
LEMMA SendKeeps ==
  ASSUME TypeOK, IInv, Send(Daemon)
  PROVE  /\ OkIsAuthenticated'
         /\ \A g \in Fds : /\ sock'[g].st = "free" <=> sock[g].st = "free"
                           /\ sock[g].auth => sock'[g].auth
<1> DEFINE f == cloud.fd
<1> DEFINE c == frame[Daemon].cmd
<1>1. c = "AUTH" \/ Authenticated(f)
  BY DEF Send, IInv, Returns, Session, InSession, Requests, At, Back, Commanded
<1>2. CASE Connected(f) /\ Answered(Daemon, f, c)
  <2> PICK ok \in Verdicts(c) :
        sock' = [sock EXCEPT ![f].in = Append(@, Answer(Daemon, c, ok)),
                             ![f].auth = @ \/ (c = "AUTH" /\ ok)]
    BY <1>2 DEF Answered
  <2> DEFINE a == sock[f].auth \/ (c = "AUTH" /\ ok)
  <2>1. f \in Fds
    BY <1>2 DEF Connected
  <2>2. ok \in BOOLEAN /\ c \in Commands
    BY DaemonThread, FrameType DEF Verdicts, Frames
  <2>3. Answer(Daemon, c, ok) \in Packets /\ Answer(Daemon, c, ok).ok = ok
    BY <2>2, DaemonThread DEF Packets, Answer, Packet
  <2>4. a \in BOOLEAN /\ (sock[f].auth => a) /\ (Answer(Daemon, c, ok).ok => a)
    BY <1>1, <2>3 DEF Authenticated
  <2>5. sock' = [sock EXCEPT ![f].in = Append(@, Answer(Daemon, c, ok)),
                             ![f].auth = a]
    BY <2>1 DEF TypeOK, Typed, Sockets
  <2> HIDE DEF a
  <2> QED
    BY <2>1, <2>3, <2>4, <2>5, PushKeeps DEF IInv
<1>3. CASE Connected(f) /\ Unanswered(Daemon, f, c)
  <2>1. \A g \in Fds : /\ sock'[g].in = sock[g].in /\ sock'[g].auth = sock[g].auth
                       /\ sock'[g].st = "free" <=> sock[g].st = "free"
    BY <1>3 DEF Unanswered, Connected, TypeOK, Typed, Sockets
  <2> QED
    BY <2>1 DEF IInv, OkIsAuthenticated
<1>4. CASE ~Connected(f)
  BY <1>4 DEF Send, IInv, OkIsAuthenticated
<1> QED
  BY <1>2, <1>3, <1>4 DEF Send

LEMMA RequestInv ==
  ASSUME TypeOK, IInv, Send(Daemon) \/ RecvFd(Daemon) \/ Recv(Daemon)
  PROVE  IInv'
<1> USE DEF IInv, Returns, Unconnecting, Standing, Descriptors, NoDescriptorLeak,
            Session, InSession, Sessions, Closing, At, Back,
            Closes, Connects, Requests, Commanded, Authenticated
<1>1. CASE Send(Daemon)
  <2>1. cloud'.fd = cloud.fd /\ cloud'.status = cloud.status
    BY <1>1 DEF Send, RequestFails, TypeOK, Typed, Clouds
  <2>2. \/ pc'[Daemon] = "recv_fd" /\ frame' = frame
        \/ /\ pc'[Daemon] = frame[Daemon].back /\ frame'[Daemon].back = "idle"
           /\ frame'[Daemon].res = "net"
    BY <1>1, Moved, ReturnedWith DEF Send, RequestFails
  <2> QED
    BY <1>1, <2>1, <2>2, SendKeeps DEF Send
<1>2. CASE RecvFd(Daemon)
  <2>1. /\ frame'[Daemon].back = frame[Daemon].back
        /\ frame'[Daemon].cmd = frame[Daemon].cmd
        /\ frame'[Daemon].rfd = cloud.fd
    BY <1>2, DaemonThread, FrameType DEF RecvFd, TypeOK, Typed, Frames
  <2> QED
    BY <1>2, <2>1, Moved DEF RecvFd, shared, OkIsAuthenticated
<1>3. CASE Recv(Daemon)
  <2>1. cloud'.fd = cloud.fd /\ cloud'.status = cloud.status
    BY <1>3 DEF Recv, RequestFails, TypeOK, Typed, Clouds
  <2>2. /\ pc'[Daemon] = frame[Daemon].back /\ frame'[Daemon].back = "idle"
        /\ frame'[Daemon].res = "ok" => Authenticated(cloud.fd)
    BY <1>3, ReturnedWith, FirstOk DEF Recv, RequestFails, HasPacket
  <2>3. KeptSockets
    BY <1>3, PopKeeps DEF Recv, HasPacket, KeptSockets
  <2> QED
    BY <1>3, <2>1, <2>2, <2>3 DEF Recv, KeptSockets, OkIsAuthenticated
<1> QED
  BY <1>1, <1>2, <1>3

-----------------------------------------------------------------------------
(* The environment, the initial states, and the invariant.                 *)

\* The state a boot leaves, whatever the saved account and device information.
Fresh ==
  /\ \E u \in Users \cup {NoUser}, i \in Infos : cloud = Booted(u, i)
  /\ sock = AllFree
  /\ pc = Started
  /\ frame = [t \in Threads |-> Blank]

LEMMA FreshInv == Fresh => IInv
<1> SUFFICES ASSUME Fresh PROVE IInv
  OBVIOUS
<1>1. /\ cloud.status = "INIT" /\ cloud.fd = NoFd /\ pc[Daemon] = "boot"
      /\ \A f \in Fds : sock[f].st = "free" /\ sock[f].in = <<>>
  BY DaemonThread DEF Fresh, Booted, Started, AllFree, FreeSock
<1>2. Returns /\ Unconnecting /\ Standing /\ Descriptors
  BY <1>1 DEF Returns, Unconnecting, Standing, Descriptors, NoDescriptorLeak, At,
     Back, Closes, Connects, Requests
<1>3. OkIsAuthenticated
  BY <1>1 DEF OkIsAuthenticated
<1>4. Session
  BY <1>1 DEF Session, InSession, Sessions, Closing, At, Back, Requests
<1> QED
  BY <1>2, <1>3, <1>4 DEF IInv

LEMMA EnvironmentInv ==
  ASSUME TypeOK, IInv, Environment
  PROVE  IInv'
<1>1. CASE AgentStarts
  BY <1>1, QuietStep DEF AgentStarts, IInv, OkIsAuthenticated
<1>2. CASE AgentPushes
  <2> PICK f \in Fds, d \in Controls :
        /\ sock[f].auth
        /\ sock' = [sock EXCEPT ![f].in = Append(@, Control(d))]
    BY <1>2 DEF AgentPushes
  <2>1. Control(d) \in Packets
    BY DEF Packets
  <2>2. ~Control(d).ok
    BY DEF Control, Packet
  <2>3. /\ sock[f].auth \in BOOLEAN
        /\ sock' = [sock EXCEPT ![f].in = Append(@, Control(d)),
                                ![f].auth = sock[f].auth]
    BY DEF TypeOK, Typed, Sockets
  <2>4. /\ OkIsAuthenticated'
        /\ \A g \in Fds : sock'[g].st = sock[g].st
        /\ \A g \in Fds : sock[g].auth => sock'[g].auth
    BY <2>1, <2>2, <2>3, PushKeeps DEF IInv
  <2> QED
    BY <1>2, <2>4, QuietStep DEF AgentPushes
<1>3. CASE AgentDrops
  <2>1. \A g \in Fds : /\ sock'[g].in = sock[g].in /\ sock'[g].auth = sock[g].auth
                       /\ sock'[g].st = "free" <=> sock[g].st = "free"
    BY <1>3 DEF AgentDrops, Connected, TypeOK, Typed, Sockets
  <2> QED
    BY <1>3, <2>1, QuietStep DEF AgentDrops, IInv, OkIsAuthenticated
<1>4. CASE Reboot
  <2>1. Fresh'
    BY <1>4 DEF Reboot, Fresh, TypeOK, Typed
  <2>2. Fresh' => IInv'
    BY FreshInv, PTL
  <2> QED
    BY <2>1, <2>2
<1> QED
  BY <1>1, <1>2, <1>3, <1>4 DEF Environment

LEMMA InitInv == Init => IInv
  BY FreshInv DEF Init, Fresh

LEMMA StepInv ==
  ASSUME TypeOK, IInv, [Next]_vars
  PROVE  IInv'
<1>1. CASE DaemonStep
  <2>1. CASE Routine(Daemon)
    BY <2>1, DisconnectInv, ConnectInv, RequestInv DEF Routine
  <2> QED
    BY <1>1, <2>1, WorkInv
<1>2. CASE \E t \in Handlers : HandlerStep(t)
  BY <1>2, HandlerInv
<1>3. CASE Environment
  BY <1>3, EnvironmentInv
<1>4. CASE UNCHANGED vars
  BY <1>4, QuietStep DEF vars, IInv, OkIsAuthenticated
<1> QED
  BY <1>1, <1>2, <1>3, <1>4 DEF Next

-----------------------------------------------------------------------------
(* The theorems.                                                           *)

\* What the daemon knows of its descriptor at each point of its loop: the
\* inductive invariant the other theorems follow from.
THEOREM Inductive == Spec => []IInv
<1>1. IInv /\ TypeOK /\ [Next]_vars => IInv'
  BY StepInv
<1> QED
  BY InitInv, <1>1, TypeCorrect, PTL DEF Spec

\* The daemon never loses a descriptor: every open socket is the one that
\* cloud.fd names, whatever fails, and however often it reconnects.
THEOREM DescriptorsKept == Spec => []NoDescriptorLeak
<1>1. IInv => NoDescriptorLeak
  BY DEF IInv, Descriptors
<1> QED
  BY Inductive, <1>1, PTL

\* A device that shows CONNECTED holds an authenticated connection, or its
\* daemon is on the way to say that it does not.
THEOREM SessionAuthenticated == Spec => []ConnectedIsAuthenticated
<1>1. IInv => ConnectedIsAuthenticated
  BY DEF IInv, Session, InSession, Sessions, At, Back, ConnectedIsAuthenticated
<1> QED
  BY Inductive, <1>1, PTL

-----------------------------------------------------------------------------
(* Only a request brings an answer into a connection.                      *)

SocketTypes == sock \in [Fds -> Sockets]

\* The packets that the environment and a greeting add are no answers.
LEMMA NoAnswer ==
  ASSUME SocketTypes, NEW f \in Fds, NEW c,
         sock'[f].in = sock[f].in \/ sock'[f].in = <<>> \/ sock'[f].in = <<Hello>>
  PROVE  ~NewAnswer(f, c)
<1>1. sock[f].in \in Seq(Packets)
  BY DEF SocketTypes, Sockets
<1>2. Len(sock[f].in) \in Nat /\ Len(<<>>) = 0
  BY <1>1
<1>3. CASE sock'[f].in = sock[f].in \/ sock'[f].in = <<>>
  <2>1. Len(sock'[f].in) = Len(sock[f].in) \/ Len(sock'[f].in) = 0
    BY <1>2, <1>3
  <2>2. ~(Len(sock'[f].in) > Len(sock[f].in))
    BY <1>2, <2>1
  <2> QED
    BY <2>2 DEF NewAnswer
<1>4. CASE sock'[f].in = <<Hello>>
  <2>1. Last(sock'[f].in) = Hello
    BY <1>4 DEF Last
  <2>2. Hello.kind # "answer"
    BY DEF Hello, Packet
  <2> QED
    BY <2>1, <2>2 DEF NewAnswer
<1> QED
  BY <1>3, <1>4

LEMMA PopNoAnswer ==
  ASSUME SocketTypes, NEW g \in Fds, sock[g].in # <<>>, Pop(g), NEW f \in Fds, NEW c
  PROVE  ~NewAnswer(f, c)
<1>1. sock[f].in \in Seq(Packets) /\ sock[g].in \in Seq(Packets)
  BY DEF SocketTypes, Sockets
<1>2. sock'[f].in = IF f = g THEN Tail(sock[g].in) ELSE sock[f].in
  BY DEF Pop, SocketTypes, Sockets
<1>3. Len(Tail(sock[g].in)) = Len(sock[g].in) - 1 /\ Len(sock[g].in) \in Nat
      /\ Len(sock[f].in) \in Nat
  BY <1>1
<1>4. ~(Len(sock'[f].in) > Len(sock[f].in))
  BY <1>2, <1>3
<1> QED
  BY <1>4 DEF NewAnswer

LEMMA PushesNoAnswer ==
  ASSUME SocketTypes, AgentPushes, NEW f \in Fds, NEW c
  PROVE  ~NewAnswer(f, c)
<1> PICK g \in Fds, d \in Controls : sock' = [sock EXCEPT ![g].in = Append(@, Control(d))]
  BY DEF AgentPushes
<1>1. CASE f # g
  <2>1. sock'[f].in = sock[f].in
    BY <1>1 DEF SocketTypes
  <2> QED
    BY <2>1, NoAnswer
<1>2. CASE f = g
  <2>1. sock[f].in \in Seq(Packets) /\ sock'[f].in = Append(sock[f].in, Control(d))
    BY <1>2 DEF SocketTypes, Sockets
  <2>2. Control(d) \in Packets
    BY DEF Packets
  <2>3. Last(Append(sock[f].in, Control(d))) = Control(d)
    BY <2>1, <2>2 DEF Last
  <2> QED
    BY <2>1, <2>3 DEF NewAnswer, Control, Packet
<1> QED
  BY <1>1, <1>2

LEMMA RoutineNoAnswer ==
  ASSUME SocketTypes, NEW t \in Threads, Routine(t), ~Send(t), NEW f \in Fds, NEW c
  PROVE  ~NewAnswer(f, c)
<1>1. CASE CloseFd(t)
  <2>1. sock'[f].in = sock[f].in \/ sock'[f].in = <<>>
    BY <1>1 DEF CloseFd, FreeSock, SocketTypes
  <2> QED
    BY <2>1, NoAnswer
<1>2. CASE Socket(t)
  <2> PICK g : sock' = sock \/ sock' = [sock EXCEPT ![g].st = "open"]
    BY <1>2 DEF Socket
  <2>1. f # g => sock'[f] = sock[f]
    BY DEF SocketTypes
  <2>2. f = g => sock'[f].in = sock[f].in
    BY DEF SocketTypes, Sockets
  <2> QED
    BY <2>1, <2>2, NoAnswer
<1>3. CASE Connect(t)
  <2>1. \/ sock' = sock
        \/ sock' = [sock EXCEPT ![cloud.fd].st = "up", ![cloud.fd].in = <<Hello>>]
        \/ sock' = [sock EXCEPT ![cloud.fd].st = "hup"]
    BY <1>3 DEF Connect
  <2>2. f # cloud.fd => sock'[f] = sock[f]
    BY <2>1 DEF SocketTypes
  <2>3. CASE sock' = [sock EXCEPT ![cloud.fd].st = "up", ![cloud.fd].in = <<Hello>>]
    <3>1. f = cloud.fd => sock'[f].in = <<Hello>>
      BY <2>3 DEF SocketTypes, Sockets
    <3> QED
      BY <2>2, <3>1, NoAnswer
  <2>4. CASE sock' = [sock EXCEPT ![cloud.fd].st = "hup"]
    <3>1. f = cloud.fd => sock'[f].in = sock[f].in
      BY <2>4 DEF SocketTypes, Sockets
    <3> QED
      BY <2>2, <3>1, NoAnswer
  <2> QED
    BY <2>1, <2>3, <2>4, NoAnswer
<1>4. CASE ReadHello(t) \/ Recv(t)
  <2>1. sock' = sock \/ \E g \in Fds : sock[g].in # <<>> /\ Pop(g)
    BY <1>4 DEF ReadHello, Recv, HasPacket
  <2> QED
    BY <2>1, NoAnswer, PopNoAnswer
<1>5. CASE CloseTest(t) \/ CloseClear(t) \/ HelloFd(t) \/ RecvFd(t)
  <2>1. sock' = sock
    BY <1>5 DEF CloseTest, CloseClear, HelloFd, RecvFd, shared
  <2> QED
    BY <2>1, NoAnswer
<1> QED
  BY <1>1, <1>2, <1>3, <1>4, <1>5 DEF Routine

LEMMA DaemonNoAnswer ==
  ASSUME SocketTypes, DaemonStep, ~Send(Daemon), NEW f \in Fds, NEW c
  PROVE  ~NewAnswer(f, c)
<1>1. CASE Routine(Daemon)
  BY <1>1, DaemonThread, RoutineNoAnswer
<1>2. CASE ControlRecv
  <2>1. sock' = sock \/ \E g \in Fds : sock[g].in # <<>> /\ Pop(g)
    BY <1>2 DEF ControlRecv, HasPacket
  <2> QED
    BY <2>1, NoAnswer, PopNoAnswer
<1>3. CASE sock' = sock
  BY <1>3, NoAnswer
<1> QED
  BY <1>1, <1>2, <1>3
     DEF DaemonStep, WaitAgent, Dispatch, StatusInit, SetConnecting, SetDisconnected,
         SetBroken, SetConnected, Linked, AuthDone, UpdateDone, SetUnbound, ClearUnbound,
         StatusConnected, NeedUpdate, NeedRead, NeedClear, RefreshDone, Retry, Resume,
         Pace, Restart, Poll, PollSelect, ControlLock, ControlPoll, ControlSelect,
         ControlRecvFd, UnbindDone, UnbindStatus, UnbindAccount, UnbindPassword, Reply,
         SetStatus, shared

LEMMA EnvironmentNoAnswer ==
  ASSUME SocketTypes, Environment, NEW f \in Fds, NEW c
  PROVE  ~NewAnswer(f, c)
<1>1. CASE AgentPushes
  BY <1>1, PushesNoAnswer
<1>2. CASE AgentStarts
  BY <1>2, NoAnswer DEF AgentStarts
<1>3. CASE AgentDrops
  <2>1. sock'[f].in = sock[f].in
    BY <1>3 DEF AgentDrops, Connected, SocketTypes, Sockets
  <2> QED
    BY <2>1, NoAnswer
<1>4. CASE Reboot
  <2>1. sock'[f].in = <<>>
    BY <1>4 DEF Reboot, AllFree, FreeSock
  <2> QED
    BY <2>1, NoAnswer
<1> QED
  BY <1>1, <1>2, <1>3, <1>4 DEF Environment

LEMMA QuietNoAnswer ==
  ASSUME SocketTypes, Next, ~Send(Daemon), NEW f \in Fds, NEW c
  PROVE  ~NewAnswer(f, c)
<1>1. ASSUME NEW t \in Handlers, HandlerStep(t)
      PROVE  sock' = sock
  BY <1>1 DEF HandlerStep, DeliverField, StoreField, MarkField, DeliverUpnp,
     StoreUpnp, MarkUpnp, DeliverNetwork, MarkNetwork, SetRestart, Deliver,
     MarkUpdate, SetStatus, shared
<1> QED
  BY <1>1, NoAnswer, DaemonNoAnswer, EnvironmentNoAnswer DEF Next

\* A request is answered over the connection it is sent on.
LEMMA SentAnswer ==
  ASSUME SocketTypes, NEW t \in Threads, frame[t].cmd \in Commands, Send(t),
         NEW f \in Fds, NEW c, NewAnswer(f, c)
  PROVE  /\ f = cloud.fd /\ c = frame[t].cmd
         /\ Last(sock'[f].in).to = t
<1> DEFINE g == cloud.fd
<1> DEFINE d == frame[t].cmd
<1>1. CASE Connected(g) /\ Answered(t, g, d)
  <2>0. PICK ok \in Verdicts(d) :
        sock' = [sock EXCEPT ![g].in = Append(@, Answer(t, d, ok)),
                             ![g].auth = @ \/ (d = "AUTH" /\ ok)]
    BY <1>1 DEF Answered
  <2>1. f = g
    <3>1. SUFFICES ASSUME f # g PROVE FALSE
      OBVIOUS
    <3>2. sock'[f].in = sock[f].in
      BY <2>0, <3>1 DEF SocketTypes
    <3> QED
      BY <3>2, NoAnswer
  <2>2. ok \in BOOLEAN
    BY <2>0 DEF Verdicts
  <2>3. Answer(t, d, ok) \in Packets
    BY <2>2 DEF Packets
  <2>4. /\ sock[f].in \in Seq(Packets)
        /\ sock'[f].in = Append(sock[f].in, Answer(t, d, ok))
    BY <2>0, <2>1 DEF SocketTypes, Sockets
  <2>5. Last(Append(sock[f].in, Answer(t, d, ok))) = Answer(t, d, ok)
    BY <2>3, <2>4 DEF Last
  <2>6. Answer(t, d, ok).cmd = d /\ Answer(t, d, ok).to = t
    BY DEF Answer, Packet
  <2>7. Last(sock'[f].in).cmd = c
    BY DEF NewAnswer
  <2> QED
    BY <2>1, <2>4, <2>5, <2>6, <2>7
<1>2. CASE Connected(g) /\ Unanswered(t, g, d)
  <2>1. sock'[f].in = sock[f].in
    BY <1>2 DEF Unanswered, Connected, SocketTypes, Sockets
  <2> QED
    BY <2>1, NoAnswer
<1>3. CASE ~Connected(g)
  BY <1>3, NoAnswer DEF Send
<1> QED
  BY <1>1, <1>2, <1>3 DEF Send

\* Over a connection that the agent has not authenticated, the daemon sends
\* AUTH and nothing else.
LEMMA SendIsAuthorised ==
  ASSUME TypeOK, IInv, Next, NEW f \in Fds, NEW c, c # "AUTH", NewAnswer(f, c)
  PROVE  sock[f].auth
<1>1. SocketTypes /\ frame[Daemon].cmd \in Commands
  BY DaemonThread, FrameType DEF SocketTypes, TypeOK, Typed, Frames
<1>2. Send(Daemon)
  BY <1>1, QuietNoAnswer
<1>3. f = cloud.fd /\ c = frame[Daemon].cmd
  BY <1>1, <1>2, DaemonThread, SentAnswer
<1>4. frame[Daemon].cmd = "AUTH" \/ Authenticated(cloud.fd)
  BY <1>2 DEF Send, IInv, Returns, Session, InSession, Requests, At, Back, Commanded
<1> QED
  BY <1>3, <1>4 DEF Authenticated

\* The agent is asked to update or unbind the device only over a connection
\* on which the device has authenticated.
THEOREM AuthenticatesFirst == Spec => AuthFirst
<1> DEFINE A == \A f \in Fds, c \in {"UPDEV", "UBINDEV"} :
                  NewAnswer(f, c) => sock[f].auth
<1>1. TypeOK /\ IInv /\ [Next]_vars => [A]_vars
  <2>1. CASE UNCHANGED vars
    BY <2>1 DEF vars
  <2> QED
    BY <2>1, SendIsAuthorised
<1>2. TypeOK /\ IInv /\ [Next]_vars => [\A f \in Fds, c \in {"UPDEV", "UBINDEV"} :
                                          NewAnswer(f, c) => sock[f].auth]_vars
  BY <1>1
<1> QED
  BY <1>2, TypeCorrect, Inductive, PTL DEF Spec, AuthFirst

-----------------------------------------------------------------------------
(* What a step on a socket does to the OKs in the inboxes.                 *)

\* No socket, and nothing the OKs depend on, has changed.
LEMMA OksKept ==
  ASSUME sock' = sock, agent'.bound = agent.bound
  PROVE  /\ Emptied => Emptied'
         /\ SoleOk => SoleOk'
         /\ NoOks => NoOks'
  BY DEF Emptied, SoleOk, NoOks, Oks

\* Reading takes the first packet away, and the OK with it if it was one.
LEMMA PopOks ==
  ASSUME TypeOK, agent' = agent, NEW f \in Fds, sock[f].in # <<>>, Pop(f)
  PROVE  /\ Emptied => Emptied'
         /\ SoleOk => SoleOk'
         /\ NoOks => NoOks'
         /\ SoleOk /\ Head(sock[f].in).ok => Oks(f)' = {}
         /\ \A g \in Fds : g # f => Oks(g)' = Oks(g)
<1>1. sock \in [Fds -> Sockets] /\ sock[f].in \in Seq(Packets)
  BY DEF TypeOK, Typed, Sockets
<1>2. /\ sock'[f].st = sock[f].st /\ sock'[f].in = Tail(sock[f].in)
      /\ \A g \in Fds : g # f => sock'[g] = sock[g]
  BY <1>1 DEF Pop, Sockets
<1>3. ASSUME NEW n \in Oks(f)' PROVE n + 1 \in Oks(f) /\ n + 1 # 1
  <2>1. n \in 1..Len(Tail(sock[f].in)) /\ Tail(sock[f].in)[n].ok /\ agent.bound
    BY <1>2, <1>3 DEF Oks
  <2>2. n + 1 \in 1..Len(sock[f].in) /\ Tail(sock[f].in)[n] = sock[f].in[n + 1]
    BY <1>1, <2>1
  <2> QED
    BY <2>1, <2>2 DEF Oks
<1>4. \A g \in Fds : g # f => Oks(g)' = Oks(g)
  BY <1>2 DEF Oks
<1>5. Emptied => Emptied'
  BY <1>1, <1>2 DEF Emptied
<1>6. SoleOk => SoleOk'
  <2> SUFFICES ASSUME SoleOk, NEW g \in Fds, NEW m \in Oks(g)', NEW n \in Oks(g)'
               PROVE  m = n
    BY DEF SoleOk
  <2>1. CASE g # f
    BY <1>4, <2>1 DEF SoleOk
  <2>2. CASE g = f
    <3>1. m \in Int /\ n \in Int
      BY DEF Oks
    <3>2. m + 1 = n + 1
      BY <1>3, <2>2 DEF SoleOk
    <3> QED
      BY <3>1, <3>2
  <2> QED
    BY <2>1, <2>2
<1>7. NoOks => NoOks'
  BY <1>3, <1>4 DEF NoOks
<1>8. SoleOk /\ Head(sock[f].in).ok => Oks(f)' = {}
  <2> SUFFICES ASSUME SoleOk, Head(sock[f].in).ok, NEW n \in Oks(f)'
               PROVE  FALSE
    OBVIOUS
  <2>1. agent.bound
    BY DEF Oks
  <2>2. 1 \in Oks(f)
    BY <1>1, <2>1 DEF Oks
  <2> QED
    BY <1>3, <2>2 DEF SoleOk
<1> QED
  BY <1>4, <1>5, <1>6, <1>7, <1>8

\* A packet comes behind the others: an OK after which there was none is the
\* only one, and what is no OK, or comes from an agent that has the device
\* unbound, adds none.
LEMMA PushOks ==
  ASSUME TypeOK, NEW f \in Fds, NEW p \in Packets, sock[f].st = "up",
         \A g \in Fds : sock'[g].st = sock[g].st,
         \A g \in Fds : g # f => sock'[g].in = sock[g].in,
         sock'[f].in = Append(sock[f].in, p),
         agent'.bound => agent.bound
  PROVE  /\ Emptied => Emptied'
         /\ NoOks => SoleOk'
         /\ SoleOk /\ ~(agent'.bound /\ p.ok) => SoleOk'
         /\ NoOks /\ ~(agent'.bound /\ p.ok) => NoOks'
<1>1. sock[f].in \in Seq(Packets) /\ Len(sock[f].in) \in Nat
  BY DEF TypeOK, Typed, Sockets
<1>2. Emptied => Emptied'
  BY DEF Emptied
<1>3. \A g \in Fds : g # f => Oks(g)' \subseteq Oks(g)
  BY DEF Oks
<1>4. \A n \in Oks(f)' : n \in Oks(f) \/ (n = Len(sock[f].in) + 1 /\ agent'.bound /\ p.ok)
  <2> SUFFICES ASSUME NEW n \in Oks(f)', n # Len(sock[f].in) + 1
               PROVE  n \in Oks(f)
    <3>1. ASSUME NEW n \in Oks(f)', n = Len(sock[f].in) + 1
          PROVE  agent'.bound /\ p.ok
      <4>1. Append(sock[f].in, p)[Len(sock[f].in) + 1] = p
        BY <1>1
      <4> QED
        BY <3>1, <4>1 DEF Oks
    <3> QED
      BY <3>1
  <2>1. n \in 1..Len(sock[f].in) + 1
    <3>1. Len(Append(sock[f].in, p)) = Len(sock[f].in) + 1
      BY <1>1
    <3> QED
      BY <3>1 DEF Oks
  <2>2. n \in 1..Len(sock[f].in)
    BY <1>1, <2>1
  <2>3. sock'[f].in[n] = sock[f].in[n]
    <3>1. Append(sock[f].in, p)[n] = sock[f].in[n]
      BY <1>1, <2>2
    <3> QED
      BY <3>1
  <2> QED
    BY <2>2, <2>3 DEF Oks
<1>5. NoOks /\ ~(agent'.bound /\ p.ok) => NoOks'
  BY <1>3, <1>4 DEF NoOks
<1>6. SoleOk /\ ~(agent'.bound /\ p.ok) => SoleOk'
  BY <1>3, <1>4 DEF SoleOk
<1>7. NoOks => SoleOk'
  BY <1>3, <1>4 DEF NoOks, SoleOk
<1> QED
  BY <1>2, <1>5, <1>6, <1>7

\* With no socket open there is nothing in an inbox.
LEMMA FreeOks ==
  ASSUME TypeOK, Emptied, \A f \in Fds : sock[f].st \in {"free", "open"}
  PROVE  NoOks /\ SoleOk
<1>1. \A f \in Fds : Len(sock[f].in) = 0
  BY DEF Emptied
<1>2. NoOks
  BY <1>1 DEF NoOks, Oks
<1> QED
  BY <1>2 DEF NoOks, SoleOk

-----------------------------------------------------------------------------
(* The steps of the daemon outside the routines.                           *)

\* Only reading and the routines touch a socket, and only the agent's own
\* service the agent.
LEMMA WorkKeepsOks ==
  ASSUME DaemonStep, ~Routine(Daemon), ~ControlRecv
  PROVE  sock' = sock /\ agent' = agent
  BY DEF DaemonStep, WaitAgent, Dispatch, StatusInit, SetConnecting,
         SetDisconnected, SetBroken, SetConnected, Linked, AuthDone, UpdateDone,
         SetUnbound, ClearUnbound, StatusConnected, NeedUpdate, NeedRead,
         NeedClear, RefreshDone, Retry, Resume, Pace, Restart, Poll, PollSelect,
         ControlLock, ControlPoll, ControlSelect, ControlRecvFd, UnbindDone,
         UnbindStatus, UnbindAccount, UnbindPassword, Reply, SetStatus, shared

LEMMA WorkBinding ==
  ASSUME TypeOK, IInv, BInv, DaemonStep, ~Routine(Daemon)
  PROVE  BInv'
<1> USE DaemonThread
<1>1. CASE ControlRecv
  <2>1. /\ cloud' = cloud /\ conf' = conf /\ agent' = agent
        /\ pc[Daemon] = "ctl_recv"
    BY <1>1 DEF ControlRecv
  <2>2. pc'[Daemon] \in {"top", "reply", "send", "close_test"}
    BY <1>1, DaemonLeft, DaemonCalled, DaemonRequested DEF ControlRecv
  <2>3. Emptied' /\ SoleOk' /\ NoOks'
    <3>1. Emptied /\ SoleOk /\ NoOks
      BY <2>1 DEF BInv, Settled, Awaits, Abandons, At
    <3>2. CASE sock' = sock
      BY <2>1, <3>1, <3>2, OksKept
    <3>3. CASE sock' # sock
      BY <1>1, <2>1, <3>1, <3>3, PopOks DEF ControlRecv, HasPacket
    <3> QED
      BY <3>2, <3>3
  <2> QED
    BY <2>1, <2>2, <2>3 DEF BInv, Saved, Settled, Agreed, At
<1>2. CASE ~ControlRecv
  <2>1. sock' = sock /\ agent' = agent
    BY <1>2, WorkKeepsOks
  <2>2. Emptied' /\ SoleOk' /\ (NoOks => NoOks')
    BY <2>1, OksKept DEF BInv
  <2>3. SUFFICES (Saved /\ Settled /\ Agreed)'
    BY <2>2 DEF BInv
  <2> USE <2>1, <2>2 DEF BInv, Saved, Settled, Agreed, Awaits, Abandons, At
  <2>4. CASE WaitAgent
    BY <2>4, Moved DEF WaitAgent, shared
  <2>5. CASE Dispatch
    BY <2>5, DispatchMoves DEF Dispatch, shared
  <2>6. CASE StatusInit
    BY <2>6, Moved DEF StatusInit, shared
  <2>7. CASE SetConnecting
    BY <2>7, Moved DEF SetConnecting, SetStatus, TypeOK, Typed, Clouds
  <2>8. CASE SetDisconnected
    BY <2>8, Moved DEF SetDisconnected, SetStatus, TypeOK, Typed, Clouds
  <2>9. CASE SetBroken
    BY <2>9, Moved DEF SetBroken, SetStatus, TypeOK, Typed, Clouds
  <2>10. CASE SetConnected
    BY <2>10, Moved DEF SetConnected, SetStatus, TypeOK, Typed, Clouds
  <2>11. CASE Linked
    <3>1. pc'[Daemon] \in {"to_disconnected", "unbound", "send"}
      BY <2>11, DaemonLeft, DaemonRequested DEF Linked
    <3> QED
      BY <2>11, <3>1 DEF Linked, shared
  <2>12. CASE AuthDone
    <3>1. \/ pc'[Daemon] \in {"to_disconnected", "to_broken"}
          \/ frame[Daemon].res = "ok" /\ pc'[Daemon] = "send"
      BY <2>12, DaemonLeft, DaemonRequested DEF AuthDone
    <3> QED
      BY <2>12, <3>1 DEF AuthDone, shared
  <2>13. CASE UpdateDone
    <3>1. \/ pc'[Daemon] \in {"to_disconnected", "to_broken"}
          \/ frame[Daemon].res = "ok" /\ pc'[Daemon] = "to_connected"
      BY <2>13, DaemonLeft DEF UpdateDone
    <3> QED
      BY <2>13, <3>1 DEF UpdateDone, shared
  <2>14. CASE SetUnbound
    BY <2>14, Moved DEF SetUnbound, SetStatus, TypeOK, Typed, Clouds
  <2>15. CASE ClearUnbound
    BY <2>15, Moved DEF ClearUnbound, ClearedCounters, TypeOK, Typed, Clouds
  <2>16. CASE StatusConnected
    BY <2>16, Moved DEF StatusConnected, shared
  <2>17. CASE NeedUpdate
    BY <2>17, Moved DEF NeedUpdate, shared
  <2>18. CASE NeedRead
    BY <2>18, Moved DEF NeedRead, shared
  <2>19. CASE NeedClear
    <3>1. pc'[Daemon] \in {"poll", "send"}
      BY <2>19, DaemonLeft, DaemonRequested DEF NeedClear
    <3>2. cloud'.binded = cloud.binded
      BY <2>19 DEF NeedClear, TypeOK, Typed, Clouds
    <3> QED
      BY <2>19, <3>1, <3>2 DEF NeedClear
  <2>20. CASE RefreshDone
    <3>1. \/ pc'[Daemon] \in {"to_disconnected", "to_broken"}
          \/ frame[Daemon].res = "ok" /\ pc'[Daemon] = "poll"
      BY <2>20, DaemonLeft DEF RefreshDone
    <3> QED
      BY <2>20, <3>1 DEF RefreshDone, shared
  <2>21. CASE Retry
    BY <2>21, Moved DEF Retry, TypeOK, Typed, Clouds
  <2>22. CASE Resume
    BY <2>22, Moved DEF Resume, SetStatus, TypeOK, Typed, Clouds
  <2>23. CASE Pace
    BY <2>23, Moved DEF Pace, TypeOK, Typed, Clouds
  <2>24. CASE Restart
    BY <2>24, Moved DEF Restart, ClearedCounters, TypeOK, Typed, Clouds
  <2>25. CASE Poll
    BY <2>25, Moved DEF Poll, shared
  <2>26. CASE PollSelect
    BY <2>26, Moved DEF PollSelect, shared
  <2>27. CASE ControlLock
    BY <2>27, Moved DEF ControlLock
  <2>28. CASE ControlPoll
    BY <2>28, Moved DEF ControlPoll, ControlNothing
  <2>29. CASE ControlSelect
    BY <2>29, Moved DEF ControlSelect, ControlNothing
  <2>30. CASE ControlRecvFd
    BY <2>30, Moved DEF ControlRecvFd, shared
  <2>31. CASE UnbindDone
    <3>1. \/ frame[Daemon].res = "ok" /\ pc'[Daemon] = "unbind_status"
          \/ frame[Daemon].res # "ok" /\ pc'[Daemon] = "reply"
      BY <2>31, DaemonLeft DEF UnbindDone
    <3>2. cloud'.binded = IF frame[Daemon].res = "ok" THEN FALSE ELSE cloud.binded
      BY <2>31 DEF UnbindDone, TypeOK, Typed, Clouds
    <3> QED
      BY <2>31, <3>1, <3>2 DEF UnbindDone
  <2>32. CASE UnbindStatus
    BY <2>32, Moved DEF UnbindStatus, SetStatus, TypeOK, Typed, Clouds
  <2>33. CASE UnbindAccount
    <3>1. conf'.account = NoUser
      BY <2>33 DEF UnbindAccount, TypeOK, Typed
    <3> QED
      BY <2>33, <3>1, Moved DEF UnbindAccount
  <2>34. CASE UnbindPassword
    <3>1. conf'.account = conf.account
      BY <2>34 DEF UnbindPassword, TypeOK, Typed
    <3> QED
      BY <2>34, <3>1, Moved DEF UnbindPassword
  <2>35. CASE Reply
    <3>1. pc'[Daemon] \in {"top", "close_test"}
      BY <2>35, DaemonLeft, DaemonCalled DEF Reply
    <3> QED
      BY <2>35, <3>1 DEF Reply, shared
  <2> QED
    BY <1>2, <2>4, <2>5, <2>6, <2>7, <2>8, <2>9, <2>10, <2>11, <2>12, <2>13,
       <2>14, <2>15, <2>16, <2>17, <2>18, <2>19, <2>20, <2>21, <2>22, <2>23,
       <2>24, <2>25, <2>26, <2>27, <2>28, <2>29, <2>30, <2>31, <2>32, <2>33,
       <2>34, <2>35 DEF DaemonStep
<1> QED
  BY <1>1, <1>2

-----------------------------------------------------------------------------
(* The routines.                                                           *)

\* No routine writes what is believed or saved of the binding.
LEMMA KeepsConf ==
  ASSUME TypeOK, Routine(Daemon)
  PROVE  /\ cloud'.binded = cloud.binded /\ cloud'.status = cloud.status
         /\ conf' = conf
         /\ ~Send(Daemon) => agent' = agent
  BY DEF Routine, CloseTest, CloseFd, CloseClear, Socket, Connect, HelloFd,
         ReadHello, Send, RecvFd, Recv, ConnectFails, RequestFails, shared, TypeOK,
         Typed, Clouds

LEMMA DisconnectBinding ==
  ASSUME TypeOK, IInv, BInv, CloseTest(Daemon) \/ CloseFd(Daemon) \/ CloseClear(Daemon)
  PROVE  BInv'
<1> USE DaemonThread
<1>1. /\ cloud'.binded = cloud.binded /\ conf' = conf /\ agent' = agent
  BY KeepsConf DEF Routine, Send, CloseTest, CloseFd, CloseClear
<1>2. CASE CloseTest(Daemon)
  <2>1. sock' = sock
    BY <1>2 DEF CloseTest, shared
  <2>2. CASE cloud.fd = NoFd
    <3>1. \A f \in Fds : sock[f].st = "free"
      BY <2>2, FdAssumption DEF IInv, Descriptors, NoDescriptorLeak, NoFd
    <3>2. Emptied' /\ NoOks' /\ SoleOk'
      BY <1>1, <2>1, <3>1, FreeOks, OksKept DEF BInv
    <3>3. pc'[Daemon] \in {"retry", "poll", "restart", "to_disconnected"}
      BY <1>2, <2>2, Finished
         DEF CloseTest, IInv, Returns, Closes, At, Back
    <3> QED
      BY <1>1, <1>2, <3>2, <3>3 DEF CloseTest, BInv, Saved, Settled, Agreed, At
  <2>3. CASE cloud.fd # NoFd
    <3>1. pc'[Daemon] = "close_fd"
      BY <1>2, <2>3, Moved DEF CloseTest
    <3> QED
      BY <1>1, <1>2, <2>1, <3>1, OksKept
         DEF CloseTest, BInv, Saved, Settled, Abandons, Agreed, At
  <2> QED
    BY <2>2, <2>3
<1>3. CASE CloseFd(Daemon)
  <2>1. Emptied' /\ \A f \in Fds : sock'[f].st = "free"
    BY <1>3 DEF CloseFd, FreeSock, BInv, Emptied, IInv, Descriptors,
       NoDescriptorLeak, TypeOK, Typed
  <2>2. NoOks' /\ SoleOk'
    <3>1. \A f \in Fds : Oks(f)' = {}
      <4>1. \A f \in Fds : Len(sock'[f].in) = 0
        BY <2>1 DEF Emptied
      <4> QED
        BY <4>1 DEF Oks
    <3> QED
      BY <3>1 DEF NoOks, SoleOk
  <2>3. pc'[Daemon] = "close_clear"
    BY <1>3, Moved DEF CloseFd
  <2> QED
    BY <1>1, <1>3, <2>1, <2>2, <2>3 DEF CloseFd, BInv, Saved, Settled, Agreed, At
<1>4. CASE CloseClear(Daemon)
  <2>1. sock' = sock /\ NoOks
    <3>1. \A f \in Fds : sock[f].st = "free"
      BY <1>4 DEF CloseClear, IInv, Descriptors, At
    <3> QED
      BY <1>4, <3>1, FreeOks DEF CloseClear, BInv
  <2>2. Emptied' /\ NoOks' /\ SoleOk'
    BY <1>1, <2>1, OksKept DEF BInv
  <2>3. pc'[Daemon] \in {"retry", "poll", "restart", "to_disconnected"}
    BY <1>4, Finished DEF CloseClear, IInv, Returns, Closes, At, Back
  <2> QED
    BY <1>1, <1>4, <2>2, <2>3 DEF CloseClear, BInv, Saved, Settled, Agreed, At
<1> QED
  BY <1>2, <1>3, <1>4

\* A new connection holds no answer.
LEMMA ConnectBinding ==
  ASSUME TypeOK, IInv, BInv,
         Socket(Daemon) \/ Connect(Daemon) \/ HelloFd(Daemon) \/ ReadHello(Daemon)
  PROVE  BInv'
<1> USE DaemonThread
<1>1. /\ cloud'.binded = cloud.binded /\ conf' = conf /\ agent' = agent
  BY KeepsConf DEF Routine, Send, Socket, Connect, HelloFd, ReadHello
<1>2. pc[Daemon] \in Connects /\ pc'[Daemon] \in {"connect", "hello_fd", "hello", "linked"}
  BY Moved, ReturnedWith
     DEF Socket, Connect, HelloFd, ReadHello, ConnectFails, IInv, Returns, At, Back,
         Connects
<1>3. NoOks /\ SoleOk /\ Emptied
  BY <1>2 DEF BInv, Settled, Awaits, Abandons, At, Connects
<1>4. Emptied' /\ NoOks' /\ SoleOk'
  <2>1. CASE sock' = sock
    BY <1>1, <1>3, <2>1, OksKept
  <2>2. CASE Socket(Daemon) /\ sock' # sock
    <3> PICK f \in SocketResults : f # NoFd /\ sock' = [sock EXCEPT ![f].st = "open"]
      BY <2>2 DEF Socket
    <3>1. f \in Fds /\ sock[f].st = "free"
      BY DEF SocketResults, FreeFds
    <3>2. /\ \A g \in Fds : sock'[g].in = sock[g].in
          /\ \A g \in Fds : g # f => sock'[g].st = sock[g].st
      BY <3>1 DEF TypeOK, Typed, Sockets
    <3>3. \A g \in Fds : Oks(g)' = Oks(g)
      BY <1>1, <3>2 DEF Oks
    <3>4. Emptied'
      BY <1>3, <3>1, <3>2 DEF Emptied
    <3> QED
      BY <1>3, <3>3, <3>4 DEF NoOks, SoleOk
  <2>3. CASE Connect(Daemon) /\ sock' # sock
    <3>1. \A g \in Fds : g # cloud.fd => sock'[g] = sock[g]
      BY <2>3 DEF Connect, TypeOK, Typed
    <3>2. cloud.fd \in Fds => /\ sock'[cloud.fd].st \in {"up", "hup"}
                              /\ sock'[cloud.fd].in \in {sock[cloud.fd].in, <<Hello>>}
      BY <2>3 DEF Connect, TypeOK, Typed, Sockets
    <3>3. \A n \in 1..Len(<<Hello>>) : n = 1 /\ ~Hello.ok
      BY DEF Hello, Packet
    <3>4. \A n \in 1..Len(<<Hello>>) : ~(<<Hello>>)[n].ok
      BY <3>3
    <3>5. \A g \in Fds : Oks(g)' = {}
      BY <1>1, <1>3, <3>1, <3>2, <3>4 DEF NoOks, Oks
    <3>6. Emptied'
      BY <1>3, <3>1, <3>2 DEF Emptied
    <3> QED
      BY <3>5, <3>6 DEF NoOks, SoleOk
  <2>4. CASE ReadHello(Daemon) /\ sock' # sock
    BY <1>1, <1>3, <2>4, PopOks DEF ReadHello, HasPacket
  <2> QED
    BY <2>1, <2>2, <2>3, <2>4 DEF HelloFd, shared
<1> QED
  BY <1>1, <1>2, <1>4 DEF BInv, Saved, Settled, Agreed, At, Connects

\* When a request is about to be sent no OK is waiting, so the next one is its
\* own; an UBINDEV that the agent grants leaves it unbound.
LEMMA SendBinding ==
  ASSUME TypeOK, IInv, BInv, Send(Daemon)
  PROVE  BInv'
<1> USE DaemonThread
<1> DEFINE f == cloud.fd
<1> DEFINE c == frame[Daemon].cmd
<1>1. NoOks /\ SoleOk /\ Emptied
  BY DEF Send, BInv, Settled, Awaits, Abandons, At
<1>2. /\ cloud'.binded = cloud.binded /\ conf' = conf
      /\ agent.bound \in BOOLEAN /\ c \in Commands
  BY KeepsConf, FrameType DEF Routine, TypeOK, Typed, Frames
<1>3. CASE ~Connected(f)
  <2>1. agent' = agent /\ sock' = sock
    BY <1>3 DEF Send
  <2>2. Emptied' /\ SoleOk' /\ NoOks'
    BY <1>1, <2>1, OksKept
  <2>3. /\ pc'[Daemon] \in {"auth_done", "update_done", "refresh_done", "unbind_done"}
        /\ frame'[Daemon].res = "net"
    BY <1>3, ReturnedWith
       DEF Send, RequestFails, IInv, Returns, Requests, At, Back
  <2> QED
    BY <1>2, <2>2, <2>3 DEF BInv, Saved, Settled, Agreed, At, Send
<1>4. CASE Connected(f)
  <2>1. pc'[Daemon] = "recv_fd" /\ frame' = frame /\ pc[Daemon] = "send"
    BY <1>4, Moved DEF Send
  <2>2. SUFFICES Emptied' /\ SoleOk' /\ (c = "UBINDEV" => NoOks')
    BY <1>2, <2>1, <2>2 DEF BInv, Saved, Settled, Awaits, Agreed, At
  <2>3. CASE Answered(Daemon, f, c)
    <3> PICK ok \in Verdicts(c) :
          /\ agent' = Served(c, ok, frame[Daemon].info)
          /\ sock' = [sock EXCEPT ![f].in = Append(@, Answer(Daemon, c, ok)),
                                  ![f].auth = @ \/ (c = "AUTH" /\ ok)]
      BY <2>3 DEF Answered
    <3> DEFINE p == Answer(Daemon, c, ok)
    <3>1. p \in Packets /\ p.ok = ok
      <4>1. ok \in BOOLEAN
        BY DEF Verdicts
      <4> QED
        BY <1>2, <4>1 DEF Packets, Answer, Packet
    <3>2. /\ c # "BINDEV"
          /\ agent'.bound => agent.bound /\ ~(c = "UBINDEV" /\ ok)
      <4>1. c # "BINDEV"
        BY <2>1 DEF IInv, Returns, Requests, At, Back, Commanded
      <4> QED
        BY <1>2, <4>1 DEF Served, TypeOK, Typed
    <3>3. f \in Fds /\ sock[f].st = "up"
      BY <1>4 DEF Connected
    <3>4. /\ \A g \in Fds : sock'[g].st = sock[g].st
          /\ \A g \in Fds : g # f => sock'[g].in = sock[g].in
          /\ sock'[f].in = Append(sock[f].in, p)
      BY <3>3 DEF TypeOK, Typed, Sockets
    <3> HIDE DEF p
    <3> QED
      BY <1>1, <3>1, <3>2, <3>3, <3>4, PushOks
  <2>4. CASE Unanswered(Daemon, f, c)
    <3>1. /\ \A g \in Fds : sock'[g].in = sock[g].in
          /\ \A g \in Fds : sock'[g].st \in {"free", "open"} => sock[g].st \in {"free", "open"}
      BY <2>4 DEF Unanswered, Connected, TypeOK, Typed, Sockets
    <3>2. \A g \in Fds : Oks(g)' \subseteq Oks(g)
      <4>1. c # "BINDEV"
        BY <2>1 DEF IInv, Returns, Requests, At, Back, Commanded
      <4>2. agent'.bound => agent.bound
        BY <1>2, <2>4, <4>1 DEF Unanswered, Served, TypeOK, Typed
      <4> QED
        BY <3>1, <4>2 DEF Oks
    <3> QED
      BY <1>1, <3>1, <3>2 DEF Emptied, SoleOk, NoOks
  <2> QED
    BY <1>4, <2>3, <2>4 DEF Send
<1> QED
  BY <1>3, <1>4

\* An OK that is read was the only one; another packet may leave one behind,
\* but then the daemon gives the connection up, or no OK was there to come.
LEMMA RecvBinding ==
  ASSUME TypeOK, IInv, BInv, RecvFd(Daemon) \/ Recv(Daemon)
  PROVE  BInv'
<1> USE DaemonThread
<1>1. /\ cloud'.binded = cloud.binded /\ conf' = conf /\ agent' = agent
  BY KeepsConf DEF Routine, Send, RecvFd, Recv
<1>2. CASE RecvFd(Daemon)
  <2>1. sock' = sock /\ pc'[Daemon] = "recv" /\ frame'[Daemon].cmd = frame[Daemon].cmd
    BY <1>2, Moved, FrameType DEF RecvFd, shared, TypeOK, Typed, Frames
  <2> QED
    BY <1>1, <1>2, <2>1, OksKept
       DEF RecvFd, BInv, Saved, Settled, Awaits, Abandons, Agreed, At
<1>3. CASE Recv(Daemon)
  <2> PICK f : f = cloud.fd
    OBVIOUS
  <2>1. frame[Daemon].rfd = f /\ pc[Daemon] = "recv"
    BY <1>3 DEF Recv, IInv, Returns, At
  <2>2. /\ pc'[Daemon] \in {"auth_done", "update_done", "refresh_done", "unbind_done"}
        /\ pc'[Daemon] = "unbind_done" => frame[Daemon].cmd = "UBINDEV"
    BY <1>3, ReturnedWith
       DEF Recv, RequestFails, IInv, Returns, Requests, At, Back, Commanded
  <2>3. frame[Daemon].cmd = "UBINDEV" => NoOks
    BY <2>1 DEF BInv, Settled, Awaits, Abandons, At
  <2>4. CASE HasPacket(f) /\ Pop(f)
    <3>1. f \in Fds /\ sock[f].in # <<>>
      BY <2>4 DEF HasPacket
    <3>2. Emptied' /\ SoleOk' /\ (NoOks => NoOks')
      BY <1>1, <2>4, <3>1, PopOks DEF BInv
    <3>3. CASE ~Head(sock[f].in).ok
      <4>1. frame'[Daemon].res # "ok"
        <5>1. \/ ReadFails(f) /\ RequestFails(Daemon)
              \/ Return(Daemon, IF Head(sock[f].in).ok THEN "ok" ELSE "no")
          BY <1>3, <2>1 DEF Recv
        <5> QED
          BY <3>3, <5>1, ReturnedWith DEF RequestFails
      <4> QED
        BY <1>1, <2>1, <2>2, <2>3, <3>2, <4>1
           DEF BInv, Saved, Settled, Abandons, Agreed, At
    <3>4. CASE Head(sock[f].in).ok
      <4>1. Oks(f)' = {} /\ \A g \in Fds : g # f => Oks(g)' = Oks(g)
        BY <1>1, <2>4, <3>1, <3>4, PopOks DEF BInv
      <4>2. \A g \in Fds : g # f => Oks(g) = {}
        <5>1. \A g \in Fds : g # f => sock[g].in = <<>>
          BY DEF BInv, Emptied, IInv, Descriptors, NoDescriptorLeak
        <5>2. \A g \in Fds : g # f => Len(sock[g].in) = 0
          BY <5>1
        <5> QED
          BY <5>2 DEF Oks
      <4>3. NoOks'
        BY <4>1, <4>2 DEF NoOks
      <4>4. frame[Daemon].cmd = "UBINDEV" => ~agent.bound
        <5> SUFFICES ASSUME NoOks, agent.bound PROVE FALSE
          BY <2>3
        <5>1. sock[f].in \in Seq(Packets)
          BY <3>1 DEF TypeOK, Typed, Sockets
        <5>2. 1 \in Oks(f)
          BY <3>1, <3>4, <5>1 DEF Oks
        <5> QED
          BY <3>1, <5>2 DEF NoOks
      <4> QED
        BY <1>1, <2>1, <2>2, <3>2, <4>3, <4>4
           DEF BInv, Saved, Settled, Agreed, At
    <3> QED
      BY <3>3, <3>4
  <2>5. CASE ~(HasPacket(f) /\ Pop(f))
    <3>1. sock' = sock /\ RequestFails(Daemon)
      BY <1>3, <2>1, <2>5 DEF Recv
    <3>2. frame'[Daemon].res = "net"
      BY <3>1, ReturnedWith DEF RequestFails
    <3>3. Emptied' /\ SoleOk' /\ (NoOks => NoOks')
      BY <1>1, <3>1, OksKept DEF BInv
    <3> QED
      BY <1>1, <2>1, <2>2, <2>3, <3>2, <3>3
         DEF BInv, Saved, Settled, Abandons, Agreed, At
  <2> QED
    BY <2>4, <2>5
<1> QED
  BY <1>2, <1>3

-----------------------------------------------------------------------------
(* The other threads and the environment.                                  *)

\* A step that leaves the daemon, the binding and its record alone.
LEMMA QuietBinding ==
  ASSUME BInv, pc'[Daemon] = pc[Daemon], frame'[Daemon] = frame[Daemon],
         cloud'.binded = cloud.binded, cloud'.status \in {cloud.status, "RESTART"},
         conf' = conf, agent'.bound = agent.bound,
         Emptied', SoleOk', NoOks => NoOks'
  PROVE  BInv'
  BY DEF BInv, Saved, Settled, Awaits, Abandons, Agreed, At

LEMMA HandlerBinding ==
  ASSUME TypeOK, BInv, NEW t \in Handlers, HandlerStep(t)
  PROVE  BInv'
<1> USE DEF HandlerStep, DeliverField, StoreField, MarkField, DeliverUpnp, StoreUpnp,
            MarkUpnp, DeliverNetwork, MarkNetwork, SetRestart, Deliver, MarkUpdate,
            SetStatus, shared
<1>1. t # Daemon /\ t \in Threads
  BY ThreadAssumption DEF Threads
<1>2. /\ pc'[Daemon] = pc[Daemon] /\ frame' = frame /\ sock' = sock
      /\ conf' = conf /\ agent' = agent
  BY <1>1, DaemonThread DEF Goto, TypeOK, Typed
<1>3. cloud'.binded = cloud.binded /\ cloud'.status \in {cloud.status, "RESTART"}
  BY DEF TypeOK, Typed, Clouds
<1> QED
  BY <1>2, <1>3, OksKept, QuietBinding DEF BInv

\* The device believes after a boot what the account says.
LEMMA BootedBinded ==
  ASSUME NEW u, NEW i
  PROVE  Booted(u, i).binded <=> u # NoUser
  BY Zenon DEF Booted

\* A boot agrees with the configuration, whatever a crash left in it.
LEMMA FreshBinding ==
  Fresh /\ (cloud.binded <=> conf.account # NoUser) => BInv
<1> SUFFICES ASSUME Fresh, cloud.binded <=> conf.account # NoUser PROVE BInv
  OBVIOUS
<1>1. /\ pc[Daemon] = "boot"
      /\ \A f \in Fds : sock[f].st = "free" /\ sock[f].in = <<>>
  BY DaemonThread DEF Fresh, Started, AllFree, FreeSock
<1>2. \A f \in Fds : Len(sock[f].in) = 0
  BY <1>1
<1>3. Emptied /\ SoleOk /\ NoOks
  BY <1>1, <1>2 DEF Emptied, SoleOk, NoOks, Oks
<1> QED
  BY <1>1, <1>3 DEF BInv, Saved, Settled, Agreed, At

LEMMA EnvironmentBinding ==
  ASSUME TypeOK, BInv, Environment
  PROVE  BInv'
<1>1. CASE AgentStarts
  <2>1. agent'.bound = agent.bound
    BY <1>1 DEF AgentStarts, TypeOK, Typed
  <2> QED
    BY <1>1, <2>1, OksKept, QuietBinding DEF AgentStarts, BInv
<1>2. CASE AgentPushes
  <2> PICK f \in Fds, d \in Controls :
        /\ Connected(f)
        /\ sock' = [sock EXCEPT ![f].in = Append(@, Control(d))]
    BY <1>2 DEF AgentPushes
  <2>1. Control(d) \in Packets
    BY DEF Packets
  <2>2. ~Control(d).ok /\ sock[f].st = "up"
    BY DEF Control, Packet, Connected
  <2>3. /\ \A g \in Fds : sock'[g].st = sock[g].st
        /\ \A g \in Fds : g # f => sock'[g].in = sock[g].in
        /\ sock'[f].in = Append(sock[f].in, Control(d))
    BY DEF TypeOK, Typed, Sockets
  <2>4. Emptied' /\ SoleOk' /\ (NoOks => NoOks')
    BY <1>2, <2>1, <2>2, <2>3, PushOks DEF AgentPushes, BInv
  <2> QED
    BY <1>2, <2>4, QuietBinding DEF AgentPushes
<1>3. CASE AgentDrops
  <2>1. \A g \in Fds : /\ sock'[g].in = sock[g].in
                       /\ sock'[g].st \in {"free", "open"} => sock[g].st \in {"free", "open"}
    BY <1>3 DEF AgentDrops, Connected, TypeOK, Typed, Sockets
  <2>2. \A g \in Fds : Oks(g)' = Oks(g)
    BY <1>3, <2>1 DEF AgentDrops, Oks
  <2>3. Emptied' /\ SoleOk' /\ (NoOks => NoOks')
    BY <2>1, <2>2 DEF BInv, Emptied, SoleOk, NoOks
  <2> QED
    BY <1>3, <2>3, QuietBinding DEF AgentDrops
<1>4. CASE Reboot
  <2>1. Fresh'
    BY <1>4 DEF Reboot, Fresh, TypeOK, Typed
  <2>2. (cloud.binded <=> conf.account # NoUser)'
    BY <1>4, BootedBinded DEF Reboot
  <2>3. (Fresh /\ (cloud.binded <=> conf.account # NoUser))' => BInv'
    BY FreshBinding, PTL
  <2> QED
    BY <2>1, <2>2, <2>3
<1> QED
  BY <1>1, <1>2, <1>3, <1>4 DEF Environment

LEMMA StepBinding ==
  ASSUME TypeOK, IInv, BInv, [Next]_vars
  PROVE  BInv'
<1>1. CASE DaemonStep
  <2>1. CASE Routine(Daemon)
    BY <2>1, DisconnectBinding, ConnectBinding, SendBinding, RecvBinding DEF Routine
  <2> QED
    BY <1>1, <2>1, WorkBinding
<1>2. CASE \E t \in Handlers : HandlerStep(t)
  BY <1>2, HandlerBinding
<1>3. CASE Environment
  BY <1>3, EnvironmentBinding
<1>4. CASE UNCHANGED vars
  BY <1>4, OksKept, QuietBinding DEF vars, BInv
<1> QED
  BY <1>1, <1>2, <1>3, <1>4 DEF Next

-----------------------------------------------------------------------------
(* The theorems.                                                           *)

\* Everything the daemon knows at each point of its loop, of its connection
\* and of the binding: the invariant the theorems below follow from.
THEOREM DaemonKnows == Spec => []DaemonInv
<1>1. Init => BInv
  <2>1. Init => Fresh /\ (cloud.binded <=> conf.account # NoUser)
    BY BootedBinded DEF Init, Fresh
  <2> QED
    BY <2>1, FreshBinding
<1>2. BInv /\ TypeOK /\ IInv /\ [Next]_vars => BInv'
  BY StepBinding
<1>3. Spec => []BInv
  BY <1>1, <1>2, TypeCorrect, Inductive, PTL DEF Spec
<1> QED
  BY <1>3, Inductive, PTL DEF DaemonInv

\* Of the three that remember the binding, the agent changes in a request, the
\* memory where its answer is handled, the account in the same handling, and a
\* boot takes the memory back to the account.
LEMMA BindingMoves ==
  ASSUME TypeOK, [Next]_vars
  PROVE  \/ /\ agent'.bound = agent.bound
            /\ cloud'.binded = cloud.binded
            /\ conf'.account = conf.account
         \/ Send(Daemon) \/ UnbindDone \/ UnbindAccount \/ Reboot
<1>1. CASE DaemonStep
  <2>1. CASE Routine(Daemon)
    <3>1. ~Send(Daemon) => /\ agent' = agent /\ conf' = conf
                           /\ cloud'.binded = cloud.binded
      BY <2>1, KeepsConf
    <3> QED
      BY <3>1
  <2>2. CASE ~Routine(Daemon)
    <3>1. agent' = agent
      BY <1>1, <2>2, WorkKeepsOks DEF ControlRecv
    <3>2. UnbindDone \/ cloud'.binded = cloud.binded
      BY <1>1, <2>2
         DEF DaemonStep, WaitAgent, Dispatch, StatusInit, SetConnecting,
             SetDisconnected, SetBroken, SetConnected, Linked, AuthDone,
             UpdateDone, SetUnbound, ClearUnbound, ClearedCounters,
             StatusConnected, NeedUpdate, NeedRead, NeedClear, RefreshDone, Retry,
             Resume, Pace, Restart, Poll, PollSelect, ControlLock, ControlPoll,
             ControlSelect, ControlRecvFd, ControlRecv, UnbindStatus,
             UnbindAccount, UnbindPassword, Reply, SetStatus, shared, TypeOK,
             Typed, Clouds
    <3>3. UnbindAccount \/ conf'.account = conf.account
      BY <1>1, <2>2
         DEF DaemonStep, WaitAgent, Dispatch, StatusInit, SetConnecting,
             SetDisconnected, SetBroken, SetConnected, Linked, AuthDone,
             UpdateDone, SetUnbound, ClearUnbound, StatusConnected, NeedUpdate,
             NeedRead, NeedClear, RefreshDone, Retry, Resume, Pace, Restart, Poll,
             PollSelect, ControlLock, ControlPoll, ControlSelect, ControlRecvFd,
             ControlRecv, UnbindDone, UnbindStatus, UnbindPassword, Reply,
             SetStatus, shared, TypeOK, Typed
    <3> QED
      BY <3>1, <3>2, <3>3
  <2> QED
    BY <2>1, <2>2
<1>2. CASE \E t \in Handlers : HandlerStep(t)
  BY <1>2 DEF HandlerStep, DeliverField, StoreField, MarkField, DeliverUpnp,
     StoreUpnp, MarkUpnp, DeliverNetwork, MarkNetwork, SetRestart, Deliver,
     MarkUpdate, SetStatus, shared, TypeOK, Typed, Clouds
<1>3. CASE Environment
  BY <1>3 DEF Environment, AgentStarts, AgentPushes, AgentDrops, TypeOK, Typed
<1>4. CASE UNCHANGED vars
  BY <1>4 DEF vars
<1> QED
  BY <1>1, <1>2, <1>3, <1>4 DEF Next

\* A request changes nothing but the agent, which the daemon asks to unbind
\* only when what it believes is saved.
LEMMA SendMoves ==
  ASSUME TypeOK, Saved, Send(Daemon)
  PROVE  /\ cloud'.binded = cloud.binded /\ conf' = conf
         /\ cloud.binded <=> conf.account # NoUser
         /\ agent'.bound \in BOOLEAN
<1>1. agent'.bound \in BOOLEAN
  BY DEF Send, Answered, Unanswered, Verdicts, Served, TypeOK, Typed
<1>2. cloud'.binded = cloud.binded /\ conf' = conf
  BY KeepsConf DEF Routine
<1>3. cloud.binded <=> conf.account # NoUser
  BY DEF Saved, Send, At
<1> QED
  BY <1>1, <1>2, <1>3

\* The memory follows the agent, and the account the memory.
LEMMA UnbindMoves ==
  ASSUME TypeOK, Saved, Agreed, UnbindDone \/ UnbindAccount
  PROVE  /\ agent' = agent
         /\ \/ /\ cloud'.binded \in {cloud.binded, FALSE} /\ conf' = conf
               /\ cloud'.binded # cloud.binded => ~agent.bound
            \/ cloud' = cloud /\ ~cloud.binded /\ conf'.account = NoUser
  BY DEF UnbindDone, UnbindAccount, Saved, Agreed, At, TypeOK, Typed, Clouds

\* The device forgets its binding only when the agent has: no refusal, lost
\* request, answer behind another packet or power loss unbinds it alone.
THEOREM UnbindsAgreed == Spec => UnbindAgreed
<1>1. TypeOK /\ DaemonInv /\ [Next]_vars =>
        [cloud.binded /\ ~cloud'.binded => ~agent.bound]_vars
  <2> SUFFICES ASSUME TypeOK, DaemonInv, [Next]_vars, cloud.binded, ~cloud'.binded
               PROVE  ~agent.bound
    OBVIOUS
  <2>1. Saved /\ Agreed
    BY DEF DaemonInv, BInv
  <2>2. CASE Send(Daemon)
    BY <2>1, <2>2, SendMoves
  <2>3. CASE UnbindDone \/ UnbindAccount
    BY <2>1, <2>3, UnbindMoves
  <2>4. CASE Reboot
    <3>1. ~At({"unbind_status", "unbind_account"}) /\ conf.account # NoUser
      BY <2>1 DEF Saved
    <3> QED
      BY <2>4, <3>1, BootedBinded DEF Reboot
  <2> QED
    BY <2>2, <2>3, <2>4, BindingMoves
<1> QED
  BY <1>1, TypeCorrect, DaemonKnows, PTL DEF Spec, UnbindAgreed

\* Each step of the daemon, its handlers, the agent and the power supply is one
\* of Binding's, or changes nothing Binding sees.
LEMMA StepImplements ==
  ASSUME TypeOK, DaemonInv, [Next]_vars
  PROVE  [Abstract!Next]_(Abstract!binding)
<1> USE DEF Abstract!Next, Abstract!binding
<1>1. Saved /\ Agreed
  BY DEF DaemonInv, BInv
<1>2. CASE /\ agent'.bound = agent.bound /\ cloud'.binded = cloud.binded
           /\ conf'.account = conf.account
  BY <1>2
<1>3. CASE Send(Daemon)
  <2>1. Abstract!ServerChanges
    BY <1>1, <1>3, SendMoves DEF Abstract!ServerChanges, TypeOK, Typed, Clouds
  <2> QED
    BY <2>1
<1>4. CASE UnbindDone \/ UnbindAccount
  <2>1. CASE /\ cloud'.binded \in {cloud.binded, FALSE} /\ conf' = conf
             /\ cloud'.binded # cloud.binded => ~agent.bound
    <3>1. agent.bound \in BOOLEAN /\ cloud.binded \in BOOLEAN /\ agent' = agent
      BY <1>1, <1>4, UnbindMoves DEF TypeOK, Typed, Clouds
    <3>2. cloud'.binded = cloud.binded \/ Abstract!DeviceFollows
      BY <2>1, <3>1 DEF Abstract!DeviceFollows
    <3> QED
      BY <2>1, <3>1, <3>2
  <2>2. CASE cloud' = cloud /\ ~cloud.binded /\ conf'.account = NoUser
    <3>1. agent' = agent
      BY <1>1, <1>4, UnbindMoves
    <3>2. Abstract!FileFollows
      BY <2>2, <3>1 DEF Abstract!FileFollows, TypeOK, Typed, Clouds
    <3> QED
      BY <3>2
  <2> QED
    BY <1>1, <1>4, <2>1, <2>2, UnbindMoves
<1>5. CASE Reboot
  <2>1. cloud'.binded = (conf.account # NoUser)
    <3> PICK i \in Infos : cloud' = Booted(conf.account, i)
      BY <1>5 DEF Reboot
    <3>1. Booted(conf.account, i).binded = (conf.account # NoUser)
      BY Zenon DEF Booted
    <3> QED
      BY <3>1, Zenon
  <2>2. agent'.bound = agent.bound /\ conf' = conf
    BY <1>5 DEF Reboot, TypeOK, Typed
  <2>3. Abstract!PowerLoss
    BY <2>1, <2>2, Zenon DEF Abstract!PowerLoss
  <2> QED
    BY <2>3
<1> QED
  BY <1>2, <1>3, <1>4, <1>5, BindingMoves

\* The device of CloudDaemon implements Binding: the agent, the memory and the
\* saved account change in its order, whatever fails in between.
THEOREM ImplementsAbstract == Spec => ImplementsBinding
<1>1. Init => Abstract!Init
  BY DEF Init, Booted, Abstract!Init
<1>2. TypeOK /\ DaemonInv /\ [Next]_vars => [Abstract!Next]_(Abstract!binding)
  BY StepImplements
<1> QED
  BY <1>1, <1>2, TypeCorrect, DaemonKnows, PTL
     DEF Spec, ImplementsBinding, Abstract!Spec

\* What the device believes is never its belief alone: the agent or the saved
\* account agrees, so that one answer or one boot settles the matter.
THEOREM BeliefSupported == Spec => []Abstract!NeverAlone
  BY ImplementsAbstract, Abstract!Supported, PTL DEF ImplementsBinding
=============================================================================
