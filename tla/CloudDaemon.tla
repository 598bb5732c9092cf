---------------------------- MODULE CloudDaemon ----------------------------
(***************************************************************************)
(* cloud_daemon of snippets/swCloud.c, the thread that keeps the device    *)
(* connected to the cloud agent, with the handlers of system messages      *)
(* that run beside it.  Callers stay idle here; CloudApi moves them.       *)
(***************************************************************************)
EXTENDS CloudBase, SequencesExt

CONSTANT Messages    \* kinds of system message delivered to the handlers

ASSUME MessageAssumption == Messages \subseteq {"field", "upnp", "network"}

DaemonLabels ==
  {"boot", "top", "init", "set_connecting", "linked", "auth_done", "update_done",
   "to_disconnected", "to_broken", "to_connected", "unbound", "clear",
   "connected", "need_update", "need_read", "need_clear", "refresh_done",
   "retry", "resume", "pace", "restart", "poll", "poll_select", "ctl_lock",
   "ctl_poll", "ctl_select", "ctl_recv_fd", "ctl_recv", "unbind_done",
   "unbind_status", "unbind_account", "unbind_password", "reply"}
HandlerLabels ==
  {"idle", "store", "mark", "upnp", "upnp_mark", "net_mark", "net_restart"}

TypeOK == Typed(RoutineLabels \cup DaemonLabels \cup HandlerLabels)

-----------------------------------------------------------------------------
(* The top of the loop: one branch per value of cloud.status.              *)

WaitAgent ==
  /\ pc[Daemon] = "boot"
  /\ agent.running
  /\ Goto(Daemon, "top")
  /\ UNCHANGED <<shared, frame>>

Dispatch ==
  /\ pc[Daemon] = "top"
  /\ CanLock(Daemon)
  /\ CASE cloud.status = "INIT"         -> Leave(Daemon, "init")
       [] cloud.status = "CONNECTING"   -> Call(Daemon, "socket", "linked")
       [] cloud.status = "CONNECTED"    -> Leave(Daemon, "connected")
       [] cloud.status = "DISCONNECTED" -> Call(Daemon, "close_test", "retry")
       [] cloud.status = "BROKEN"       -> Call(Daemon, "close_test", "poll")
       [] cloud.status = "RESTART"      -> Call(Daemon, "close_test", "restart")
  /\ UNCHANGED shared

StatusInit ==
  /\ pc[Daemon] = "init"
  /\ Goto(Daemon, IF cloud.binded THEN "set_connecting" ELSE "poll")
  /\ UNCHANGED <<shared, frame>>

SetConnecting == SetStatus(Daemon, "set_connecting", "CONNECTING", "top")
SetDisconnected == SetStatus(Daemon, "to_disconnected", "DISCONNECTED", "top")
SetBroken == SetStatus(Daemon, "to_broken", "BROKEN", "top")
SetConnected == SetStatus(Daemon, "to_connected", "CONNECTED", "top")

-----------------------------------------------------------------------------
(* CONNECTING: connect, then authenticate and update when bound.           *)

\* Mutant: update without authentication.
LinkedUpdates ==
  /\ pc[Daemon] = "linked"
  /\ IF frame[Daemon].res = "ok" /\ cloud.binded
     THEN Request(Daemon, "UPDEV", "update_done")
     ELSE Leave(Daemon, "to_disconnected")
  /\ UNCHANGED shared

\* Mutant: try again at once, with the status left CONNECTING.
LinkedStays ==
  /\ pc[Daemon] = "linked"
  /\ CASE frame[Daemon].res = "net" -> Leave(Daemon, "top")
       [] frame[Daemon].res # "net" /\ cloud.binded ->
            Request(Daemon, "AUTH", "auth_done")
       [] OTHER -> Leave(Daemon, "unbound")
  /\ UNCHANGED shared

\* Mutant: authenticate whether bound or not.
LinkedUnasked ==
  /\ pc[Daemon] = "linked"
  /\ IF frame[Daemon].res = "net" THEN Leave(Daemon, "to_disconnected")
     ELSE Request(Daemon, "AUTH", "auth_done")
  /\ UNCHANGED shared

Linked ==
  /\ pc[Daemon] = "linked"
  /\ CASE frame[Daemon].res = "net" -> Leave(Daemon, "to_disconnected")
       [] frame[Daemon].res # "net" /\ cloud.binded ->
            Request(Daemon, "AUTH", "auth_done")
       [] OTHER -> Leave(Daemon, "unbound")
  /\ UNCHANGED shared

\* Mutant: only a network error counts as a failure.
AuthDoneLoose ==
  /\ pc[Daemon] = "auth_done"
  /\ IF frame[Daemon].res = "net" THEN Leave(Daemon, "to_disconnected")
     ELSE Request(Daemon, "UPDEV", "update_done")
  /\ UNCHANGED shared

AuthDone ==
  /\ pc[Daemon] = "auth_done"
  /\ CASE frame[Daemon].res = "net" -> Leave(Daemon, "to_disconnected")
       [] frame[Daemon].res = "ok"  -> Request(Daemon, "UPDEV", "update_done")
       [] OTHER                     -> Leave(Daemon, "to_broken")
  /\ UNCHANGED shared

UpdateDone ==
  /\ pc[Daemon] = "update_done"
  /\ Leave(Daemon, CASE frame[Daemon].res = "net" -> "to_disconnected"
                     [] frame[Daemon].res = "ok"  -> "to_connected"
                     [] OTHER                     -> "to_broken")
  /\ UNCHANGED shared

SetUnbound == SetStatus(Daemon, "unbound", "DISCONNECTED", "clear")

ClearUnbound ==
  /\ pc[Daemon] = "clear"
  /\ cloud' = ClearedCounters(cloud)
  /\ Goto(Daemon, "top")
  /\ UNCHANGED <<lock, conf, sock, agent, frame>>

-----------------------------------------------------------------------------
(* CONNECTED: cloud_need_update reads and clears the flag with no lock.    *)

StatusConnected ==
  /\ pc[Daemon] = "connected"
  /\ Goto(Daemon, IF cloud.binded THEN "need_update" ELSE "to_disconnected")
  /\ UNCHANGED <<shared, frame>>

NeedUpdate ==
  /\ pc[Daemon] = "need_update"
  /\ Goto(Daemon, IF cloud.fd = NoFd THEN "poll" ELSE "need_read")
  /\ UNCHANGED <<shared, frame>>

NeedRead ==
  /\ pc[Daemon] = "need_read"
  /\ frame' = [frame EXCEPT ![Daemon].seen = cloud.update]
  /\ Goto(Daemon, "need_clear")
  /\ UNCHANGED shared

NeedClear ==
  /\ pc[Daemon] = "need_clear"
  /\ cloud' = [cloud EXCEPT !.update = FALSE]
  /\ IF frame[Daemon].seen THEN Request(Daemon, "UPDEV", "refresh_done")
     ELSE Leave(Daemon, "poll")
  /\ UNCHANGED <<lock, conf, sock, agent>>

RefreshDone ==
  /\ pc[Daemon] = "refresh_done"
  /\ Leave(Daemon, CASE frame[Daemon].res = "net" -> "to_disconnected"
                     [] frame[Daemon].res = "ok"  -> "poll"
                     [] OTHER                     -> "to_broken")
  /\ UNCHANGED shared

-----------------------------------------------------------------------------
(* DISCONNECTED: the back-off, one CLOUD_PACE of waiting per round.        *)

\* Mutant: one retry too many.
MayRetryOnceMore == cloud.binded /\ cloud.retries <= RetryMax

MayRetry == cloud.binded /\ cloud.retries < RetryMax

Retry ==
  /\ pc[Daemon] = "retry"
  /\ IF MayRetry /\ cloud.waits >= cloud.retry_wait
     THEN /\ cloud' = [cloud EXCEPT !.retries = @ + 1, !.waits = 0,
                                    !.retry_wait = Wrap(2 * @)]
          /\ Goto(Daemon, "resume")
     ELSE /\ Goto(Daemon, IF MayRetry THEN "pace" ELSE "poll")
          /\ cloud' = cloud
  /\ UNCHANGED <<lock, conf, sock, agent, frame>>

Resume == SetStatus(Daemon, "resume", "CONNECTING", "pace")

\* Mutant: the waiting is counted down.
PaceDown ==
  /\ pc[Daemon] = "pace"
  /\ cloud' = [cloud EXCEPT !.waits = @ - 1]
  /\ Goto(Daemon, "poll")
  /\ UNCHANGED <<lock, conf, sock, agent, frame>>

\* Mutant: the waiting is not counted.
PaceUncounted ==
  /\ pc[Daemon] = "pace"
  /\ Goto(Daemon, "poll")
  /\ UNCHANGED <<shared, frame>>

Pace ==
  /\ pc[Daemon] = "pace"
  /\ cloud' = [cloud EXCEPT !.waits = @ + 1]
  /\ Goto(Daemon, "poll")
  /\ UNCHANGED <<lock, conf, sock, agent, frame>>

(* RESTART: the connection starts over.                                    *)
Restart ==
  /\ pc[Daemon] = "restart"
  /\ cloud' = [ClearedCounters(cloud) EXCEPT !.reachable = FALSE]
  /\ Goto(Daemon, "to_disconnected")
  /\ UNCHANGED <<lock, conf, sock, agent, frame>>

-----------------------------------------------------------------------------
(* The bottom of the loop: network_read_event without the lock, and        *)
(* network_device_control, which polls again and reads under it.           *)

\* What select() may say; FD_SET of descriptor -1 is undefined.
ReadEvents(f) ==
  CASE f \notin Fds -> BOOLEAN
    [] f \in Fds /\ sock[f].st = "up" -> {sock[f].in # <<>>}
    [] OTHER -> {TRUE}

Poll ==
  /\ pc[Daemon] = "poll"
  /\ Goto(Daemon, IF cloud.fd = NoFd THEN "top" ELSE "poll_select")
  /\ UNCHANGED <<shared, frame>>

PollSelect ==
  /\ pc[Daemon] = "poll_select"
  /\ \E ready \in ReadEvents(cloud.fd) :
       Goto(Daemon, IF ready THEN "ctl_lock" ELSE "top")
  /\ UNCHANGED <<shared, frame>>

ControlLock ==
  /\ pc[Daemon] = "ctl_lock"
  /\ Acquire(Daemon)
  /\ Goto(Daemon, "ctl_poll")
  /\ UNCHANGED <<cloud, conf, sock, agent, frame>>

\* No event the second time: unlock and return 0.
ControlNothing ==
  /\ Release(Daemon)
  /\ Goto(Daemon, "top")

ControlPoll ==
  /\ pc[Daemon] = "ctl_poll"
  /\ IF cloud.fd = NoFd THEN ControlNothing
     ELSE Goto(Daemon, "ctl_select") /\ lock' = lock
  /\ UNCHANGED <<cloud, conf, sock, agent, frame>>

ControlSelect ==
  /\ pc[Daemon] = "ctl_select"
  /\ \E ready \in ReadEvents(cloud.fd) :
       IF ready THEN Goto(Daemon, "ctl_recv_fd") /\ lock' = lock
       ELSE ControlNothing
  /\ UNCHANGED <<cloud, conf, sock, agent, frame>>

ControlRecvFd ==
  /\ pc[Daemon] = "ctl_recv_fd"
  /\ frame' = [frame EXCEPT ![Daemon].rfd = cloud.fd]
  /\ Goto(Daemon, "ctl_recv")
  /\ UNCHANGED shared

\* What content may hold: the request, or, past the end of a packet that is
\* none, what an earlier request left on the stack.
Contents(packet) ==
  IF packet.kind = "control" THEN {packet.cmd} ELSE Controls \cup {"NONE"}

\* Mutant: a failed read is taken for "no device control packet".
ControlRecvIgnores ==
  LET f == frame[Daemon].rfd IN
  /\ pc[Daemon] = "ctl_recv"
  /\ HasPacket(f) \/ ReadFails(f)
  /\ IF HasPacket(f) THEN Pop(f) ELSE sock' = sock
  /\ Leave(Daemon, "top")
  /\ Release(Daemon)
  /\ UNCHANGED <<cloud, conf, agent>>

ControlRecv ==
  LET f == frame[Daemon].rfd IN
  /\ pc[Daemon] = "ctl_recv"
  /\ \/ /\ HasPacket(f)
        /\ Pop(f)
        /\ \E d \in Contents(Head(sock[f].in)) :
             CASE d = "UNBIND" -> Request(Daemon, "UBINDEV", "unbind_done")
               [] d = "NONE"   -> Leave(Daemon, "top")
               [] OTHER        -> Leave(Daemon, "reply")
     \/ /\ ReadFails(f)
        /\ Call(Daemon, "close_test", "to_disconnected")
        /\ sock' = sock
  /\ Release(Daemon)
  /\ UNCHANGED <<cloud, conf, agent>>

-----------------------------------------------------------------------------
(* The UNBIND request, and the answer to a request.                        *)

\* Mutant: the result of cloud_do_ubind is not looked at.
UnbindDoneAnyway ==
  /\ pc[Daemon] = "unbind_done"
  /\ cloud' = [cloud EXCEPT !.binded = FALSE]
  /\ Leave(Daemon, "unbind_status")
  /\ UNCHANGED <<lock, conf, sock, agent>>

UnbindDone ==
  /\ pc[Daemon] = "unbind_done"
  /\ IF frame[Daemon].res = "ok"
     THEN /\ cloud' = [cloud EXCEPT !.binded = FALSE]
          /\ Leave(Daemon, "unbind_status")
     ELSE /\ Leave(Daemon, "reply")
          /\ cloud' = cloud
  /\ UNCHANGED <<lock, conf, sock, agent>>

UnbindStatus == SetStatus(Daemon, "unbind_status", "CONNECTED", "unbind_account")

UnbindAccount ==
  /\ pc[Daemon] = "unbind_account"
  /\ conf' = [conf EXCEPT !.account = NoUser]
  /\ Goto(Daemon, "unbind_password")
  /\ UNCHANGED <<cloud, lock, sock, agent, frame>>

UnbindPassword ==
  /\ pc[Daemon] = "unbind_password"
  /\ conf' = [conf EXCEPT !.password = NoUser]
  /\ Goto(Daemon, "reply")
  /\ UNCHANGED <<cloud, lock, sock, agent, frame>>

Reply ==
  /\ pc[Daemon] = "reply"
  /\ IF Connected(cloud.fd) THEN Leave(Daemon, "top")
     ELSE Call(Daemon, "close_test", "to_disconnected")
  /\ UNCHANGED shared

DaemonStep ==
  \/ Routine(Daemon) \/ WaitAgent \/ Dispatch
  \/ StatusInit \/ SetConnecting \/ SetDisconnected \/ SetBroken \/ SetConnected
  \/ Linked \/ AuthDone \/ UpdateDone \/ SetUnbound \/ ClearUnbound
  \/ StatusConnected \/ NeedUpdate \/ NeedRead \/ NeedClear \/ RefreshDone
  \/ Retry \/ Resume \/ Pace \/ Restart
  \/ Poll \/ PollSelect \/ ControlLock \/ ControlPoll \/ ControlSelect
  \/ ControlRecvFd \/ ControlRecv
  \/ UnbindDone \/ UnbindStatus \/ UnbindAccount \/ UnbindPassword \/ Reply

-----------------------------------------------------------------------------
(* The handlers.  Each one tests the status, and acts later.               *)

Deliver(t, kind, label) ==
  /\ kind \in Messages
  /\ pc[t] = "idle"
  /\ CanLock(t)
  /\ cloud.status = "CONNECTED"
  /\ Goto(t, label)
  /\ UNCHANGED <<shared, frame>>

(* msg_sysname_change and msg_password_change: the field is stored with    *)
(* no lock, the flag is set under it.                                      *)
DeliverField(t) == Deliver(t, "field", "store")

StoreField(t) ==
  /\ pc[t] = "store"
  /\ \E i \in Infos : cloud' = [cloud EXCEPT !.devinfo = i]
  /\ Goto(t, "mark")
  /\ UNCHANGED <<lock, conf, sock, agent, frame>>

MarkUpdate(t, at, next) ==
  /\ pc[t] = at
  /\ CanLock(t)
  /\ cloud' = [cloud EXCEPT !.update = TRUE]
  /\ Goto(t, next)
  /\ UNCHANGED <<lock, conf, sock, agent, frame>>

MarkField(t) == MarkUpdate(t, "mark", "idle")

(* msg_upnp_change: both stores under the lock.                            *)
DeliverUpnp(t) == Deliver(t, "upnp", "upnp")

StoreUpnp(t) ==
  /\ pc[t] = "upnp"
  /\ Acquire(t)
  /\ \E i \in Infos : cloud' = [cloud EXCEPT !.devinfo = i]
  /\ Goto(t, "upnp_mark")
  /\ UNCHANGED <<conf, sock, agent, frame>>

MarkUpnp(t) ==
  /\ pc[t] = "upnp_mark"
  /\ Release(t)
  /\ cloud' = [cloud EXCEPT !.update = TRUE]
  /\ Goto(t, "idle")
  /\ UNCHANGED <<conf, sock, agent, frame>>

(* msg_network_change: the flag, then the status, each under the lock.     *)
DeliverNetwork(t) == Deliver(t, "network", "net_mark")
MarkNetwork(t) == MarkUpdate(t, "net_mark", "net_restart")
SetRestart(t) == SetStatus(t, "net_restart", "RESTART", "idle")

HandlerStep(t) ==
  \/ DeliverField(t) \/ StoreField(t) \/ MarkField(t)
  \/ DeliverUpnp(t) \/ StoreUpnp(t) \/ MarkUpnp(t)
  \/ DeliverNetwork(t) \/ MarkNetwork(t) \/ SetRestart(t)

-----------------------------------------------------------------------------
Next == DaemonStep \/ (\E t \in Handlers : HandlerStep(t)) \/ Environment

Spec == Init /\ [][Next]_vars

(* Both kinds of thread are scheduled, and the agent comes up.  Nothing    *)
(* obliges the system to send messages, the agent to push requests or the  *)
(* connection to fail.                                                     *)
HandlerWork(t) ==
  \/ StoreField(t) \/ MarkField(t) \/ StoreUpnp(t) \/ MarkUpnp(t)
  \/ MarkNetwork(t) \/ SetRestart(t)

Fairness ==
  /\ WF_vars(DaemonStep)
  /\ WF_vars(AgentStarts)
  /\ \A t \in Handlers : WF_vars(HandlerWork(t))

FairSpec == Spec /\ Fairness

-----------------------------------------------------------------------------
(* Properties.                                                             *)

\* The process never holds a socket that cloud.fd does not name: whatever
\* path leads back to cloud_do_connect has closed the old descriptor first
\* (socket() overwrites cloud.fd at line 219 without a test).
NoDescriptorLeak == \A f \in Fds : sock[f].st # "free" => cloud.fd = f

\* CONNECTED means what the comments say: the descriptor is an
\* authenticated connection, unless the daemon is about to say otherwise.
\* The lost connection, the UNBIND request that sets CONNECTED again and the
\* handlers that set RESTART all have to keep it.
Closing(t) ==
  \/ pc[t] = "to_disconnected"
  \/ pc[t] \in {"close_test", "close_fd", "close_clear"}
     /\ frame[t].back = "to_disconnected"
Authenticated(f) == f \in Fds /\ sock[f].auth
ConnectedIsAuthenticated ==
  cloud.status = "CONNECTED" => Authenticated(cloud.fd) \/ Closing(Daemon)

\* The agent is asked to update or unbind a device only over a connection on
\* which the device has authenticated: the order connect, AUTH, request
\* survives every reconnection and every interleaving.
NewAnswer(f, c) ==
  /\ Len(sock'[f].in) > Len(sock[f].in)
  /\ Last(sock'[f].in).kind = "answer"
  /\ Last(sock'[f].in).cmd = c
AuthFirst ==
  [][\A f \in Fds, c \in {"UPDEV", "UBINDEV"} :
       NewAnswer(f, c) => sock[f].auth]_vars

\* The device forgets its binding only when the agent has: an UNBIND request
\* that the agent refuses, that is lost, or whose answer comes behind another
\* packet leaves the device bound.
UnbindAgreed == [][cloud.binded /\ ~cloud'.binded => ~agent.bound]_vars

\* A retry waits for its full back-off, doubled once per earlier retry, and
\* the product never leaves the int it is shifted in while it is still used.
BackOff[n \in Nat] == IF n = 0 THEN RetryWait ELSE 2 * BackOff[n - 1]
RetryPaced ==
  [][cloud'.retries > cloud.retries =>
       /\ cloud.retries < RetryMax
       /\ cloud.waits >= BackOff[cloud.retries]]_vars

\* A bound device that lost its connection tries again as long as retries
\* are left.
Reconnects ==
  cloud.status = "DISCONNECTED" /\ MayRetry ~> cloud.status = "CONNECTING"

\* A connection the agent closed is noticed: the daemon reads what is left in
\* it, meets the end and leaves CONNECTED.
HungUp == cloud.fd \in Fds /\ sock[cloud.fd].st = "hup"
LossNoticed == cloud.status = "CONNECTED" /\ HungUp ~> cloud.status # "CONNECTED"

-----------------------------------------------------------------------------
(* What comments of the source say and the code does not keep.             *)

\* Line 481: cloud_need_update returns "0 - no update, 1 - has update": the
\* flag it clears is the flag it returns.
UpdateSeen == [][cloud.update /\ ~cloud'.update => frame[Daemon].seen]_vars
=============================================================================
