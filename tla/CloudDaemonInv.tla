--------------------------- MODULE CloudDaemonInv ---------------------------
(***************************************************************************)
(* The inductive invariants behind the safety properties of CloudDaemon:   *)
(* where the daemon may stand for each status and what it then knows of    *)
(* cloud.fd, and who agrees when that the device is bound.  TLC checks     *)
(* them on the instances; CloudDaemonProofs proves them.                   *)
(***************************************************************************)
EXTENDS CloudDaemon

At(labels) == pc[Daemon] \in labels
Back(labels) == frame[Daemon].back \in labels

Closes == {"close_test", "close_fd", "close_clear"}
Connects == {"socket", "connect", "hello_fd", "hello"}
Requests == {"send", "recv_fd", "recv"}

\* Which routine returns where, and which command it carries.
Commanded(c) ==
  CASE c = "auth_done"    -> "AUTH"
    [] c = "unbind_done"  -> "UBINDEV"
    [] OTHER              -> "UPDEV"
Returns ==
  /\ At(Closes) => Back({"retry", "poll", "restart", "to_disconnected"})
  /\ At(Connects) => Back({"linked"})
  /\ At(Requests) =>
       /\ Back({"auth_done", "update_done", "refresh_done", "unbind_done"})
       /\ frame[Daemon].cmd = Commanded(frame[Daemon].back)
  /\ At({"recv"}) => frame[Daemon].rfd = cloud.fd

\* The daemon holds no descriptor where it may go on to connect.
Unconnecting ==
  /\ At({"boot", "init", "set_connecting", "retry", "resume", "pace", "restart",
         "socket"}) => cloud.fd = NoFd
  /\ At({"top", "poll"}) /\ cloud.status \in {"INIT", "CONNECTING"} => cloud.fd = NoFd

\* Where the daemon may stand with a status that only it can set.
Standing ==
  /\ cloud.status = "INIT" => At({"boot", "top", "init", "set_connecting", "poll"})
  /\ cloud.status = "CONNECTING" =>
       \/ At(Connects \cup {"top", "pace", "poll", "linked", "auth_done", "update_done",
              "to_disconnected", "to_broken", "to_connected", "unbound"})
       \/ At(Requests) /\ Back({"auth_done", "update_done"})

\* Every open socket is the one in cloud.fd, and after close() there is none.
Descriptors ==
  /\ NoDescriptorLeak
  /\ At({"close_clear"}) => \A f \in Fds : sock[f].st = "free"

\* An OK in a connection's inbox means that the agent has authenticated it.
OkIsAuthenticated ==
  \A f \in Fds : \A n \in 1..Len(sock[f].in) : sock[f].in[n].ok => sock[f].auth

\* Where the daemon works on an authenticated connection.
Sessions ==
  {"update_done", "to_connected", "connected", "need_update", "need_read",
   "need_clear", "refresh_done", "poll_select", "ctl_lock", "ctl_poll",
   "ctl_select", "ctl_recv_fd", "ctl_recv", "unbind_done", "unbind_status",
   "unbind_account", "unbind_password", "reply"}
InSession ==
  \/ At(Sessions)
  \/ At(Requests) /\ Back({"update_done", "refresh_done", "unbind_done"})
Session ==
  /\ InSession => Authenticated(cloud.fd)
  /\ At({"auth_done"}) /\ frame[Daemon].res = "ok" => Authenticated(cloud.fd)
  /\ At({"poll"}) => cloud.fd = NoFd \/ Authenticated(cloud.fd)
  /\ cloud.status = "CONNECTED" =>
       \/ InSession
       \/ At({"top", "poll", "to_broken"}) /\ Authenticated(cloud.fd)
       \/ Closing(Daemon)

IInv == Returns /\ Unconnecting /\ Standing /\ Descriptors /\ OkIsAuthenticated /\ Session

-----------------------------------------------------------------------------
(* The invariant behind the agreement of agent, memory and configuration   *)
(* about the binding.  A bound agent has never served UBINDEV, so that an  *)
(* OK it has sent answers AUTH or UPDEV.                                   *)

\* binded and the saved account agree, but in the middle of an UNBIND request.
Saved ==
  /\ At({"unbind_status", "unbind_account"}) => ~cloud.binded
  /\ (cloud.binded <=> conf.account # NoUser) \/ At({"unbind_status", "unbind_account"})

\* There is nothing to read before connect() and after close().
Emptied == \A f \in Fds : sock[f].st \in {"free", "open"} => sock[f].in = <<>>

\* The places in an inbox of the OKs of an agent that has the device bound.
Oks(f) == {n \in 1..Len(sock[f].in) : agent.bound /\ sock[f].in[n].ok}
SoleOk == \A f \in Fds : \A m, n \in Oks(f) : m = n
NoOks == \A f \in Fds : Oks(f) = {}

\* Where the daemon waits for an OK that unbinds nothing, and where it gives
\* up a connection in which one may be left behind another packet.
Awaits == At({"recv_fd", "recv"}) /\ frame[Daemon].cmd # "UBINDEV"
Abandons ==
  \/ At({"to_broken", "to_disconnected", "close_test", "close_fd"})
  \/ At({"auth_done", "update_done", "refresh_done"}) /\ frame[Daemon].res # "ok"
  \/ At({"top"}) /\ cloud.status \in {"BROKEN", "DISCONNECTED", "RESTART"}
Settled == Awaits \/ Abandons \/ NoOks

\* An UBINDEV that was answered OK has been served.
Agreed == At({"unbind_done"}) /\ frame[Daemon].res = "ok" => ~agent.bound

BInv == Saved /\ Emptied /\ SoleOk /\ Settled /\ Agreed

\* What the daemon knows at each point of its loop.
DaemonInv == IInv /\ BInv
=============================================================================
