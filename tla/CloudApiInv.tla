---------------------------- MODULE CloudApiInv ----------------------------
(***************************************************************************)
(* The inductive invariants behind the safety properties of CloudApi: what *)
(* swCloudBind may rely on while cloud_daemon runs beside it, and who may  *)
(* write binded and the saved account.  TLC checks BindInv, which has most *)
(* of them, in the run Bind.                                               *)
(***************************************************************************)
EXTENDS CloudApi, CloudDaemonInv

BindLabels ==
  {"bind_binded", "bind_status", "bind_connect", "bind_linked", "bind_account",
   "bind_name", "bind_authed", "bind_bound", "bind_updated", "bind_connected",
   "bind_flag", "bind_save", "bind_save_password", "bind_unlock"}
UBindLabels ==
  {"ubind_status", "ubind_linked", "ubind_authed", "ubind_done", "ubind_flag",
   "ubind_init", "ubind_save", "ubind_save_password", "ubind_broken",
   "ubind_offline", "ubind_close"}
PingLabels == {"ping_again", "ping_clear", "ping_set", "ping_read"}
UnbindLabels == {"unbind_done", "unbind_status", "unbind_account", "unbind_password"}

\* Where each thread may be, and where its routines return to, given the calls
\* that are made and the requests that are pushed.
DaemonPlaces ==
  /\ \/ At(RoutineLabels)
     \/ At(DaemonLabels) /\ (At(UnbindLabels) => "UNBIND" \in Controls)
  /\ At(Closes) => Back({"retry", "poll", "restart", "to_disconnected"})
  /\ At(Connects) => Back({"linked"})
  /\ At(Requests) => \/ Back({"auth_done", "update_done", "refresh_done"})
                     \/ "UNBIND" \in Controls /\ Back({"unbind_done"})
CallerPlaces(t) ==
  /\ \/ pc[t] \in {"idle", "return"} \/ pc[t] \in RoutineLabels \/ pc[t] \in BindLabels
     \/ "UBind" \in Ops /\ pc[t] \in UBindLabels
     \/ "Ping" \in Ops /\ pc[t] \in PingLabels
  /\ pc[t] \in Closes =>
       \/ frame[t].back \in {"bind_connect", "bind_unlock"}
       \/ "UBind" \in Ops /\ frame[t].back = "return"
  /\ pc[t] \in Connects =>
       \/ frame[t].back = "bind_linked"
       \/ "UBind" \in Ops /\ frame[t].back = "ubind_linked"
  /\ pc[t] \in Requests =>
       \/ frame[t].back \in {"bind_authed", "bind_bound", "bind_updated"}
       \/ "UBind" \in Ops /\ frame[t].back \in {"ubind_authed", "ubind_done"}
Places ==
  /\ DaemonPlaces
  /\ \A t \in Callers : CallerPlaces(t)
  /\ \A t \in Handlers : pc[t] \in HandlerLabels

-----------------------------------------------------------------------------
(* The binding, when nothing may undo it while swCloudBind or swCloudUBind *)
(* does: no UNBIND request, and one caller if swCloudUBind is called.      *)
OneWriter == "UNBIND" \notin Controls /\ ("UBind" \in Ops => \A c, d \in Callers : c = d)

\* What a caller knows of the binding at each point of its call.
Binds(t) ==
  pc[t] \in BindLabels \/ (pc[t] \in RoutineLabels /\ frame[t].back \in BindLabels)
Named == {"bind_name", "bind_authed", "bind_bound", "bind_updated", "bind_connected",
          "bind_flag", "bind_save", "bind_save_password"}
Writing(t) ==
  /\ Binds(t) => frame[t].user # NoUser
  /\ pc[t] \in Named \/ (pc[t] \in RoutineLabels /\ frame[t].back \in Named) =>
       cloud.account # NoUser
  /\ pc[t] = "bind_save" => cloud.binded
  /\ pc[t] \in {"ubind_init", "ubind_save"} => ~cloud.binded
WriterInv == (\A t \in Callers : Writing(t)) /\ ConfMatchesBinding

\* swCloudUBind from the point where the account is erased, if it has worked.
Forgets(t) ==
  \/ pc[t] = "ubind_save_password"
  \/ /\ \/ pc[t] \in {"ubind_close", "return"}
        \/ pc[t] \in Closes /\ frame[t].back = "return"
     /\ frame[t].res = "ok" /\ frame[t].user = NoUser
Forgotten(t) ==
  /\ Forgets(t) => "UBind" \in Ops /\ ~cloud.binded /\ conf.account = NoUser
  /\ pc[t] \in {"ubind_broken", "ubind_offline"} => frame[t].res # "ok"
ForgetInv == \A t \in Callers : Forgotten(t)

-----------------------------------------------------------------------------
(* swCloudBind is the only call made, and the agent pushes no request.     *)
OnlyBinds == Ops \subseteq {"Bind"} /\ Controls = {}

\* In swCloudBind, and past its tests of binded and status.
Calling(t) == pc[t] \in BindLabels \/ pc[t] \in RoutineLabels
Busy(t) == Calling(t) /\ pc[t] \notin {"bind_binded", "bind_status"}

\* The lock is held all through swCloudBind, and where the daemon reads requests.
Controlling == {"ctl_poll", "ctl_select", "ctl_recv_fd", "ctl_recv"}
Locked ==
  /\ \A t \in Callers : Calling(t) => lock = t
  /\ At(Controlling) => lock = Daemon

\* Where the daemon uses the connection, or goes on to use it, without the lock.
Using ==
  Connects \cup Requests
    \cup {"linked", "auth_done", "connected", "need_update", "need_read", "need_clear"}
\* Where it goes only for a device that is bound.
ForBound ==
  Using \cup {"update_done", "to_connected", "resume", "set_connecting"}

\* The daemon leaves a device alone that is not bound, or whose status is BROKEN,
\* and so the device that swCloudBind binds.
Unbound ==
  ~cloud.binded =>
    /\ ~At(ForBound)
    /\ cloud.status # "CONNECTING"
    /\ cloud.status = "CONNECTED" => \E t \in Callers : pc[t] = "bind_flag"
Broken == cloud.status = "BROKEN" => ~At(Using)
Away == (\E t \in Callers : Busy(t)) => ~At(Using) /\ ~At(Controlling)

\* What a thread that is about to read finds in the connection: what it waits
\* for, or the end.  Nothing is in a connection that nobody is about to read.
Found(t, f) ==
  f \in Fds =>
    \/ sock[f].in = <<>> /\ sock[f].st # "up"
    \/ /\ pc[t] \in {"hello_fd", "hello"}
       /\ sock[f].in = <<Hello>>
    \/ /\ pc[t] \in {"recv_fd", "recv"}
       /\ \E ok \in BOOLEAN : sock[f].in = <<Answer(t, frame[t].cmd, ok)>>
Reading(t) == pc[t] \in {"hello_fd", "hello", "recv_fd", "recv"}
Answerable(t) ==
  /\ pc[t] \in {"hello_fd", "recv_fd"} => Found(t, cloud.fd)
  /\ pc[t] \in {"hello", "recv"} =>
       Found(t, frame[t].rfd) /\ cloud.fd \in {frame[t].rfd, NoFd}
Awaited == \A t \in Threads : Answerable(t)
Quiet ==
  cloud.fd \in Fds /\ sock[cloud.fd].in # <<>> => \E t \in Threads : Reading(t)
EndMet ==
  /\ At({"ctl_recv_fd", "ctl_recv"}) /\ cloud.fd \in Fds => sock[cloud.fd].st # "up"
  /\ At({"ctl_recv"}) => frame[Daemon].rfd = cloud.fd

Access == Locked /\ Unbound /\ Broken /\ Away
Inboxes == Emptied /\ Awaited /\ Quiet /\ EndMet

\* Nobody asks the agent to unbind; an OK to BINDEV that lies in a connection
\* means that it has bound the device, and so does an OK that was taken.
Asked ==
  \A t \in Threads :
    pc[t] \in Requests =>
      /\ frame[t].cmd # "UBINDEV"
      /\ frame[t].back = "bind_bound" => frame[t].cmd = "BINDEV"
OkBinds ==
  \A t \in Threads, f \in Fds :
    sock[f].in = <<Answer(t, "BINDEV", TRUE)>> => agent.bound
Granted(t) ==
  \/ pc[t] = "bind_bound" /\ frame[t].res = "ok"
  \/ pc[t] \in {"bind_updated", "bind_connected", "bind_flag"}
  \/ pc[t] \in Requests /\ frame[t].back = "bind_updated"
GrantInv == Asked /\ OkBinds /\ \A t \in Callers : Granted(t) => agent.bound

\* What the threads know while swCloudBind is the only call.
BindInv == Places /\ Access /\ Inboxes /\ WriterInv /\ GrantInv
=============================================================================
