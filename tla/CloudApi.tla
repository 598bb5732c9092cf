------------------------------ MODULE CloudApi ------------------------------
(***************************************************************************)
(* The sw functions of snippets/swCloud.c, called by other threads of the  *)
(* process while cloud_daemon runs.  A call ends at "return", where        *)
(* frame[t].res holds its result, and the caller is idle again.            *)
(***************************************************************************)
EXTENDS CloudDaemon

CONSTANT Ops    \* the functions the callers may call

ASSUME OpAssumption == Ops \subseteq {"Bind", "UBind", "RegUsr", "Ping"}

CallerLabels ==
  {"bind_binded", "bind_status", "bind_connect", "bind_linked", "bind_account",
   "bind_name", "bind_authed", "bind_bound", "bind_updated", "bind_connected",
   "bind_flag", "bind_save", "bind_save_password", "bind_unlock",
   "ubind_status", "ubind_linked", "ubind_authed", "ubind_done", "ubind_flag",
   "ubind_init", "ubind_save", "ubind_save_password", "ubind_broken",
   "ubind_offline", "ubind_close",
   "reg_linked", "reg_done", "reg_check", "reg_offline",
   "ping_again", "ping_clear", "ping_set", "ping_read", "return"}

ApiTypeOK ==
  Typed(RoutineLabels \cup DaemonLabels \cup HandlerLabels \cup CallerLabels)

\* The label a request's or a connection's result leads to.
Result(t) == frame[t].res
SetResult(t, res, label) ==
  /\ Goto(t, label)
  /\ frame' = [frame EXCEPT ![t].res = res]

-----------------------------------------------------------------------------
(* swCloudBind: everything under cloud.lock, but not the other threads'    *)
(* accesses that take no lock.                                             *)

Bind(t) ==
  /\ "Bind" \in Ops
  /\ pc[t] = "idle"
  /\ Acquire(t)
  /\ Goto(t, "bind_binded")
  /\ \E u \in Users : frame' = [frame EXCEPT ![t].user = u]
  /\ UNCHANGED <<cloud, conf, sock, agent>>

BindBinded(t) ==
  /\ pc[t] = "bind_binded"
  /\ IF cloud.binded THEN Goto(t, "bind_status") /\ frame' = frame
     ELSE Call(t, "close_test", "bind_connect")
  /\ UNCHANGED shared

\* Mutant: a bound device is bound again whatever its status.
BindStatusIgnored(t) ==
  /\ pc[t] = "bind_status"
  /\ Call(t, "close_test", "bind_connect")
  /\ UNCHANGED shared

BindStatus(t) ==
  /\ pc[t] = "bind_status"
  /\ IF cloud.status = "BROKEN"
     THEN /\ Call(t, "close_test", "bind_connect")
          /\ lock' = lock
     ELSE /\ SetResult(t, "binded", "return")
          /\ Release(t)
  /\ UNCHANGED <<cloud, conf, sock, agent>>

BindConnect(t) ==
  /\ pc[t] = "bind_connect"
  /\ Call(t, "socket", "bind_linked")
  /\ UNCHANGED shared

\* A failed call closes the connection before it unlocks.
BindGoesOn(t, at, onSuccess) ==
  /\ pc[t] = at
  /\ IF Result(t) = "ok" THEN onSuccess ELSE Call(t, "close_test", "bind_unlock")
  /\ UNCHANGED shared

BindLinked(t) ==
  BindGoesOn(t, "bind_linked", Goto(t, "bind_account") /\ frame' = frame)
BindAuthed(t) ==
  BindGoesOn(t, "bind_authed", Request(t, "BINDEV", "bind_bound"))
\* Mutant: the result of cloud_do_bind is not looked at.
BindBoundAnyway(t) ==
  /\ pc[t] = "bind_bound"
  /\ Request(t, "UPDEV", "bind_updated")
  /\ UNCHANGED shared

BindBound(t) ==
  BindGoesOn(t, "bind_bound", Request(t, "UPDEV", "bind_updated"))

BindAccount(t) ==
  /\ pc[t] = "bind_account"
  /\ cloud' = [cloud EXCEPT !.account = frame[t].user]
  /\ Goto(t, "bind_name")
  /\ UNCHANGED <<lock, conf, sock, agent, frame>>

BindName(t) ==
  /\ pc[t] = "bind_name"
  /\ \E i \in Infos : cloud' = [cloud EXCEPT !.devinfo = i]
  /\ Request(t, "AUTH", "bind_authed")
  /\ UNCHANGED <<lock, conf, sock, agent>>

\* Mutant: the status is returned in place of a result.
BindUpdatedStatus(t) ==
  /\ pc[t] = "bind_updated"
  /\ SetResult(t, cloud.status, "bind_connected")
  /\ UNCHANGED shared

\* The result of this update is not looked at.
BindUpdated(t) ==
  /\ pc[t] = "bind_updated"
  /\ SetResult(t, "ok", "bind_connected")
  /\ UNCHANGED shared

BindConnected(t) == SetStatus(t, "bind_connected", "CONNECTED", "bind_flag")

BindFlag(t) ==
  /\ pc[t] = "bind_flag"
  /\ cloud' = [cloud EXCEPT !.binded = TRUE]
  /\ Goto(t, "bind_save")
  /\ UNCHANGED <<lock, conf, sock, agent, frame>>

SaveAccount(t, at, account, next) ==
  /\ pc[t] = at
  /\ conf' = [conf EXCEPT !.account = account]
  /\ Goto(t, next)
  /\ UNCHANGED <<cloud, lock, sock, agent, frame>>

SavePassword(t, at, account, next) ==
  /\ pc[t] = at
  /\ conf' = [conf EXCEPT !.password = account]
  /\ Goto(t, next)
  /\ UNCHANGED <<cloud, lock, sock, agent, frame>>

\* Mutant: the account is not saved.
BindSaveForgotten(t) ==
  /\ pc[t] = "bind_save"
  /\ Goto(t, "bind_save_password")
  /\ UNCHANGED <<shared, frame>>

BindSave(t) == SaveAccount(t, "bind_save", cloud.account, "bind_save_password")
BindSavePassword(t) ==
  SavePassword(t, "bind_save_password", cloud.account, "bind_unlock")

BindUnlock(t) ==
  /\ pc[t] = "bind_unlock"
  /\ Release(t)
  /\ Goto(t, "return")
  /\ UNCHANGED <<cloud, conf, sock, agent, frame>>

BindStep(t) ==
  \/ BindBinded(t) \/ BindStatus(t) \/ BindConnect(t) \/ BindLinked(t)
  \/ BindAccount(t) \/ BindName(t) \/ BindAuthed(t) \/ BindBound(t)
  \/ BindUpdated(t) \/ BindConnected(t) \/ BindFlag(t) \/ BindSave(t)
  \/ BindSavePassword(t) \/ BindUnlock(t)

-----------------------------------------------------------------------------
(* swCloudUBind takes no lock but around the status.                       *)

UBind(t) ==
  /\ "UBind" \in Ops
  /\ pc[t] = "idle"
  /\ IF cloud.binded THEN Goto(t, "ubind_status") /\ frame' = frame
     ELSE SetResult(t, "ok", "return")
  /\ UNCHANGED shared

UBindStatus(t) ==
  /\ pc[t] = "ubind_status"
  /\ CanLock(t)
  /\ IF cloud.status = "CONNECTED" THEN Request(t, "UBINDEV", "ubind_done")
     ELSE Call(t, "socket", "ubind_linked")
  /\ UNCHANGED shared

\* Go on when the call succeeded, else to label with the result kept.
UBindGoesOn(t, at, onSuccess, label) ==
  /\ pc[t] = at
  /\ IF Result(t) = "ok" THEN onSuccess ELSE Goto(t, label) /\ frame' = frame
  /\ UNCHANGED shared

UBindLinked(t) ==
  UBindGoesOn(t, "ubind_linked", Request(t, "AUTH", "ubind_authed"), "ubind_offline")
UBindAuthed(t) ==
  UBindGoesOn(t, "ubind_authed", Request(t, "UBINDEV", "ubind_done"), "ubind_broken")
UBindDone(t) ==
  UBindGoesOn(t, "ubind_done", Goto(t, "ubind_flag") /\ frame' = frame, "ubind_offline")

\* Mutant: binded stays set.
UBindFlagForgotten(t) ==
  /\ pc[t] = "ubind_flag"
  /\ Goto(t, "ubind_init")
  /\ UNCHANGED <<shared, frame>>

UBindFlag(t) ==
  /\ pc[t] = "ubind_flag"
  /\ cloud' = [cloud EXCEPT !.binded = FALSE]
  /\ Goto(t, "ubind_init")
  /\ UNCHANGED <<lock, conf, sock, agent, frame>>

UBindInit(t) == SetStatus(t, "ubind_init", "INIT", "ubind_save")
\* Mutant: the account stays saved.
UBindSaveForgotten(t) ==
  /\ pc[t] = "ubind_save"
  /\ Goto(t, "ubind_save_password")
  /\ UNCHANGED <<shared, frame>>

UBindSave(t) == SaveAccount(t, "ubind_save", NoUser, "ubind_save_password")
UBindSavePassword(t) ==
  SavePassword(t, "ubind_save_password", NoUser, "ubind_close")

UBindBroken(t) == SetStatus(t, "ubind_broken", "BROKEN", "ubind_close")
UBindOffline(t) == SetStatus(t, "ubind_offline", "DISCONNECTED", "ubind_close")

UBindClose(t) ==
  /\ pc[t] = "ubind_close"
  /\ Call(t, "close_test", "return")
  /\ UNCHANGED shared

UBindStep(t) ==
  \/ UBindStatus(t) \/ UBindLinked(t) \/ UBindAuthed(t) \/ UBindDone(t)
  \/ UBindFlag(t) \/ UBindInit(t) \/ UBindSave(t) \/ UBindSavePassword(t)
  \/ UBindBroken(t) \/ UBindOffline(t) \/ UBindClose(t)

-----------------------------------------------------------------------------
(* swCloudRegUsr.  Only swCloudCommand calls it: it begins in CloudCommand. *)

RegUsr(t) ==
  /\ "RegUsr" \in Ops
  /\ pc[t] = "idle"
  /\ CanLock(t)
  /\ IF cloud.status = "CONNECTED" THEN Request(t, "REGUSR", "reg_done")
     ELSE Call(t, "socket", "reg_linked")
  /\ UNCHANGED shared

RegLinked(t) ==
  /\ pc[t] = "reg_linked"
  /\ IF Result(t) = "ok" THEN Request(t, "REGUSR", "reg_done")
     ELSE Goto(t, "reg_done") /\ frame' = frame
  /\ UNCHANGED shared

RegDone(t) ==
  /\ pc[t] = "reg_done"
  /\ Goto(t, IF cloud.binded THEN "return" ELSE "reg_check")
  /\ UNCHANGED <<shared, frame>>

RegCheck(t) ==
  /\ pc[t] = "reg_check"
  /\ CanLock(t)
  /\ IF cloud.status = "CONNECTED" THEN Call(t, "close_test", "reg_offline")
     ELSE Goto(t, "return") /\ frame' = frame
  /\ UNCHANGED shared

RegOffline(t) == SetStatus(t, "reg_offline", "DISCONNECTED", "return")

RegUsrStep(t) == RegLinked(t) \/ RegDone(t) \/ RegCheck(t) \/ RegOffline(t)

-----------------------------------------------------------------------------
(* swCloudPing reads the status twice, and answers with what is known now. *)

Ping(t) ==
  /\ "Ping" \in Ops
  /\ pc[t] = "idle"
  /\ CanLock(t)
  /\ Goto(t, IF cloud.status = "CONNECTING" THEN "ping_read" ELSE "ping_again")
  /\ UNCHANGED <<shared, frame>>

PingAgain(t) ==
  /\ pc[t] = "ping_again"
  /\ CanLock(t)
  /\ Goto(t, IF cloud.status = "CONNECTED" THEN "ping_read" ELSE "ping_clear")
  /\ UNCHANGED <<shared, frame>>

PingClear(t) ==
  /\ pc[t] = "ping_clear"
  /\ cloud' = ClearedCounters(cloud)
  /\ Goto(t, "ping_set")
  /\ UNCHANGED <<lock, conf, sock, agent, frame>>

PingSet(t) == SetStatus(t, "ping_set", "CONNECTING", "ping_read")

PingRead(t) ==
  /\ pc[t] = "ping_read"
  /\ SetResult(t, IF cloud.reachable THEN "ok" ELSE "net", "return")
  /\ UNCHANGED shared

PingStep(t) == PingAgain(t) \/ PingClear(t) \/ PingSet(t) \/ PingRead(t)

-----------------------------------------------------------------------------
Returned(t) ==
  /\ pc[t] = "return"
  /\ pc' = [pc EXCEPT ![t] = "idle"]
  /\ frame' = [frame EXCEPT ![t] = Blank]
  /\ UNCHANGED shared

CallerWork(t) ==
  Routine(t) \/ BindStep(t) \/ UBindStep(t) \/ PingStep(t) \/ Returned(t)
CallerStep(t) ==
  Bind(t) \/ UBind(t) \/ Ping(t) \/ CallerWork(t)

ApiNext == Next \/ \E t \in Callers : CallerStep(t)
ApiSpec == Init /\ [][ApiNext]_vars

(* A call that was made is scheduled; nobody is obliged to call.           *)
CallersRun == \A t \in Callers : WF_vars(CallerWork(t))
CallerFairSpec == ApiSpec /\ CallersRun
ApiFairSpec == ApiSpec /\ Fairness /\ CallersRun

-----------------------------------------------------------------------------
(* Properties of the calls beside the daemon.                              *)

\* Between the store that changes binded and the one that saves the account.
Saving(t) ==
  pc[t] \in {"bind_save", "ubind_init", "ubind_save", "unbind_status", "unbind_account"}

\* Whether the device is bound survives a power loss: outside those windows
\* the saved account is empty exactly when binded is 0, also after a boot
\* from a configuration that a crash left half saved.
ConfMatchesBinding ==
  (\A t \in Threads : ~Saving(t)) => (cloud.binded <=> conf.account # NoUser)

\* swCloudUBind (which has no user) that returned SUCCEED has made the device
\* forget: no other thread, and no power loss after it, makes it bound again.
UnbindDurable ==
  \A t \in Callers :
    pc[t] = "return" /\ Result(t) = "ok" /\ frame[t].user = NoUser =>
      ~cloud.binded /\ conf.account = NoUser

\* Under the lock of swCloudBind no request gets another one's answer: a
\* thread that takes an answer off the connection asked for it.  Requests
\* carry no number; only the order of the packets pairs them.
TakesAnswer(t, f) ==
  /\ pc[t] \in {"recv", "ctl_recv"} /\ pc'[t] # pc[t]
  /\ frame[t].rfd = f
  /\ sock[f].in # <<>> /\ sock'[f].in = Tail(sock[f].in)
  /\ Head(sock[f].in).kind = "answer"
AnswersMatched ==
  [][\A t \in Threads, f \in Fds :
       TakesAnswer(t, f) => /\ Head(sock[f].in).to = t
                            /\ Head(sock[f].in).cmd = frame[t].cmd]_vars

\* While a thread owns the lock, only that thread changes the status: the
\* status swCloudBind tested is the one it replaces.
StatusGuarded ==
  [][\A t \in Threads :
       lock = t /\ lock' = t /\ cloud'.status # cloud.status => pc'[t] # pc[t]]_vars

\* swCloudBind, once it owns the lock, returns, whatever the other threads do
\* or leave undone: every answer it waits for comes to it, or the connection
\* ends.
BindReturns == \A t \in Callers : lock = t ~> pc[t] = "idle"

\* No thread loses the connection it is blocked on: a descriptor is closed
\* only while no other thread waits in read() for its next packet (such a
\* thread would never wake, and swCloudBind would keep the lock).
Waiting(t, f) ==
  /\ pc[t] \in {"hello", "recv", "ctl_recv"}
  /\ frame[t].rfd = f
  /\ sock[f].st = "up" /\ sock[f].in = <<>>
NobodyStranded ==
  [][\A t \in Threads, f \in Fds :
       Waiting(t, f) => sock'[f].st # "free"]_vars

\* Nothing the calls do leaves the device connecting for ever.
ConnectingEnds == cloud.status = "CONNECTING" ~> cloud.status # "CONNECTING"

\* The daemon of an unbound device keeps quiet: it may connect for a ping or
\* a registration, but sends neither AUTH nor UPDEV.
UnboundStaysQuiet ==
  [][\A f \in Fds, c \in {"AUTH", "UPDEV"} :
       NewAnswer(f, c) /\ Last(sock'[f].in).to = Daemon => cloud.binded]_vars

-----------------------------------------------------------------------------
(* What comments of the source say and the code does not keep.             *)

\* Line 39: CONNECTED is "connected with server".  A CONNECTED device without
\* a descriptor does not stay so.
NoConnection == cloud.status = "CONNECTED" /\ cloud.fd = NoFd
ConnectedWithServer == NoConnection ~> ~NoConnection

\* Line 405: cloud_do_ubind returns "0 - succeed, 1 - unbind failed": where it
\* returned 0 to swCloudUBind, the agent has unbound the device.
UBindSucceeds == \A t \in Callers : pc[t] = "ubind_flag" => ~agent.bound

\* Line 405: cloud_do_ubind returns 0, 1 or -1, and so swCloudUBind returns.
UBindReturns == \A t \in Callers : pc[t] # "idle" ~> pc[t] = "idle"
=============================================================================
