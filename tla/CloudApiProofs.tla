--------------------------- MODULE CloudApiProofs ---------------------------
(***************************************************************************)
(* Proofs about CloudApi, for any number of callers, handlers and          *)
(* descriptors: types, who changes the status and the binding, what        *)
(* swCloudBind finds in its connection, and how the daemon backs off.      *)
(***************************************************************************)
EXTENDS CloudApiInv, CloudDaemonProofs, SequenceLemmas

-----------------------------------------------------------------------------
(* Types.                                                                  *)
ApiLabels == Labels \cup CallerLabels

LEMMA ApiTyped == ApiTypeOK <=> Typed(ApiLabels)
  BY DEF ApiTypeOK, ApiLabels, Labels

LEMMA CallerThread == \A t \in Callers : t \in Threads /\ t # Daemon /\ t \notin Handlers
  BY ThreadAssumption DEF Threads

LEMMA HandlerThread == \A t \in Handlers : t \in Threads /\ t # Daemon /\ t \notin Callers
  BY ThreadAssumption DEF Threads

LEMMA SetResultType ==
  ASSUME NEW L, Labels \subseteq L, Typed(L), NEW t \in Threads,
         NEW r \in {"ok", "no", "net", "binded"}, NEW l \in L, SetResult(t, r, l)
  PROVE  pc' \in [Threads -> L] /\ frame' \in [Threads -> Frames(L)]
<1>1. [frame[t] EXCEPT !.res = r] \in Frames(L)
  BY FrameTyped DEF Frames
<1> QED
  BY <1>1, GotoType DEF SetResult, Typed

LEMMA SaveType ==
  ASSUME NEW L, Labels \subseteq L, Typed(L), NEW t \in Threads, NEW at,
         NEW u \in Users \cup {NoUser}, NEW l \in L,
         SaveAccount(t, at, u, l) \/ SavePassword(t, at, u, l)
  PROVE  Typed(L)'
<1>1. pc' \in [Threads -> L]
  BY GotoType DEF SaveAccount, SavePassword
<1>2. conf' \in [account : Users \cup {NoUser}, password : Users \cup {NoUser}]
  BY DEF SaveAccount, SavePassword, Typed
<1> QED
  BY <1>1, <1>2 DEF SaveAccount, SavePassword, Typed

\* The steps that go on, call a routine or set the result.
LEMMA MovesType ==
  ASSUME NEW L, Labels \subseteq L, Typed(L), NEW t \in Threads, UNCHANGED shared,
         \/ \E l \in L : Goto(t, l) /\ frame' = frame
         \/ \E l \in L, b \in L : Call(t, l, b)
         \/ \E c \in Commands, b \in L : Request(t, c, b)
         \/ \E r \in {"ok", "no", "net", "binded"}, l \in L : SetResult(t, r, l)
  PROVE  Typed(L)'
<1>1. pc' \in [Threads -> L] /\ frame' \in [Threads -> Frames(L)]
  BY GotoType, CallType, RequestType, SetResultType DEF Typed
<1> QED
  BY <1>1, SharedType

LEMMA BindType ==
  ASSUME NEW L, ApiLabels \subseteq L, Typed(L), NEW t \in Callers,
         Bind(t) \/ BindStep(t)
  PROVE  Typed(L)'
<1> USE CallerThread
<1>0. Labels \subseteq L /\ CallerLabels \subseteq L
  BY DEF ApiLabels
<1>1. CASE Bind(t)
  <2> PICK u \in Users : frame' = [frame EXCEPT ![t].user = u]
    BY <1>1 DEF Bind
  <2>1. [frame[t] EXCEPT !.user = u] \in Frames(L)
    BY <1>0, FrameTyped DEF Frames
  <2>2. frame' \in [Threads -> Frames(L)]
    BY <2>1 DEF Typed
  <2>3. pc' \in [Threads -> L]
    BY <1>0, <1>1, GotoType DEF Bind, CallerLabels
  <2> QED
    BY <1>1, <2>2, <2>3 DEF Bind, Acquire, Typed
<1>2. CASE BindStatus(t)
  <2>1. pc' \in [Threads -> L] /\ frame' \in [Threads -> Frames(L)]
    BY <1>0, <1>2, CallType, SetResultType
       DEF BindStatus, Labels, RoutineLabels, CallerLabels
  <2>2. lock' \in Threads \cup {NoThread}
    BY <1>2 DEF BindStatus, Release, Typed
  <2> QED
    BY <1>2, <2>1, <2>2 DEF BindStatus, Typed
<1>3. CASE BindBinded(t) \/ BindConnect(t) \/ BindLinked(t) \/ BindAuthed(t)
           \/ BindBound(t) \/ BindUpdated(t)
  <2>1. \/ \E l \in L : Goto(t, l) /\ frame' = frame
        \/ \E l \in L, b \in L : Call(t, l, b)
        \/ \E c \in Commands, b \in L : Request(t, c, b)
        \/ \E r \in {"ok", "no", "net", "binded"}, l \in L : SetResult(t, r, l)
    BY <1>0, <1>3
       DEF BindBinded, BindConnect, BindLinked, BindAuthed, BindBound, BindUpdated,
           BindGoesOn, Commands, Labels, RoutineLabels, CallerLabels
  <2>2. UNCHANGED shared
    BY <1>3
       DEF BindBinded, BindConnect, BindLinked, BindAuthed, BindBound, BindUpdated,
           BindGoesOn
  <2> QED
    BY <1>0, <2>1, <2>2, MovesType
<1>4. CASE BindAccount(t)
  <2>1. pc' \in [Threads -> L] /\ frame' = frame
    BY <1>0, <1>4, GotoType DEF BindAccount, CallerLabels
  <2>2. frame[t].user \in Users \cup {NoUser}
    BY <1>0, FrameTyped DEF Frames
  <2>3. cloud' \in Clouds
    BY <1>4, <2>2 DEF BindAccount, Typed, Clouds
  <2> QED
    BY <1>4, <2>1, <2>3 DEF BindAccount, Typed
<1>5. CASE BindName(t)
  <2>1. pc' \in [Threads -> L] /\ frame' \in [Threads -> Frames(L)]
    BY <1>0, <1>5, RequestType DEF BindName, Commands, CallerLabels
  <2>2. cloud' \in Clouds
    BY <1>5 DEF BindName, Typed, Clouds
  <2> QED
    BY <1>5, <2>1, <2>2 DEF BindName, Typed
<1>6. CASE BindConnected(t)
  BY <1>0, <1>6, SetStatusType DEF BindConnected, Statuses, CallerLabels
<1>7. CASE BindFlag(t)
  <2>1. pc' \in [Threads -> L] /\ frame' = frame
    BY <1>0, <1>7, GotoType DEF BindFlag, CallerLabels
  <2>2. cloud' \in Clouds
    BY <1>7 DEF BindFlag, Typed, Clouds
  <2> QED
    BY <1>7, <2>1, <2>2 DEF BindFlag, Typed
<1>8. CASE BindSave(t) \/ BindSavePassword(t)
  <2>1. cloud.account \in Users \cup {NoUser}
    BY DEF Typed, Clouds
  <2> QED
    BY <1>0, <1>8, <2>1, SaveType DEF BindSave, BindSavePassword, CallerLabels
<1>9. CASE BindUnlock(t)
  <2>1. pc' \in [Threads -> L]
    BY <1>0, <1>9, GotoType DEF BindUnlock, CallerLabels
  <2>2. lock' \in Threads \cup {NoThread}
    BY <1>9 DEF BindUnlock, Release, Typed
  <2> QED
    BY <1>9, <2>1, <2>2 DEF BindUnlock, Typed
<1> QED
  BY <1>1, <1>2, <1>3, <1>4, <1>5, <1>6, <1>7, <1>8, <1>9 DEF BindStep

LEMMA UBindType ==
  ASSUME NEW L, ApiLabels \subseteq L, Typed(L), NEW t \in Callers,
         UBind(t) \/ UBindStep(t)
  PROVE  Typed(L)'
<1> USE CallerThread
<1>0. Labels \subseteq L /\ CallerLabels \subseteq L
  BY DEF ApiLabels
<1>1. CASE UBind(t) \/ UBindStatus(t) \/ UBindLinked(t) \/ UBindAuthed(t)
           \/ UBindDone(t) \/ UBindClose(t)
  <2>1. \/ \E l \in L : Goto(t, l) /\ frame' = frame
        \/ \E l \in L, b \in L : Call(t, l, b)
        \/ \E c \in Commands, b \in L : Request(t, c, b)
        \/ \E r \in {"ok", "no", "net", "binded"}, l \in L : SetResult(t, r, l)
    BY <1>0, <1>1
       DEF UBind, UBindStatus, UBindLinked, UBindAuthed, UBindDone, UBindClose,
           UBindGoesOn, Commands, Labels, RoutineLabels, CallerLabels
  <2>2. UNCHANGED shared
    BY <1>1
       DEF UBind, UBindStatus, UBindLinked, UBindAuthed, UBindDone, UBindClose,
           UBindGoesOn
  <2> QED
    BY <1>0, <2>1, <2>2, MovesType
<1>2. CASE UBindFlag(t)
  <2>1. pc' \in [Threads -> L] /\ frame' = frame
    BY <1>0, <1>2, GotoType DEF UBindFlag, CallerLabels
  <2>2. cloud' \in Clouds
    BY <1>2 DEF UBindFlag, Typed, Clouds
  <2> QED
    BY <1>2, <2>1, <2>2 DEF UBindFlag, Typed
<1>3. CASE UBindInit(t) \/ UBindBroken(t) \/ UBindOffline(t)
  BY <1>0, <1>3, SetStatusType
     DEF UBindInit, UBindBroken, UBindOffline, Statuses, CallerLabels
<1>4. CASE UBindSave(t) \/ UBindSavePassword(t)
  BY <1>0, <1>4, SaveType DEF UBindSave, UBindSavePassword, CallerLabels
<1> QED
  BY <1>1, <1>2, <1>3, <1>4 DEF UBindStep

LEMMA PingType ==
  ASSUME NEW L, ApiLabels \subseteq L, Typed(L), NEW t \in Callers,
         Ping(t) \/ PingStep(t)
  PROVE  Typed(L)'
<1> USE CallerThread
<1>0. Labels \subseteq L /\ CallerLabels \subseteq L
  BY DEF ApiLabels
<1>1. CASE Ping(t) \/ PingAgain(t)
  BY <1>0, <1>1, MoveType DEF Ping, PingAgain, CallerLabels
<1>2. CASE PingRead(t)
  <2>1. \E r \in {"ok", "no", "net", "binded"}, l \in L : SetResult(t, r, l)
    BY <1>0, <1>2 DEF PingRead, CallerLabels
  <2> QED
    BY <1>0, <1>2, <2>1, MovesType DEF PingRead
<1>3. CASE PingClear(t)
  <2>1. pc' \in [Threads -> L] /\ frame' = frame
    BY <1>0, <1>3, GotoType DEF PingClear, CallerLabels
  <2>2. cloud' \in Clouds
    BY <1>0, <1>3, ClearedType DEF PingClear
  <2> QED
    BY <1>3, <2>1, <2>2 DEF PingClear, Typed
<1>4. CASE PingSet(t)
  BY <1>0, <1>4, SetStatusType DEF PingSet, Statuses, CallerLabels
<1> QED
  BY <1>1, <1>2, <1>3, <1>4 DEF PingStep

LEMMA CallerType ==
  ASSUME NEW L, ApiLabels \subseteq L, Typed(L), NEW t \in Callers, CallerStep(t)
  PROVE  Typed(L)'
<1>0. Labels \subseteq L /\ CallerLabels \subseteq L
  BY DEF ApiLabels
<1>1. CASE Routine(t)
  BY <1>0, <1>1, CallerThread, RoutineType
<1>2. CASE Returned(t)
  <2>1. "idle" \in L /\ Blank \in Frames(L)
    BY <1>0, BlankType DEF Labels, HandlerLabels
  <2>2. pc' \in [Threads -> L] /\ frame' \in [Threads -> Frames(L)]
    BY <1>2, <2>1 DEF Returned, Typed
  <2> QED
    BY <1>0, <1>2, <2>2, SharedType DEF Returned
<1> QED
  BY <1>1, <1>2, BindType, UBindType, PingType DEF CallerStep, CallerWork

LEMMA ApiType ==
  ASSUME NEW L, ApiLabels \subseteq L, Typed(L), [ApiNext]_vars
  PROVE  Typed(L)'
<1>0. Labels \subseteq L
  BY DEF ApiLabels
<1>1. CASE DaemonStep
  BY <1>0, <1>1, DaemonType
<1>2. CASE \E t \in Handlers : HandlerStep(t)
  BY <1>0, <1>2, HandlerType
<1>3. CASE Environment
  BY <1>0, <1>3, EnvironmentType
<1>4. CASE \E t \in Callers : CallerStep(t)
  BY <1>4, CallerType
<1>5. CASE UNCHANGED vars
  BY <1>5 DEF vars, Typed
<1> QED
  BY <1>1, <1>2, <1>3, <1>4, <1>5 DEF ApiNext, Next

\* Every variable keeps its type beside any number of calls of any of the
\* sw functions.
THEOREM ApiTypes == ApiSpec => []ApiTypeOK
<1>1. ApiTypeOK' <=> Typed(ApiLabels)'
  BY DEF ApiTypeOK, ApiLabels, Labels
<1>2. Init => ApiTypeOK
  BY InitType, ApiTyped DEF ApiLabels
<1>3. ApiTypeOK /\ [ApiNext]_vars => ApiTypeOK'
  BY <1>1, ApiTyped, ApiType
<1> QED
  BY <1>2, <1>3, PTL DEF ApiSpec

-----------------------------------------------------------------------------
(* Who changes the status.                                                 *)
LEMMA SetsStatus ==
  ASSUME ApiTypeOK, NEW t \in Threads, NEW at, NEW s, NEW l, at # l,
         SetStatus(t, at, s, l)
  PROVE  \E u \in Threads : CanLock(u) /\ pc'[u] # pc[u]
  BY DEF SetStatus, Goto, ApiTypeOK, Typed

LEMMA RoutineStatus ==
  ASSUME ApiTypeOK, NEW t \in Threads, Routine(t)
  PROVE  cloud'.status = cloud.status
  BY DEF Routine, CloseTest, CloseFd, CloseClear, Socket, Connect, ConnectFails,
         HelloFd, ReadHello, Send, RequestFails, RecvFd, Recv, shared, ApiTypeOK,
         Typed, Clouds

LEMMA DaemonStatus ==
  ASSUME ApiTypeOK, DaemonStep, cloud'.status # cloud.status
  PROVE  \E u \in Threads : CanLock(u) /\ pc'[u] # pc[u]
<1> USE DaemonThread
<1>1. cloud \in Clouds
  BY DEF ApiTypeOK, Typed
<1>2. CASE SetConnecting \/ SetDisconnected \/ SetBroken \/ SetConnected
           \/ SetUnbound \/ Resume \/ UnbindStatus
  BY <1>2, SetsStatus
     DEF SetConnecting, SetDisconnected, SetBroken, SetConnected, SetUnbound, Resume,
         UnbindStatus
<1>3. CASE WaitAgent \/ Dispatch \/ StatusInit \/ Linked \/ AuthDone \/ UpdateDone
           \/ StatusConnected \/ NeedUpdate \/ NeedRead \/ RefreshDone \/ Poll
           \/ PollSelect \/ ControlRecvFd \/ Reply
  BY <1>3
     DEF WaitAgent, Dispatch, StatusInit, Linked, AuthDone, UpdateDone,
         StatusConnected, NeedUpdate, NeedRead, RefreshDone, Poll, PollSelect,
         ControlRecvFd, Reply, shared
<1>4. CASE ControlLock \/ ControlPoll \/ ControlSelect \/ ControlRecv
           \/ UnbindAccount \/ UnbindPassword
  BY <1>4
     DEF ControlLock, ControlPoll, ControlSelect, ControlRecv, UnbindAccount,
         UnbindPassword
<1>5. CASE ClearUnbound \/ NeedClear \/ Retry \/ Pace \/ Restart \/ UnbindDone
  BY <1>1, <1>5
     DEF ClearUnbound, NeedClear, Retry, Pace, Restart, UnbindDone, ClearedCounters,
         Clouds
<1> QED
  BY <1>2, <1>3, <1>4, <1>5, RoutineStatus DEF DaemonStep

LEMMA HandlerStatus ==
  ASSUME ApiTypeOK, NEW t \in Handlers, HandlerStep(t), cloud'.status # cloud.status
  PROVE  \E u \in Threads : CanLock(u) /\ pc'[u] # pc[u]
<1>1. cloud \in Clouds
  BY DEF ApiTypeOK, Typed
<1>2. CASE SetRestart(t)
  BY <1>2, HandlerThread, SetsStatus DEF SetRestart
<1>3. CASE ~SetRestart(t)
  BY <1>1, <1>3
     DEF HandlerStep, DeliverField, DeliverUpnp, DeliverNetwork, Deliver, StoreField,
         MarkField, MarkNetwork, MarkUpdate, StoreUpnp, MarkUpnp, shared, Clouds
<1> QED
  BY <1>2, <1>3

LEMMA CallerStatus ==
  ASSUME ApiTypeOK, NEW t \in Callers, CallerStep(t), cloud'.status # cloud.status
  PROVE  \E u \in Threads : CanLock(u) /\ pc'[u] # pc[u]
<1> USE CallerThread
<1>1. cloud \in Clouds
  BY DEF ApiTypeOK, Typed
<1>2. CASE BindConnected(t) \/ UBindInit(t) \/ UBindBroken(t) \/ UBindOffline(t)
           \/ PingSet(t)
  BY <1>2, SetsStatus DEF BindConnected, UBindInit, UBindBroken, UBindOffline, PingSet
<1>3. CASE Bind(t) \/ (BindStep(t) /\ ~BindConnected(t))
  BY <1>1, <1>3
     DEF Bind, BindStep, BindBinded, BindStatus, BindConnect, BindLinked, BindAccount,
         BindName, BindAuthed, BindBound, BindGoesOn, BindUpdated, BindFlag, BindSave,
         BindSavePassword, SaveAccount, SavePassword, BindUnlock, shared, Clouds
<1>4. CASE UBind(t) \/ (UBindStep(t) /\ ~(UBindInit(t) \/ UBindBroken(t) \/ UBindOffline(t)))
  BY <1>1, <1>4
     DEF UBind, UBindStep, UBindStatus, UBindLinked, UBindAuthed, UBindDone, UBindGoesOn,
         UBindFlag, UBindSave, UBindSavePassword, SaveAccount, SavePassword, UBindClose,
         shared, Clouds
<1>5. CASE Ping(t) \/ (PingStep(t) /\ ~PingSet(t))
  BY <1>1, <1>5
     DEF Ping, PingStep, PingAgain, PingClear, PingRead, ClearedCounters, shared, Clouds
<1>6. CASE Returned(t)
  BY <1>6 DEF Returned, shared
<1> QED
  BY <1>2, <1>3, <1>4, <1>5, <1>6, RoutineStatus DEF CallerStep, CallerWork

\* Nobody changes the status behind the back of the thread that owns the lock:
\* the status swCloudBind or network_device_control has read stays as it was
\* until that thread itself stores another, whatever the others are doing.
THEOREM StatusOwned == ApiSpec => StatusGuarded
<1> DEFINE Guarded ==
      \A t \in Threads :
        lock = t /\ lock' = t /\ cloud'.status # cloud.status => pc'[t] # pc[t]
<1>1. ApiTypeOK /\ [ApiNext]_vars => Guarded
  <2> SUFFICES ASSUME ApiTypeOK, [ApiNext]_vars, NEW t \in Threads,
                      lock = t, lock' = t, cloud'.status # cloud.status
               PROVE  pc'[t] # pc[t]
    OBVIOUS
  <2>1. t # NoThread
    BY ThreadAssumption DEF Threads
  <2>2. ~Environment
    BY <2>1 DEF Environment, AgentStarts, AgentPushes, AgentDrops, Reboot
  <2>3. \E u \in Threads : CanLock(u) /\ pc'[u] # pc[u]
    BY <2>2, DaemonStatus, HandlerStatus, CallerStatus DEF ApiNext, Next, vars
  <2> QED
    BY <2>1, <2>3 DEF CanLock
<1>2. ApiSpec => [][Guarded]_vars
  BY <1>1, ApiTypes, PTL DEF ApiSpec
<1> QED
  BY <1>2 DEF StatusGuarded

-----------------------------------------------------------------------------
(* Where a step moves a thread.                                            *)

\* No thread but t moves.
Alone(t) == \A u \in Threads : u # t => pc'[u] = pc[u] /\ frame'[u] = frame[u]

LEMMA Went ==
  ASSUME ApiTypeOK, NEW t \in Threads, NEW l, Goto(t, l), frame' = frame
  PROVE  pc'[t] = l /\ frame'[t] = frame[t] /\ Alone(t)
  BY DEF Goto, Alone, ApiTypeOK, Typed

LEMMA Went2 ==
  ASSUME ApiTypeOK, NEW t \in Threads, NEW l, NEW g, Goto(t, l),
         frame' = [frame EXCEPT ![t] = g]
  PROVE  pc'[t] = l /\ frame'[t] = g /\ Alone(t)
  BY DEF Goto, Alone, ApiTypeOK, Typed

LEMMA Framed ==
  ASSUME ApiTypeOK, NEW t \in Threads
  PROVE  /\ frame \in [Threads -> Frames(ApiLabels)]
         /\ frame[t] \in Frames(ApiLabels)
  BY ApiTyped DEF Typed

LEMMA Called ==
  ASSUME ApiTypeOK, NEW t \in Threads, NEW l, NEW b, Call(t, l, b)
  PROVE  /\ pc'[t] = l /\ Alone(t)
         /\ frame'[t].back = b /\ frame'[t].res = frame[t].res
         /\ frame'[t].user = frame[t].user
<1> PICK g : g = [frame[t] EXCEPT !.back = b]
  OBVIOUS
<1>1. frame' = [frame EXCEPT ![t] = g]
  BY Framed DEF Call
<1>2. g.back = b /\ g.res = frame[t].res /\ g.user = frame[t].user
  BY Framed DEF Frames
<1>3. Goto(t, l)
  BY DEF Call
<1> QED
  BY <1>1, <1>2, <1>3, Went2

LEMMA Requested ==
  ASSUME ApiTypeOK, NEW t \in Threads, NEW c, NEW b, Request(t, c, b)
  PROVE  /\ pc'[t] = "send" /\ Alone(t)
         /\ frame'[t].back = b /\ frame'[t].cmd = c /\ frame'[t].user = frame[t].user
<1> DEFINE i == IF c = "UPDEV" THEN cloud.devinfo ELSE frame[t].info
<1> DEFINE g == [frame[t] EXCEPT !.back = b, !.cmd = c, !.info = i]
<1>1. frame' = [frame EXCEPT ![t] = g]
  BY Framed DEF Request, Frames
<1> HIDE DEF i
<1>2. g.back = b /\ g.cmd = c /\ g.user = frame[t].user
  BY Framed DEF Frames
<1> HIDE DEF g
<1>3. Goto(t, "send")
  BY DEF Request
<1> QED
  BY <1>1, <1>2, <1>3, Went2

LEMMA Left ==
  ASSUME ApiTypeOK, NEW t \in Threads, NEW l, Leave(t, l)
  PROVE  pc'[t] = l /\ frame'[t] = Blank /\ Alone(t)
  BY Went2 DEF Leave

LEMMA WasDone ==
  ASSUME ApiTypeOK, NEW t \in Threads, Done(t)
  PROVE  /\ pc'[t] = frame[t].back /\ Alone(t)
         /\ frame'[t].res = frame[t].res /\ frame'[t].user = frame[t].user
<1> PICK g : g = [frame[t] EXCEPT !.back = "idle"]
  OBVIOUS
<1>1. frame' = [frame EXCEPT ![t] = g]
  BY Framed DEF Done
<1>2. g.res = frame[t].res /\ g.user = frame[t].user
  BY Framed DEF Frames
<1>3. Goto(t, frame[t].back)
  BY DEF Done
<1> QED
  BY <1>1, <1>2, <1>3, Went2

LEMMA CameBack ==
  ASSUME ApiTypeOK, NEW t \in Threads, NEW r, Return(t, r)
  PROVE  /\ pc'[t] = frame[t].back /\ Alone(t)
         /\ frame'[t].res = r /\ frame'[t].user = frame[t].user
<1> PICK g : g = [Blank EXCEPT !.res = r, !.user = frame[t].user]
  OBVIOUS
<1>1. g.res = r /\ g.user = frame[t].user
  BY DEF Blank
<1> QED
  BY <1>1, Went2 DEF Return

LEMMA ResultSet ==
  ASSUME ApiTypeOK, NEW t \in Threads, NEW r, NEW l, SetResult(t, r, l)
  PROVE  /\ pc'[t] = l /\ Alone(t)
         /\ frame'[t].res = r /\ frame'[t].user = frame[t].user
         /\ frame'[t].back = frame[t].back
<1> PICK g : g = [frame[t] EXCEPT !.res = r]
  OBVIOUS
<1>1. frame' = [frame EXCEPT ![t] = g]
  BY Framed DEF SetResult
<1>2. g.res = r /\ g.user = frame[t].user /\ g.back = frame[t].back
  BY Framed DEF Frames
<1>3. Goto(t, l)
  BY DEF SetResult
<1> QED
  BY <1>1, <1>2, <1>3, Went2

\* What a step of t leaves of the binding.
KeepsBinding ==
  /\ conf'.account = conf.account
  /\ cloud'.binded = cloud.binded /\ cloud'.account = cloud.account

LEMMA RoutineKeeps ==
  ASSUME ApiTypeOK, NEW t \in Threads, Routine(t)
  PROVE  KeepsBinding /\ lock' = lock
  BY DEF Routine, CloseTest, CloseFd, CloseClear, Socket, Connect, ConnectFails,
         HelloFd, ReadHello, Send, RequestFails, RecvFd, Recv, shared, ApiTypeOK,
         Typed, Clouds, KeepsBinding

\* A routine goes on with its own calls, or returns where it was called.
LEMMA RoutineMoves ==
  ASSUME ApiTypeOK, NEW t \in Threads, Routine(t)
  PROVE  /\ Alone(t) /\ frame'[t].user = frame[t].user
         /\ \/ /\ pc[t] \in Closes /\ frame'[t].res = frame[t].res
               /\ (pc'[t] \in Closes /\ frame'[t].back = frame[t].back)
                    \/ pc'[t] = frame[t].back
            \/ /\ pc[t] \in Connects
               /\ (pc'[t] \in Connects /\ frame'[t].back = frame[t].back)
                    \/ pc'[t] = frame[t].back
            \/ /\ pc[t] \in Requests
               /\ (pc'[t] \in Requests /\ frame'[t].back = frame[t].back
                     /\ frame'[t].cmd = frame[t].cmd)
                    \/ pc'[t] = frame[t].back
<1> USE DEF Closes, Connects, Requests
<1>1. CASE CloseTest(t) \/ CloseFd(t) \/ CloseClear(t)
  <2>1. Done(t) \/ \E l \in Closes : Goto(t, l) /\ frame' = frame
    BY <1>1 DEF CloseTest, CloseFd, CloseClear
  <2>2. pc[t] \in Closes
    BY <1>1 DEF CloseTest, CloseFd, CloseClear
  <2> QED
    BY <2>1, <2>2, WasDone, Went
<1>2. CASE Socket(t) \/ Connect(t) \/ ReadHello(t)
  <2>1. \/ \E r \in {"ok", "net"} : Return(t, r)
        \/ \E l \in Connects : Goto(t, l) /\ frame' = frame
    BY <1>2 DEF Socket, Connect, ReadHello, ConnectFails
  <2>2. pc[t] \in Connects
    BY <1>2 DEF Socket, Connect, ReadHello
  <2> QED
    BY <2>1, <2>2, CameBack, Went
<1>3. CASE HelloFd(t)
  <2> PICK g : g = [frame[t] EXCEPT !.rfd = cloud.fd]
    OBVIOUS
  <2>1. g.back = frame[t].back /\ g.user = frame[t].user
    BY Framed DEF Frames
  <2>2. frame' = [frame EXCEPT ![t] = g] /\ Goto(t, "hello") /\ pc[t] = "hello_fd"
    BY <1>3, Framed DEF HelloFd
  <2> QED
    BY ZenonT(40), <2>1, <2>2, Went2
<1>4. CASE Send(t) \/ Recv(t)
  <2>1. \/ \E r \in {"ok", "no", "net"} : Return(t, r)
        \/ \E l \in Requests : Goto(t, l) /\ frame' = frame
    BY <1>4 DEF Send, Recv, RequestFails
  <2>2. pc[t] \in Requests
    BY <1>4 DEF Send, Recv
  <2> QED
    BY <2>1, <2>2, CameBack, Went
<1>5. CASE RecvFd(t)
  <2> PICK g : g = [frame[t] EXCEPT !.rfd = cloud.fd]
    OBVIOUS
  <2>1. g.back = frame[t].back /\ g.user = frame[t].user /\ g.cmd = frame[t].cmd
    BY Framed DEF Frames
  <2>2. frame' = [frame EXCEPT ![t] = g] /\ Goto(t, "recv") /\ pc[t] = "recv_fd"
    BY <1>5, Framed DEF RecvFd
  <2> QED
    BY ZenonT(40), <2>1, <2>2, Went2
<1> QED
  BY <1>1, <1>2, <1>3, <1>4, <1>5 DEF Routine

-----------------------------------------------------------------------------
(* Where each thread may be.                                               *)
LEMMA DaemonAlone ==
  ASSUME ApiTypeOK, DaemonStep
  PROVE  Alone(Daemon)
<1> USE DaemonThread
<1>1. CASE \E l : Goto(Daemon, l) /\ frame' = frame
  BY <1>1, Went
<1>2. CASE \E l : Leave(Daemon, l)
  BY <1>2, Left
<1>3. CASE \E l, b : Call(Daemon, l, b)
  BY <1>3, Called
<1>4. CASE \E c, b : Request(Daemon, c, b)
  BY <1>4, Requested
<1>5. CASE NeedRead \/ ControlRecvFd
  BY <1>5, Went2 DEF NeedRead, ControlRecvFd, Goto, Alone, ApiTypeOK, Typed
<1>6. CASE Routine(Daemon)
  BY <1>6, RoutineMoves
<1>7. CASE Dispatch
  <2>1. cloud.status \in Statuses
    BY DEF ApiTypeOK, Typed, Clouds
  <2> QED
    BY <1>2, <1>3, <1>7, <2>1 DEF Dispatch, Statuses
<1>8. CASE ControlRecv
  BY <1>2, <1>3, <1>4, <1>8 DEF ControlRecv
<1>9. CASE WaitAgent \/ StatusInit \/ SetConnecting \/ SetDisconnected \/ SetBroken
           \/ SetConnected \/ SetUnbound \/ ClearUnbound \/ StatusConnected
           \/ NeedUpdate \/ Retry \/ Resume \/ Pace \/ Restart \/ Poll \/ PollSelect
  BY <1>1, <1>9
     DEF WaitAgent, StatusInit, SetConnecting, SetDisconnected, SetBroken, SetConnected,
         SetUnbound, SetStatus, ClearUnbound, StatusConnected, NeedUpdate, Retry, Resume,
         Pace, Restart, Poll, PollSelect
<1>10. CASE ControlLock \/ ControlPoll \/ ControlSelect \/ UnbindStatus
            \/ UnbindAccount \/ UnbindPassword
  BY <1>1, <1>10
     DEF ControlLock, ControlPoll, ControlSelect, ControlNothing, UnbindStatus, SetStatus,
         UnbindAccount, UnbindPassword
<1>11. CASE Linked \/ AuthDone \/ UpdateDone \/ NeedClear \/ RefreshDone \/ UnbindDone
            \/ Reply
  BY <1>2, <1>3, <1>4, <1>11
     DEF Linked, AuthDone, UpdateDone, NeedClear, RefreshDone, UnbindDone, Reply
<1> QED
  BY <1>5, <1>6, <1>7, <1>8, <1>9, <1>10, <1>11 DEF DaemonStep

LEMMA HandlerMoves ==
  ASSUME ApiTypeOK, NEW t \in Handlers, HandlerStep(t)
  PROVE  Alone(t) /\ pc'[t] \in HandlerLabels
<1>1. \E l \in HandlerLabels : Goto(t, l) /\ frame' = frame
  BY DEF HandlerStep, DeliverField, DeliverUpnp, DeliverNetwork, Deliver, StoreField,
         MarkField, MarkNetwork, MarkUpdate, StoreUpnp, MarkUpnp, SetRestart, SetStatus,
         HandlerLabels
<1> QED
  BY <1>1, HandlerThread, Went

LEMMA CallerAlone ==
  ASSUME ApiTypeOK, NEW t \in Callers, CallerStep(t)
  PROVE  Alone(t)
<1> USE CallerThread
<1>1. CASE \E l : Goto(t, l) /\ frame' = frame
  BY <1>1, Went
<1>2. CASE \E l, b : Call(t, l, b)
  BY <1>2, Called
<1>3. CASE \E c, b : Request(t, c, b)
  BY <1>3, Requested
<1>4. CASE \E r, l : SetResult(t, r, l)
  BY <1>4, ResultSet
<1>5. CASE Bind(t) \/ Returned(t)
  BY <1>5 DEF Bind, Returned, Goto, Alone, ApiTypeOK, Typed
<1>6. CASE Routine(t)
  BY <1>6, RoutineMoves
<1>7. CASE BindStep(t)
  BY <1>1, <1>2, <1>3, <1>4, <1>7
     DEF BindStep, BindBinded, BindStatus, BindConnect, BindLinked, BindAccount,
         BindName, BindAuthed, BindBound, BindGoesOn, BindUpdated, BindConnected,
         SetStatus, BindFlag, BindSave, BindSavePassword, SaveAccount, SavePassword,
         BindUnlock
<1>8. CASE UBind(t) \/ UBindStep(t)
  BY <1>1, <1>2, <1>3, <1>4, <1>8
     DEF UBind, UBindStep, UBindStatus, UBindLinked, UBindAuthed, UBindDone, UBindGoesOn,
         UBindFlag, UBindInit, UBindBroken, UBindOffline, SetStatus, UBindSave,
         UBindSavePassword, SaveAccount, SavePassword, UBindClose
<1>9. CASE Ping(t) \/ PingStep(t)
  BY <1>1, <1>4, <1>9
     DEF Ping, PingStep, PingAgain, PingClear, PingSet, SetStatus, PingRead
<1> QED
  BY <1>5, <1>6, <1>7, <1>8, <1>9 DEF CallerStep, CallerWork

LEMMA EnvironmentMoves ==
  ASSUME Environment
  PROVE  \/ UNCHANGED <<cloud, lock, conf, pc, frame>>
         \/ Reboot
  BY DEF Environment, AgentStarts, AgentPushes, AgentDrops

\* The labels at which no routine runs say nothing of where one returns.
LEMMA DaemonGoes ==
  ASSUME \/ pc'[Daemon] \in DaemonLabels \ UnbindLabels
         \/ "UNBIND" \in Controls /\ pc'[Daemon] \in UnbindLabels
  PROVE  DaemonPlaces'
  BY DEF DaemonPlaces, At, DaemonLabels, UnbindLabels, Closes, Connects, Requests

LEMMA DaemonCloses ==
  ASSUME pc'[Daemon] = "close_test",
         frame'[Daemon].back \in {"retry", "poll", "restart", "to_disconnected"}
  PROVE  DaemonPlaces'
  BY DEF DaemonPlaces, At, Back, RoutineLabels, Closes, Connects, Requests

LEMMA DaemonRequests ==
  ASSUME pc'[Daemon] = "send",
         \/ frame'[Daemon].back \in {"auth_done", "update_done", "refresh_done"}
         \/ "UNBIND" \in Controls /\ frame'[Daemon].back = "unbind_done"
  PROVE  DaemonPlaces'
  BY DEF DaemonPlaces, At, Back, RoutineLabels, Closes, Connects, Requests

\* No request but one the agent pushes is found in a packet.
LEMMA ContentsPushed ==
  ASSUME ApiTypeOK, NEW f \in Fds, sock[f].in # <<>>,
         NEW d \in Contents(Head(sock[f].in))
  PROVE  d \in Controls \cup {"NONE"}
<1> PICK p \in Packets : p = Head(sock[f].in)
  BY DEF ApiTypeOK, Typed, Sockets
<1>1. \/ p = Hello
      \/ \E c \in Controls : p = Control(c)
      \/ \E t \in Threads, c \in Commands, ok \in BOOLEAN : p = Answer(t, c, ok)
  BY DEF Packets
<1>2. p.kind = "control" => p.cmd \in Controls
  <2>1. Hello.kind # "control"
    BY DEF Hello, Packet
  <2>2. \A c : Control(c).cmd = c
    BY DEF Control, Packet
  <2>3. \A t, c, ok : Answer(t, c, ok).kind # "control"
    BY DEF Answer, Packet
  <2> QED
    BY <1>1, <2>1, <2>2, <2>3
<1> QED
  BY <1>2 DEF Contents

LEMMA DaemonPlacesStep ==
  ASSUME ApiTypeOK, DaemonPlaces, DaemonStep
  PROVE  DaemonPlaces'
<1> USE DaemonThread
<1>1. CASE Routine(Daemon)
  <2>1. pc[Daemon] \in Closes /\ frame[Daemon].back \in {"retry", "poll", "restart", "to_disconnected"}
          => DaemonPlaces'
    BY <1>1, RoutineMoves
       DEF DaemonPlaces, At, Back, DaemonLabels, UnbindLabels, RoutineLabels,
           Closes, Connects, Requests
  <2>2. pc[Daemon] \in Connects /\ frame[Daemon].back = "linked" => DaemonPlaces'
    BY <1>1, RoutineMoves
       DEF DaemonPlaces, At, Back, DaemonLabels, UnbindLabels, RoutineLabels,
           Closes, Connects, Requests
  <2>3. /\ pc[Daemon] \in Requests
        /\ \/ frame[Daemon].back \in {"auth_done", "update_done", "refresh_done"}
           \/ "UNBIND" \in Controls /\ frame[Daemon].back = "unbind_done"
        => DaemonPlaces'
    BY <1>1, RoutineMoves
       DEF DaemonPlaces, At, Back, DaemonLabels, UnbindLabels, RoutineLabels,
           Closes, Connects, Requests
  <2>4. pc[Daemon] \in Closes \/ pc[Daemon] \in Connects \/ pc[Daemon] \in Requests
    BY <1>1, RoutineMoves
  <2> QED
    BY <2>1, <2>2, <2>3, <2>4 DEF DaemonPlaces, At, Back
<1>2. CASE WaitAgent \/ StatusInit \/ SetConnecting \/ SetDisconnected \/ SetBroken
           \/ SetConnected \/ SetUnbound \/ ClearUnbound \/ StatusConnected
           \/ NeedUpdate \/ Retry \/ Resume \/ Pace \/ Restart \/ Poll \/ PollSelect
           \/ ControlLock \/ ControlPoll \/ ControlSelect
  <2>1. \E l \in DaemonLabels \ UnbindLabels : Goto(Daemon, l) /\ frame' = frame
    BY <1>2
       DEF WaitAgent, StatusInit, SetConnecting, SetDisconnected, SetBroken,
           SetConnected, SetUnbound, SetStatus, ClearUnbound, StatusConnected,
           NeedUpdate, Retry, Resume, Pace, Restart, Poll, PollSelect, ControlLock,
           ControlPoll, ControlSelect, ControlNothing, DaemonLabels, UnbindLabels
  <2> QED
    BY <2>1, Went, DaemonGoes
<1>3. CASE NeedRead \/ ControlRecvFd
  BY <1>3, DaemonGoes
     DEF NeedRead, ControlRecvFd, Goto, ApiTypeOK, Typed, DaemonLabels, UnbindLabels
<1>4. CASE Dispatch
  <2>1. cloud.status \in Statuses
    BY DEF ApiTypeOK, Typed, Clouds
  <2>2. \/ \E l \in {"init", "connected"} : Leave(Daemon, l)
        \/ Call(Daemon, "socket", "linked")
        \/ \E b \in {"retry", "poll", "restart"} : Call(Daemon, "close_test", b)
    BY <1>4, <2>1 DEF Dispatch, Statuses
  <2>3. CASE \E l \in {"init", "connected"} : Leave(Daemon, l)
    BY <2>3, Left, DaemonGoes DEF DaemonLabels, UnbindLabels
  <2>4. CASE Call(Daemon, "socket", "linked")
    BY <2>4, Called
       DEF DaemonPlaces, At, Back, RoutineLabels, Closes, Connects, Requests
  <2>5. CASE \E b \in {"retry", "poll", "restart"} : Call(Daemon, "close_test", b)
    BY <2>5, Called, DaemonCloses
  <2> QED
    BY <2>2, <2>3, <2>4, <2>5
<1>5. CASE Linked \/ AuthDone \/ UpdateDone \/ NeedClear \/ RefreshDone
  <2>1. \/ \E l \in DaemonLabels \ UnbindLabels : Leave(Daemon, l)
        \/ \E c, b : b \in {"auth_done", "update_done", "refresh_done"} /\ Request(Daemon, c, b)
    BY <1>5
       DEF Linked, AuthDone, UpdateDone, NeedClear, RefreshDone, DaemonLabels,
           UnbindLabels
  <2> QED
    BY <2>1, Left, Requested, DaemonGoes, DaemonRequests
<1>6. CASE ControlRecv
  <2>1. \/ "UNBIND" \in Controls /\ Request(Daemon, "UBINDEV", "unbind_done")
        \/ \E l \in {"top", "reply"} : Leave(Daemon, l)
        \/ Call(Daemon, "close_test", "to_disconnected")
    BY <1>6, ContentsPushed DEF ControlRecv, HasPacket
  <2> QED
    BY <2>1, Left, Requested, Called, DaemonGoes, DaemonRequests, DaemonCloses
       DEF DaemonLabels, UnbindLabels
<1>7. CASE Reply
  BY <1>7, Left, Called, DaemonGoes, DaemonCloses DEF Reply, DaemonLabels, UnbindLabels
<1>8. CASE UnbindDone \/ UnbindStatus \/ UnbindAccount \/ UnbindPassword
  <2>1. pc[Daemon] \in UnbindLabels
    BY <1>8 DEF UnbindDone, UnbindStatus, SetStatus, UnbindAccount, UnbindPassword,
                UnbindLabels
  <2>2. "UNBIND" \in Controls
    BY <2>1 DEF DaemonPlaces, At, UnbindLabels, RoutineLabels, DaemonLabels
  <2>3. \E l \in DaemonLabels : Leave(Daemon, l) \/ (Goto(Daemon, l) /\ frame' = frame)
    BY <1>8 DEF UnbindDone, UnbindStatus, SetStatus, UnbindAccount, UnbindPassword,
                DaemonLabels
  <2> QED
    BY <2>2, <2>3, Left, Went, DaemonGoes
<1> QED
  BY <1>1, <1>2, <1>3, <1>4, <1>5, <1>6, <1>7, <1>8 DEF DaemonStep

LEMMA CallerGoes ==
  ASSUME NEW t \in Callers,
         \/ pc'[t] \in {"idle", "return"} \cup BindLabels
         \/ "UBind" \in Ops /\ pc'[t] \in UBindLabels
         \/ "Ping" \in Ops /\ pc'[t] \in PingLabels
  PROVE  CallerPlaces(t)'
  BY DEF CallerPlaces, BindLabels, UBindLabels, PingLabels, Closes, Connects, Requests

LEMMA CallerCloses ==
  ASSUME NEW t \in Callers, pc'[t] = "close_test",
         \/ frame'[t].back \in {"bind_connect", "bind_unlock"}
         \/ "UBind" \in Ops /\ frame'[t].back = "return"
  PROVE  CallerPlaces(t)'
  BY DEF CallerPlaces, RoutineLabels, Closes, Connects, Requests

LEMMA CallerConnects ==
  ASSUME NEW t \in Callers, pc'[t] = "socket",
         \/ frame'[t].back = "bind_linked"
         \/ "UBind" \in Ops /\ frame'[t].back = "ubind_linked"
  PROVE  CallerPlaces(t)'
  BY DEF CallerPlaces, RoutineLabels, Closes, Connects, Requests

LEMMA CallerRequests ==
  ASSUME NEW t \in Callers, pc'[t] = "send",
         \/ frame'[t].back \in {"bind_authed", "bind_bound", "bind_updated"}
         \/ "UBind" \in Ops /\ frame'[t].back \in {"ubind_authed", "ubind_done"}
  PROVE  CallerPlaces(t)'
  BY DEF CallerPlaces, RoutineLabels, Closes, Connects, Requests

LEMMA CallerPlacesStep ==
  ASSUME ApiTypeOK, NEW t \in Callers, CallerPlaces(t), CallerStep(t)
  PROVE  CallerPlaces(t)'
<1> USE CallerThread
<1>1. CASE Routine(t)
  <2>1. /\ pc[t] \in Closes
        /\ \/ frame[t].back \in {"bind_connect", "bind_unlock"}
           \/ "UBind" \in Ops /\ frame[t].back = "return"
        => CallerPlaces(t)'
    BY <1>1, RoutineMoves
       DEF CallerPlaces, BindLabels, UBindLabels, RoutineLabels, Closes, Connects,
           Requests
  <2>2. /\ pc[t] \in Connects
        /\ \/ frame[t].back = "bind_linked"
           \/ "UBind" \in Ops /\ frame[t].back = "ubind_linked"
        => CallerPlaces(t)'
    BY <1>1, RoutineMoves
       DEF CallerPlaces, BindLabels, UBindLabels, RoutineLabels, Closes, Connects,
           Requests
  <2>3. /\ pc[t] \in Requests
        /\ \/ frame[t].back \in {"bind_authed", "bind_bound", "bind_updated"}
           \/ "UBind" \in Ops /\ frame[t].back \in {"ubind_authed", "ubind_done"}
        => CallerPlaces(t)'
    BY <1>1, RoutineMoves
       DEF CallerPlaces, BindLabels, UBindLabels, RoutineLabels, Closes, Connects,
           Requests
  <2>4. pc[t] \in Closes \/ pc[t] \in Connects \/ pc[t] \in Requests
    BY <1>1, RoutineMoves
  <2> QED
    BY <2>1, <2>2, <2>3, <2>4 DEF CallerPlaces
<1>2. CASE Bind(t) \/ Returned(t)
  <2>1. pc'[t] \in {"idle", "bind_binded"}
    BY <1>2 DEF Bind, Returned, Goto, ApiTypeOK, Typed
  <2> QED
    BY <2>1, CallerGoes DEF BindLabels
<1>3. CASE BindStep(t)
  <2>1. \/ \E l \in BindLabels \cup {"return"} : Goto(t, l) /\ frame' = frame
        \/ \E r, l : l \in BindLabels \cup {"return"} /\ SetResult(t, r, l)
        \/ \E b \in {"bind_connect", "bind_unlock"} : Call(t, "close_test", b)
        \/ Call(t, "socket", "bind_linked")
        \/ \E c, b : b \in {"bind_authed", "bind_bound", "bind_updated"} /\ Request(t, c, b)
    BY <1>3
       DEF BindStep, BindBinded, BindStatus, BindConnect, BindLinked, BindAccount,
           BindName, BindAuthed, BindBound, BindGoesOn, BindUpdated, BindConnected,
           SetStatus, BindFlag, BindSave, BindSavePassword, SaveAccount, SavePassword,
           BindUnlock, BindLabels
  <2> QED
    BY <2>1, Went, ResultSet, Called, Requested, CallerGoes, CallerCloses,
       CallerConnects, CallerRequests
<1>4. CASE UBind(t) \/ UBindStep(t)
  <2>1. "UBind" \in Ops
    <3>1. "UBind" \in Ops \/ pc[t] \in UBindLabels
      BY <1>4
         DEF UBind, UBindStep, UBindStatus, UBindLinked, UBindAuthed, UBindDone,
             UBindGoesOn, UBindFlag, UBindInit, UBindBroken, UBindOffline, SetStatus,
             UBindSave, UBindSavePassword, SaveAccount, SavePassword, UBindClose,
             UBindLabels
    <3> QED
      BY <3>1
         DEF CallerPlaces, BindLabels, UBindLabels, PingLabels, RoutineLabels
  <2>2. \/ \E l \in UBindLabels : Goto(t, l) /\ frame' = frame
        \/ \E r : SetResult(t, r, "return")
        \/ Call(t, "close_test", "return")
        \/ Call(t, "socket", "ubind_linked")
        \/ \E c, b : b \in {"ubind_authed", "ubind_done"} /\ Request(t, c, b)
    BY <1>4
       DEF UBind, UBindStep, UBindStatus, UBindLinked, UBindAuthed, UBindDone,
           UBindGoesOn, UBindFlag, UBindInit, UBindBroken, UBindOffline, SetStatus,
           UBindSave, UBindSavePassword, SaveAccount, SavePassword, UBindClose,
           UBindLabels
  <2> QED
    BY <2>1, <2>2, Went, ResultSet, Called, Requested, CallerGoes, CallerCloses,
       CallerConnects, CallerRequests
<1>5. CASE Ping(t) \/ PingStep(t)
  <2>1. "Ping" \in Ops
    <3>1. "Ping" \in Ops \/ pc[t] \in PingLabels
      BY <1>5 DEF Ping, PingStep, PingAgain, PingClear, PingSet, SetStatus, PingRead,
                  PingLabels
    <3> QED
      BY <3>1
         DEF CallerPlaces, BindLabels, UBindLabels, PingLabels, RoutineLabels
  <2>2. \/ \E l \in PingLabels : Goto(t, l) /\ frame' = frame
        \/ \E r : SetResult(t, r, "return")
    BY <1>5 DEF Ping, PingStep, PingAgain, PingClear, PingSet, SetStatus, PingRead,
                PingLabels
  <2> QED
    BY <2>1, <2>2, Went, ResultSet, CallerGoes
<1> QED
  BY <1>1, <1>2, <1>3, <1>4, <1>5 DEF CallerStep, CallerWork

\* What belongs to a thread stays while another moves.
LEMMA PlacesStep ==
  ASSUME ApiTypeOK, Places, [ApiNext]_vars
  PROVE  Places'
<1> USE DaemonThread, HandlerThread, CallerThread
<1>1. CASE DaemonStep
  <2>1. DaemonPlaces'
    BY <1>1, DaemonPlacesStep DEF Places
  <2>2. \A t \in Callers : CallerPlaces(t)'
    BY <1>1, DaemonAlone DEF Alone, Places, CallerPlaces
  <2>3. \A t \in Handlers : pc'[t] \in HandlerLabels
    BY <1>1, DaemonAlone DEF Alone, Places
  <2> QED
    BY <2>1, <2>2, <2>3 DEF Places
<1>2. ASSUME NEW h \in Handlers, HandlerStep(h)
      PROVE  Places'
  <2>1. DaemonPlaces'
    BY <1>2, HandlerMoves DEF Alone, Places, DaemonPlaces, At, Back
  <2>2. \A t \in Callers : CallerPlaces(t)'
    BY <1>2, HandlerMoves DEF Alone, Places, CallerPlaces
  <2>3. \A t \in Handlers : pc'[t] \in HandlerLabels
    BY <1>2, HandlerMoves DEF Alone, Places
  <2> QED
    BY <2>1, <2>2, <2>3 DEF Places
<1>3. ASSUME NEW c \in Callers, CallerStep(c)
      PROVE  Places'
  <2>1. DaemonPlaces'
    BY <1>3, CallerAlone DEF Alone, Places, DaemonPlaces, At, Back
  <2>2. \A t \in Callers : CallerPlaces(t)'
    <3>1. CallerPlaces(c)'
      BY <1>3, CallerPlacesStep DEF Places
    <3> QED
      BY <1>3, <3>1, CallerAlone DEF Alone, Places, CallerPlaces
  <2>3. \A t \in Handlers : pc'[t] \in HandlerLabels
    BY <1>3, CallerAlone DEF Alone, Places
  <2> QED
    BY <2>1, <2>2, <2>3 DEF Places
<1>4. CASE Environment
  <2>1. CASE UNCHANGED <<cloud, lock, conf, pc, frame>>
    BY <2>1 DEF Places, DaemonPlaces, CallerPlaces, At, Back
  <2>2. CASE Reboot
    BY <2>2 DEF Reboot, Started, Places, DaemonPlaces, CallerPlaces, At, Back,
                DaemonLabels, UnbindLabels, HandlerLabels, Closes, Connects, Requests
  <2> QED
    BY <1>4, <2>1, <2>2, EnvironmentMoves
<1>5. CASE UNCHANGED vars
  BY <1>5 DEF vars, Places, DaemonPlaces, CallerPlaces, At, Back
<1> QED
  BY <1>1, <1>2, <1>3, <1>4, <1>5 DEF ApiNext, Next

LEMMA PlacesInit == Init => Places
  BY DaemonThread, HandlerThread, CallerThread
     DEF Init, Started, Places, DaemonPlaces, CallerPlaces, At, Back, DaemonLabels,
         UnbindLabels, HandlerLabels, Closes, Connects, Requests

-----------------------------------------------------------------------------
(* The binding and its saved copy.                                         *)
SaveLabels == {"bind_save", "ubind_init", "ubind_save"}

LEMMA SavingCaller ==
  ASSUME OneWriter, Places, NEW t \in Threads
  PROVE  Saving(t) <=> t \in Callers /\ pc[t] \in SaveLabels
<1>1. t = Daemon \/ t \in Handlers \/ t \in Callers
  BY DEF Threads
<1>2. CASE t = Daemon
  BY <1>2, ThreadAssumption
     DEF OneWriter, Places, DaemonPlaces, At, RoutineLabels, DaemonLabels,
         UnbindLabels, Saving
<1>3. CASE t \in Handlers
  BY <1>3, HandlerThread DEF Places, HandlerLabels, Saving
<1>4. CASE t \in Callers
  BY <1>4 DEF Places, CallerPlaces, RoutineLabels, BindLabels, UBindLabels,
              PingLabels, Saving, SaveLabels
<1> QED
  BY <1>1, <1>2, <1>3, <1>4

LEMMA SavingNext ==
  ASSUME OneWriter, Places', NEW t \in Threads
  PROVE  Saving(t)' <=> t \in Callers /\ pc'[t] \in SaveLabels
<1>1. t = Daemon \/ t \in Handlers \/ t \in Callers
  BY DEF Threads
<1>2. CASE t = Daemon
  BY <1>2, ThreadAssumption
     DEF OneWriter, Places, DaemonPlaces, At, RoutineLabels, DaemonLabels,
         UnbindLabels, Saving
<1>3. CASE t \in Handlers
  BY <1>3, HandlerThread DEF Places, HandlerLabels, Saving
<1>4. CASE t \in Callers
  BY <1>4 DEF Places, CallerPlaces, RoutineLabels, BindLabels, UBindLabels,
              PingLabels, Saving, SaveLabels
<1> QED
  BY <1>1, <1>2, <1>3, <1>4

\* A step that does not write the binding, by a thread that is not between its
\* two stores.
LEMMA KeepsMatched ==
  ASSUME OneWriter, Places, Places', ConfMatchesBinding, KeepsBinding,
         NEW t \in Threads, Alone(t), pc[t] \notin SaveLabels
  PROVE  ConfMatchesBinding'
<1> SUFFICES ASSUME \A u \in Threads : ~Saving(u)'
             PROVE  (cloud.binded <=> conf.account # NoUser)'
  BY DEF ConfMatchesBinding
<1>1. \A u \in Threads : ~Saving(u)
  BY SavingCaller, SavingNext DEF Alone
<1> QED
  BY <1>1 DEF ConfMatchesBinding, KeepsBinding

LEMMA KeepsWriting ==
  ASSUME NEW u \in Threads, pc'[u] = pc[u], frame'[u] = frame[u], KeepsBinding, Writing(u)
  PROVE  Writing(u)'
  BY DEF Writing, Binds, KeepsBinding

LEMMA DaemonKeeps ==
  ASSUME OneWriter, ApiTypeOK, Places, DaemonStep
  PROVE  KeepsBinding /\ pc[Daemon] \notin SaveLabels
<1>1. cloud \in Clouds
  BY DEF ApiTypeOK, Typed
<1>2. pc[Daemon] \notin UnbindLabels /\ pc[Daemon] \notin SaveLabels
  BY DEF OneWriter, Places, DaemonPlaces, At, RoutineLabels, DaemonLabels,
         UnbindLabels, SaveLabels
<1>3. KeepsBinding
  <2>1. CASE Routine(Daemon)
    BY <2>1, DaemonThread, RoutineKeeps
  <2>2. CASE UnbindDone \/ UnbindStatus \/ UnbindAccount \/ UnbindPassword
    BY <1>2, <2>2
       DEF UnbindDone, UnbindStatus, SetStatus, UnbindAccount, UnbindPassword,
           UnbindLabels
  <2>3. CASE WaitAgent \/ Dispatch \/ StatusInit \/ Linked \/ AuthDone \/ UpdateDone
             \/ StatusConnected \/ NeedUpdate \/ NeedRead \/ RefreshDone \/ Poll
             \/ PollSelect \/ ControlLock \/ ControlPoll \/ ControlSelect
             \/ ControlRecvFd \/ ControlRecv \/ Reply
    BY <2>3
       DEF WaitAgent, Dispatch, StatusInit, Linked, AuthDone, UpdateDone,
           StatusConnected, NeedUpdate, NeedRead, RefreshDone, Poll, PollSelect,
           ControlLock, ControlPoll, ControlSelect, ControlRecvFd, ControlRecv, Reply,
           shared, KeepsBinding
  <2>4. CASE SetConnecting \/ SetDisconnected \/ SetBroken \/ SetConnected
             \/ SetUnbound \/ Resume \/ ClearUnbound \/ NeedClear \/ Retry \/ Pace
             \/ Restart
    BY <1>1, <2>4
       DEF SetConnecting, SetDisconnected, SetBroken, SetConnected, SetUnbound, Resume,
           SetStatus, ClearUnbound, NeedClear, Retry, Pace, Restart, ClearedCounters,
           Clouds, KeepsBinding
  <2> QED
    BY <2>1, <2>2, <2>3, <2>4 DEF DaemonStep
<1> QED
  BY <1>2, <1>3

LEMMA HandlerKeeps ==
  ASSUME ApiTypeOK, Places, NEW t \in Handlers, HandlerStep(t)
  PROVE  KeepsBinding /\ pc[t] \notin SaveLabels
<1>1. cloud \in Clouds
  BY DEF ApiTypeOK, Typed
<1>2. pc[t] \notin SaveLabels
  BY DEF Places, HandlerLabels, SaveLabels
<1> QED
  BY <1>1, <1>2
     DEF HandlerStep, DeliverField, DeliverUpnp, DeliverNetwork, Deliver, StoreField,
         MarkField, MarkNetwork, MarkUpdate, StoreUpnp, MarkUpnp, SetRestart, SetStatus,
         shared, Clouds, KeepsBinding

LEMMA CallerKeeps ==
  ASSUME ApiTypeOK, NEW t \in Callers, CallerStep(t),
         ~(BindAccount(t) \/ BindFlag(t) \/ BindSave(t) \/ UBindFlag(t) \/ UBindSave(t))
  PROVE  KeepsBinding
<1>1. cloud \in Clouds /\ conf \in [account : Users \cup {NoUser}, password : Users \cup {NoUser}]
  BY DEF ApiTypeOK, Typed
<1>2. CASE Routine(t)
  BY <1>2, CallerThread, RoutineKeeps
<1>3. CASE Bind(t) \/ BindStep(t)
  BY <1>1, <1>3
     DEF Bind, BindStep, BindBinded, BindStatus, BindConnect, BindLinked, BindName,
         BindAuthed, BindBound, BindGoesOn, BindUpdated, BindConnected, SetStatus,
         BindSavePassword, SavePassword, BindUnlock, shared, Clouds, KeepsBinding
<1>4. CASE UBind(t) \/ UBindStep(t)
  BY <1>1, <1>4
     DEF UBind, UBindStep, UBindStatus, UBindLinked, UBindAuthed, UBindDone, UBindGoesOn,
         UBindInit, UBindBroken, UBindOffline, SetStatus, UBindSavePassword,
         SavePassword, UBindClose, shared, Clouds, KeepsBinding
<1>5. CASE Ping(t) \/ PingStep(t)
  BY <1>1, <1>5
     DEF Ping, PingStep, PingAgain, PingClear, PingSet, SetStatus, PingRead,
         ClearedCounters, shared, Clouds, KeepsBinding
<1>6. CASE Returned(t)
  BY <1>6 DEF Returned, shared, KeepsBinding
<1> QED
  BY <1>2, <1>3, <1>4, <1>5, <1>6 DEF CallerStep, CallerWork

LEMMA SavesByLabel ==
  ASSUME NEW t \in Callers, CallerStep(t), pc[t] \in SaveLabels
  PROVE  BindSave(t) \/ UBindInit(t) \/ UBindSave(t)
<1>1. CASE Routine(t) \/ Bind(t) \/ UBind(t) \/ Ping(t) \/ PingStep(t) \/ Returned(t)
  BY <1>1
     DEF Routine, CloseTest, CloseFd, CloseClear, Socket, Connect, HelloFd, ReadHello,
         Send, RecvFd, Recv, Bind, UBind, Ping, PingStep, PingAgain, PingClear, PingSet,
         SetStatus, PingRead, Returned, SaveLabels
<1>2. CASE BindStep(t)
  BY <1>2
     DEF BindStep, BindBinded, BindStatus, BindConnect, BindLinked, BindAccount,
         BindName, BindAuthed, BindBound, BindGoesOn, BindUpdated, BindConnected,
         SetStatus, BindFlag, BindSavePassword, SavePassword, BindUnlock, SaveLabels
<1>3. CASE UBindStep(t)
  BY <1>3
     DEF UBindStep, UBindStatus, UBindLinked, UBindAuthed, UBindDone, UBindGoesOn,
         UBindFlag, UBindBroken, UBindOffline, SetStatus, UBindSavePassword,
         SavePassword, UBindClose, SaveLabels
<1> QED
  BY <1>1, <1>2, <1>3 DEF CallerStep, CallerWork

\* What a call knows of the binding after its own step.
LEMMA OwnWriting ==
  ASSUME ApiTypeOK, NEW t \in Callers, CallerPlaces(t), Writing(t), CallerStep(t)
  PROVE  Writing(t)'
<1> USE CallerThread
<1>1. cloud \in Clouds
  BY DEF ApiTypeOK, Typed
<1>2. CASE Routine(t)
  <2>1. KeepsBinding
    BY <1>2, RoutineKeeps
  <2>2. pc[t] \in RoutineLabels
    BY <1>2, RoutineMoves DEF Closes, Connects, Requests, RoutineLabels
  <2>3. \/ pc'[t] \in RoutineLabels /\ frame'[t].back = frame[t].back
        \/ pc'[t] = frame[t].back
    BY <1>2, RoutineMoves DEF Closes, Connects, Requests, RoutineLabels
  <2>4. frame[t].back \notin SaveLabels /\ frame[t].back \notin RoutineLabels
    BY <2>2 DEF CallerPlaces, RoutineLabels, Closes, Connects, Requests, SaveLabels
  <2>5. pc'[t] \notin SaveLabels
    BY <2>3, <2>4 DEF RoutineLabels, SaveLabels
  <2>6. frame'[t].user = frame[t].user
    BY <1>2, RoutineMoves
  <2>9. \A l \in RoutineLabels : l \notin BindLabels /\ l \notin Named
    BY DEF RoutineLabels, BindLabels, Named
  <2>7. Binds(t)' => Binds(t)
    BY <2>2, <2>3, <2>4, <2>9 DEF Binds
  <2>8. pc'[t] \in Named \/ (pc'[t] \in RoutineLabels /\ frame'[t].back \in Named) =>
          pc[t] \in RoutineLabels /\ frame[t].back \in Named
    BY <2>2, <2>3, <2>4, <2>9
  <2> QED
    BY <2>1, <2>5, <2>6, <2>7, <2>8 DEF Writing, KeepsBinding, SaveLabels
<1>3. CASE Bind(t)
  <2>1. pc'[t] = "bind_binded" /\ frame'[t].user # NoUser
    <3> PICK u \in Users : frame' = [frame EXCEPT ![t].user = u]
      BY <1>3 DEF Bind
    <3> PICK g : g = [frame[t] EXCEPT !.user = u]
      OBVIOUS
    <3>1. g.user = u
      BY Framed DEF Frames
    <3>2. frame' = [frame EXCEPT ![t] = g] /\ Goto(t, "bind_binded")
      BY <1>3, Framed DEF Bind
    <3>3. pc'[t] = "bind_binded" /\ frame'[t] = g
      BY <3>2, Went2
    <3> QED
      BY <3>1, <3>3, UserAssumption
  <2> QED
    BY <2>1 DEF Writing, Named, RoutineLabels
<1>4. CASE BindAccount(t)
  BY <1>1, <1>4, Went DEF BindAccount, Writing, Binds, Named, BindLabels, RoutineLabels, Clouds
<1>5. CASE BindFlag(t)
  BY <1>1, <1>5, Went DEF BindFlag, Writing, Binds, Named, BindLabels, RoutineLabels, Clouds
<1>6. CASE BindStep(t) /\ ~BindAccount(t) /\ ~BindFlag(t)
  <2>1. cloud'.account = cloud.account
    BY <1>1, <1>6, CallerKeeps
       DEF BindStep, BindSave, SaveAccount, UBindFlag, UBindSave, KeepsBinding,
           CallerStep, CallerWork, BindBinded, BindStatus, BindConnect, BindLinked,
           BindName, BindAuthed, BindBound, BindGoesOn, BindUpdated, BindConnected,
           SetStatus, BindSavePassword, SavePassword, BindUnlock, shared, Clouds
  <2>2. \/ \E l \in BindLabels \cup {"return"} : Goto(t, l) /\ frame' = frame
        \/ \E r, l : l \in BindLabels \cup {"return"} /\ SetResult(t, r, l)
        \/ \E l, b : b \in BindLabels /\ Call(t, l, b)
        \/ \E c, b : b \in BindLabels /\ Request(t, c, b)
    BY <1>6
       DEF BindStep, BindBinded, BindStatus, BindConnect, BindLinked, BindName,
           BindAuthed, BindBound, BindGoesOn, BindUpdated, BindConnected, SetStatus,
           BindSave, BindSavePassword, SaveAccount, SavePassword, BindUnlock, BindLabels
  <2>3. frame'[t].user = frame[t].user
    BY <2>2, Went, ResultSet, Called, Requested
  <2>4. Binds(t)
    BY <1>6
       DEF BindStep, BindBinded, BindStatus, BindConnect, BindLinked, BindName,
           BindAuthed, BindBound, BindGoesOn, BindUpdated, BindConnected, SetStatus,
           BindSave, BindSavePassword, SaveAccount, SavePassword, BindUnlock, BindLabels,
           Binds
  <2>5. \/ pc'[t] \notin Named /\ ~(pc'[t] \in RoutineLabels /\ frame'[t].back \in Named)
        \/ pc[t] \in Named
    BY <1>6, Went, ResultSet, Called, Requested
       DEF BindStep, BindBinded, BindStatus, BindConnect, BindLinked, BindName,
           BindAuthed, BindBound, BindGoesOn, BindUpdated, BindConnected, SetStatus,
           BindSave, BindSavePassword, SaveAccount, SavePassword, BindUnlock, Named,
           RoutineLabels
  <2>6. pc'[t] \notin SaveLabels
    BY <1>6, Went, ResultSet, Called, Requested
       DEF BindStep, BindBinded, BindStatus, BindConnect, BindLinked, BindName,
           BindAuthed, BindBound, BindGoesOn, BindUpdated, BindConnected, SetStatus,
           BindSave, BindSavePassword, SaveAccount, SavePassword, BindUnlock, SaveLabels
  <2> QED
    BY <2>1, <2>3, <2>4, <2>5, <2>6 DEF Writing, SaveLabels
<1>7. CASE UBindFlag(t) \/ UBindInit(t)
  BY <1>1, <1>7, Went
     DEF UBindFlag, UBindInit, SetStatus, Writing, Binds, Named, BindLabels,
         RoutineLabels, Clouds
<1>8. CASE UBind(t) \/ (UBindStep(t) /\ ~UBindFlag(t) /\ ~UBindInit(t)) \/ Ping(t) \/ PingStep(t)
           \/ Returned(t)
  <2>1. \/ \E l \in UBindLabels \cup PingLabels \cup {"return"} : l \notin SaveLabels /\ Goto(t, l) /\ frame' = frame
        \/ \E r : SetResult(t, r, "return")
        \/ \E l, b : b \in UBindLabels \cup {"return"} /\ l \in RoutineLabels /\ Call(t, l, b)
        \/ \E c, b : b \in UBindLabels /\ Request(t, c, b)
        \/ pc' = [pc EXCEPT ![t] = "idle"]
    BY <1>8
       DEF UBind, UBindStep, UBindStatus, UBindLinked, UBindAuthed, UBindDone,
           UBindGoesOn, UBindBroken, UBindOffline, SetStatus, UBindSave,
           UBindSavePassword, SaveAccount, SavePassword, UBindClose, Ping, PingStep,
           PingAgain, PingClear, PingSet, PingRead, Returned, UBindLabels, PingLabels,
           RoutineLabels, SaveLabels
  <2>2. pc'[t] = "idle" \/ pc'[t] \in (UBindLabels \cup PingLabels \cup {"return"}) \ SaveLabels
          \/ (pc'[t] \in RoutineLabels /\ frame'[t].back \in UBindLabels \cup {"return"})
    <3>1. CASE \E l \in UBindLabels \cup PingLabels \cup {"return"} :
                 l \notin SaveLabels /\ Goto(t, l) /\ frame' = frame
      BY <3>1, Went
    <3>2. CASE \E r : SetResult(t, r, "return")
      BY <3>2, ResultSet DEF SaveLabels
    <3>3. CASE \E l, b : b \in UBindLabels \cup {"return"} /\ l \in RoutineLabels /\ Call(t, l, b)
      BY <3>3, Called
    <3>4. CASE \E c, b : b \in UBindLabels /\ Request(t, c, b)
      BY <3>4, Requested DEF RoutineLabels
    <3>5. CASE pc' = [pc EXCEPT ![t] = "idle"]
      BY <3>5 DEF ApiTypeOK, Typed
    <3> QED
      BY <2>1, <3>1, <3>2, <3>3, <3>4, <3>5
  <2> QED
    BY <2>2 DEF Writing, Binds, Named, BindLabels, UBindLabels, PingLabels,
                RoutineLabels, SaveLabels
<1> QED
  BY <1>2, <1>3, <1>4, <1>5, <1>6, <1>7, <1>8 DEF CallerStep, CallerWork

LEMMA CallerWrites ==
  ASSUME OneWriter, ApiTypeOK, Places, Places', WriterInv, NEW t \in Callers, CallerStep(t)
  PROVE  WriterInv'
<1> USE CallerThread
<1>1. cloud \in Clouds /\ conf \in [account : Users \cup {NoUser}, password : Users \cup {NoUser}]
  BY DEF ApiTypeOK, Typed
<1>2. Alone(t)
  BY CallerAlone
<1>3. Writing(t)'
  BY OwnWriting DEF Places, WriterInv
<1>4. pc[t] \in UBindLabels => \A u \in Callers : u = t
  BY DEF OneWriter, Places, CallerPlaces, BindLabels, UBindLabels, PingLabels,
         RoutineLabels
<1>5. \A u \in Callers : pc[u] \in UBindLabels => u = t
  BY DEF OneWriter, Places, CallerPlaces, BindLabels, UBindLabels, PingLabels,
         RoutineLabels
<1>6. \A u \in Callers : u # t => Writing(u)'
  <2> SUFFICES ASSUME NEW u \in Callers, u # t PROVE Writing(u)'
    OBVIOUS
  <2>1. pc'[u] = pc[u] /\ frame'[u] = frame[u] /\ Writing(u)
    BY <1>2 DEF Alone, WriterInv
  <2>2. CASE KeepsBinding
    BY <2>1, <2>2, KeepsWriting
  <2>3. CASE BindAccount(t)
    <3>1. frame[t].user # NoUser
      BY <2>3 DEF WriterInv, Writing, Binds, BindAccount, BindLabels
    <3>2. cloud'.account # NoUser /\ cloud'.binded = cloud.binded
      BY <1>1, <2>3, <3>1 DEF BindAccount, Clouds
    <3> QED
      BY <2>1, <3>2 DEF Writing, Binds
  <2>4. CASE BindFlag(t)
    <3>1. cloud'.account = cloud.account /\ cloud'.binded
      BY <1>1, <2>4 DEF BindFlag, Clouds
    <3>2. pc[u] \notin {"ubind_init", "ubind_save"}
      BY <1>5 DEF UBindLabels
    <3> QED
      BY <2>1, <3>1, <3>2 DEF Writing, Binds
  <2>5. CASE BindSave(t) \/ UBindSave(t)
    <3>1. cloud' = cloud
      BY <2>5 DEF BindSave, UBindSave, SaveAccount
    <3> QED
      BY <2>1, <3>1 DEF Writing, Binds
  <2>6. CASE UBindFlag(t)
    BY <1>4, <2>6 DEF UBindFlag, UBindLabels
  <2> QED
    BY <2>2, <2>3, <2>4, <2>5, <2>6, CallerKeeps
<1>7. ConfMatchesBinding'
  <2>1. CASE BindSave(t)
    <3>1. cloud.binded /\ cloud.account # NoUser
      BY <2>1 DEF WriterInv, Writing, BindSave, SaveAccount, Named
    <3>2. cloud'.binded /\ conf'.account # NoUser
      BY <1>1, <2>1, <3>1 DEF BindSave, SaveAccount
    <3> QED
      BY <3>2 DEF ConfMatchesBinding
  <2>2. CASE UBindSave(t)
    <3>1. ~cloud.binded
      BY <2>2 DEF WriterInv, Writing, UBindSave, SaveAccount
    <3>2. ~cloud'.binded /\ conf'.account = NoUser
      BY <1>1, <2>2, <3>1 DEF UBindSave, SaveAccount
    <3> QED
      BY <3>2 DEF ConfMatchesBinding
  <2>3. CASE BindFlag(t) \/ UBindFlag(t) \/ UBindInit(t)
    <3>1. pc'[t] \in SaveLabels
      BY <2>3, Went DEF BindFlag, UBindFlag, UBindInit, SetStatus, SaveLabels
    <3> QED
      BY <3>1, SavingNext DEF ConfMatchesBinding
  <2>4. CASE BindAccount(t)
    <3>1. \A u \in Threads : ~Saving(u)' => ~Saving(u)
      BY <1>2, <2>4, SavingCaller, SavingNext DEF Alone, BindAccount, SaveLabels
    <3>2. cloud'.binded = cloud.binded /\ conf' = conf
      BY <1>1, <2>4 DEF BindAccount, Clouds
    <3> QED
      BY <3>1, <3>2 DEF WriterInv, ConfMatchesBinding
  <2>5. CASE KeepsBinding /\ pc[t] \notin SaveLabels
    BY <1>2, <2>5, KeepsMatched DEF WriterInv
  <2> QED
    BY <2>1, <2>2, <2>3, <2>4, <2>5, CallerKeeps, SavesByLabel
<1> QED
  BY <1>3, <1>6, <1>7 DEF WriterInv

LEMMA BootedBinding ==
  ASSUME NEW u, NEW i
  PROVE  Booted(u, i).binded <=> u # NoUser
<1>1. Booted(u, i).binded = (u # NoUser)
  BY Zenon DEF Booted
<1> QED
  BY <1>1

LEMMA WriterStep ==
  ASSUME OneWriter, ApiTypeOK, Places, Places', WriterInv, [ApiNext]_vars
  PROVE  WriterInv'
<1> USE DaemonThread, HandlerThread, CallerThread
<1>1. CASE DaemonStep
  <2>1. \A u \in Callers : Writing(u)'
    BY <1>1, DaemonAlone, DaemonKeeps, KeepsWriting DEF Alone, WriterInv
  <2>2. ConfMatchesBinding'
    BY <1>1, DaemonAlone, DaemonKeeps, KeepsMatched DEF WriterInv
  <2> QED
    BY <2>1, <2>2 DEF WriterInv
<1>2. ASSUME NEW h \in Handlers, HandlerStep(h)
      PROVE  WriterInv'
  <2>1. \A u \in Callers : Writing(u)'
    BY <1>2, HandlerMoves, HandlerKeeps, KeepsWriting DEF Alone, WriterInv
  <2>2. ConfMatchesBinding'
    BY <1>2, HandlerMoves, HandlerKeeps, KeepsMatched DEF WriterInv
  <2> QED
    BY <2>1, <2>2 DEF WriterInv
<1>3. CASE \E t \in Callers : CallerStep(t)
  BY <1>3, CallerWrites
<1>4. CASE Reboot
  <2>1. cloud'.binded <=> conf'.account # NoUser
    <3>1. PICK i \in Infos : cloud' = Booted(conf.account, i)
      BY <1>4 DEF Reboot
    <3>2. conf' = conf
      BY <1>4 DEF Reboot
    <3> QED
      BY <3>1, <3>2, BootedBinding
  <2>2. \A u \in Callers : pc'[u] = "idle"
    BY <1>4 DEF Reboot, Started
  <2>3. \A u \in Callers : Writing(u)'
    BY <2>2 DEF Writing, Binds, Named, BindLabels, RoutineLabels
  <2> QED
    BY <2>1, <2>3 DEF WriterInv, ConfMatchesBinding
<1>5. CASE UNCHANGED <<cloud, lock, conf, pc, frame>>
  BY <1>5 DEF WriterInv, Writing, Binds, ConfMatchesBinding, Saving
<1> QED
  BY <1>1, <1>2, <1>3, <1>4, <1>5, EnvironmentMoves DEF ApiNext, Next, vars

LEMMA WriterInit == Init => WriterInv
<1> SUFFICES ASSUME Init PROVE WriterInv
  OBVIOUS
<1>1. cloud.binded <=> conf.account # NoUser
  <2>1. PICK u \in Users \cup {NoUser}, i \in Infos :
          cloud = Booted(u, i) /\ conf = [account |-> u, password |-> u]
    BY DEF Init
  <2> QED
    BY <2>1, BootedBinding
<1>2. \A u \in Callers : pc[u] = "idle"
  BY CallerThread DEF Init, Started
<1>3. \A u \in Callers : Writing(u)
  BY <1>2 DEF Writing, Binds, Named, BindLabels, RoutineLabels
<1> QED
  BY <1>1, <1>3 DEF WriterInv, ConfMatchesBinding

LEMMA PlacesKept == ApiSpec => []Places
  BY PlacesInit, PlacesStep, ApiTypes, PTL DEF ApiSpec

\* The saved account and binded agree outside the stores of swCloudBind and
\* swCloudUBind, across power losses, for any number of callers of swCloudBind
\* or a single one of swCloudUBind, as long as the agent asks for no unbinding.
THEOREM SavedBinding ==
  ASSUME OneWriter
  PROVE  ApiSpec => []ConfMatchesBinding
<1>1. WriterInv /\ ApiTypeOK /\ Places /\ Places' /\ [ApiNext]_vars => WriterInv'
  BY WriterStep
<1>2. WriterInv => ConfMatchesBinding
  BY DEF WriterInv
<1> QED
  BY <1>1, <1>2, WriterInit, ApiTypes, PlacesKept, PTL DEF ApiSpec

-----------------------------------------------------------------------------
(* What swCloudUBind leaves.                                               *)
OnlyBindings == Ops \subseteq {"Bind", "UBind"}

LEMMA NotForgets ==
  ASSUME NEW t \in Callers,
         pc'[t] \notin {"ubind_save_password", "ubind_close", "return", "ubind_broken",
                       "ubind_offline"},
         pc'[t] \in Closes => frame'[t].back # "return"
  PROVE  Forgotten(t)'
  BY DEF Forgotten, Forgets

LEMMA BindForgets ==
  ASSUME ApiTypeOK, NEW t \in Callers, Writing(t), Bind(t) \/ BindStep(t)
  PROVE  Forgotten(t)'
<1> USE CallerThread
<1>1. CASE \E l \in BindLabels : Goto(t, l)
  <2>1. pc'[t] \in BindLabels
    BY <1>1 DEF Goto, ApiTypeOK, Typed
  <2> QED
    BY <2>1, NotForgets DEF BindLabels, Closes
<1>2. CASE \E l, b : l \in {"close_test", "socket"} /\ b # "return" /\ Call(t, l, b)
  BY <1>2, Called, NotForgets DEF Closes
<1>3. CASE \E c, b : Request(t, c, b)
  BY <1>3, Requested, NotForgets DEF Closes
<1>4. CASE SetResult(t, "binded", "return")
  BY <1>4, ResultSet DEF Forgotten, Forgets, Closes
<1>5. CASE BindUnlock(t)
  <2>1. frame[t].user # NoUser
    BY <1>5 DEF BindUnlock, Writing, Binds, BindLabels
  <2>2. pc'[t] = "return" /\ frame'[t] = frame[t]
    BY <1>5, Went DEF BindUnlock
  <2> QED
    BY <2>1, <2>2 DEF Forgotten, Forgets, Closes
<1>6. CASE Bind(t)
  BY <1>1, <1>6 DEF Bind, BindLabels
<1>7. CASE BindUpdated(t)
  <2>1. pc'[t] = "bind_connected"
    BY <1>7, ResultSet DEF BindUpdated
  <2> QED
    BY <2>1, NotForgets DEF Closes
<1>8. CASE BindStep(t) /\ ~BindUnlock(t) /\ ~BindUpdated(t)
  BY <1>1, <1>2, <1>3, <1>4, <1>8
     DEF BindStep, BindBinded, BindStatus, BindConnect, BindLinked, BindAccount,
         BindName, BindAuthed, BindBound, BindGoesOn, BindConnected,
         SetStatus, BindFlag, BindSave, BindSavePassword, SaveAccount, SavePassword,
         BindLabels
<1> QED
  BY <1>5, <1>6, <1>7, <1>8

LEMMA UBindForgets ==
  ASSUME OneWriter, ApiTypeOK, Places, WriterInv, NEW t \in Callers, Forgotten(t),
         UBind(t) \/ UBindStep(t), "UBind" \in Ops
  PROVE  Forgotten(t)'
<1> USE CallerThread
<1>0. /\ cloud \in Clouds
      /\ conf \in [account : Users \cup {NoUser}, password : Users \cup {NoUser}]
  BY DEF ApiTypeOK, Typed
<1>1. CASE UBind(t)
  <2>1. CASE cloud.binded
    <3>1. pc'[t] = "ubind_status"
      BY <1>1, <2>1, Went DEF UBind
    <3> QED
      BY <3>1, NotForgets DEF Closes
  <2>2. CASE ~cloud.binded
    <3>1. \A u \in Callers : u = t
      BY DEF OneWriter
    <3>2. pc[t] = "idle"
      BY <1>1 DEF UBind
    <3>3. \A u \in Threads : ~Saving(u)
      BY <3>1, <3>2, SavingCaller DEF SaveLabels
    <3>4. conf.account = NoUser
      BY <2>2, <3>3 DEF WriterInv, ConfMatchesBinding
    <3>5. cloud' = cloud /\ conf' = conf /\ pc'[t] = "return"
      BY <1>1, <2>2, ResultSet DEF UBind, shared
    <3> QED
      BY <2>2, <3>4, <3>5 DEF Forgotten
  <2> QED
    BY <2>1, <2>2
<1>2. CASE UBindStatus(t)
  BY <1>2, Called, Requested, NotForgets DEF UBindStatus, Closes
<1>3. CASE UBindLinked(t) \/ UBindAuthed(t) \/ UBindDone(t)
  <2>1. CASE \E c, b : Request(t, c, b)
    BY <2>1, Requested, NotForgets DEF Closes
  <2>2. CASE Goto(t, "ubind_flag")
    <3>1. pc'[t] = "ubind_flag"
      BY <2>2 DEF Goto, ApiTypeOK, Typed
    <3> QED
      BY <3>1, NotForgets DEF Closes
  <2>3. CASE /\ frame[t].res # "ok" /\ frame' = frame
             /\ \E l \in {"ubind_broken", "ubind_offline"} : Goto(t, l)
    <3>1. pc'[t] \in {"ubind_broken", "ubind_offline"} /\ frame'[t].res # "ok"
      BY <2>3, Went
    <3> QED
      BY <3>1 DEF Forgotten, Forgets, Closes
  <2> QED
    BY <1>3, <2>1, <2>2, <2>3
       DEF UBindLinked, UBindAuthed, UBindDone, UBindGoesOn, Result
<1>4. CASE UBindFlag(t) \/ UBindInit(t)
  <2>1. pc'[t] \in {"ubind_init", "ubind_save"}
    BY <1>4, Went DEF UBindFlag, UBindInit, SetStatus
  <2> QED
    BY <2>1, NotForgets DEF Closes
<1>5. CASE UBindSave(t)
  <2>1. ~cloud.binded
    BY <1>5 DEF UBindSave, SaveAccount, WriterInv, Writing
  <2>2. cloud' = cloud /\ conf'.account = NoUser /\ pc'[t] = "ubind_save_password"
    BY <1>0, <1>5, Went DEF UBindSave, SaveAccount
  <2> QED
    BY <2>1, <2>2 DEF Forgotten
<1>6. CASE UBindSavePassword(t)
  <2>1. ~cloud.binded /\ conf.account = NoUser
    BY <1>6 DEF UBindSavePassword, SavePassword, Forgotten, Forgets
  <2>2. cloud' = cloud /\ conf'.account = conf.account /\ pc'[t] = "ubind_close"
    BY <1>0, <1>6, Went DEF UBindSavePassword, SavePassword
  <2> QED
    BY <2>1, <2>2 DEF Forgotten
<1>7. CASE UBindBroken(t) \/ UBindOffline(t)
  <2>1. frame[t].res # "ok"
    BY <1>7 DEF UBindBroken, UBindOffline, SetStatus, Forgotten
  <2>2. pc'[t] = "ubind_close" /\ frame'[t] = frame[t]
    BY <1>7, Went DEF UBindBroken, UBindOffline, SetStatus
  <2> QED
    BY <2>1, <2>2 DEF Forgotten, Forgets, Closes
<1>8. CASE UBindClose(t)
  <2>1. pc[t] = "ubind_close" /\ cloud' = cloud /\ conf' = conf
    BY <1>8 DEF UBindClose, shared
  <2>2. /\ pc'[t] = "close_test"
        /\ frame'[t].res = frame[t].res /\ frame'[t].user = frame[t].user
    BY <1>8, Called DEF UBindClose
  <2> QED
    BY <2>1, <2>2 DEF Forgotten, Forgets, Closes
<1> QED
  BY <1>1, <1>2, <1>3, <1>4, <1>5, <1>6, <1>7, <1>8 DEF UBindStep

LEMMA RoutineForgets ==
  ASSUME ApiTypeOK, NEW t \in Callers, CallerPlaces(t), Forgotten(t), Routine(t)
  PROVE  Forgotten(t)'
<1>1. KeepsBinding
  BY CallerThread, RoutineKeeps
<1>2. CASE pc[t] \in Closes
  <2>1. /\ frame'[t].res = frame[t].res /\ frame'[t].user = frame[t].user
        /\ \/ pc'[t] \in Closes /\ frame'[t].back = frame[t].back
           \/ pc'[t] = frame[t].back
    BY <1>2, CallerThread, RoutineMoves DEF Closes, Connects, Requests
  <2>2. frame[t].back \in {"bind_connect", "bind_unlock", "return"}
    BY <1>2 DEF CallerPlaces
  <2> QED
    BY <1>1, <1>2, <2>1, <2>2 DEF Forgotten, Forgets, KeepsBinding, Closes
<1>3. CASE pc[t] \in Connects \cup Requests
  <2>1. pc'[t] \in Connects \cup Requests \/ pc'[t] = frame[t].back
    BY <1>3, CallerThread, RoutineMoves DEF Closes, Connects, Requests
  <2>2. frame[t].back \in {"bind_linked", "ubind_linked", "bind_authed", "bind_bound",
                          "bind_updated", "ubind_authed", "ubind_done"}
    BY <1>3 DEF CallerPlaces, Connects, Requests
  <2> QED
    BY <2>1, <2>2, NotForgets DEF Closes, Connects, Requests
<1> QED
  BY <1>2, <1>3, CallerThread, RoutineMoves

LEMMA OwnForgets ==
  ASSUME OneWriter, OnlyBindings, ApiTypeOK, Places, WriterInv, NEW t \in Callers,
         Forgotten(t), CallerStep(t)
  PROVE  Forgotten(t)'
<1>1. CallerPlaces(t) /\ Writing(t)
  BY DEF Places, WriterInv
<1>2. CASE Routine(t)
  BY <1>1, <1>2, RoutineForgets
<1>3. CASE Bind(t) \/ BindStep(t)
  BY <1>1, <1>3, BindForgets
<1>4. CASE UBind(t) \/ UBindStep(t)
  <2>1. "UBind" \in Ops \/ pc[t] \in UBindLabels
    BY <1>4
       DEF UBind, UBindStep, UBindStatus, UBindLinked, UBindAuthed, UBindDone,
           UBindGoesOn, UBindFlag, UBindInit, UBindBroken, UBindOffline, SetStatus,
           UBindSave, UBindSavePassword, SaveAccount, SavePassword, UBindClose,
           UBindLabels
  <2>2. "UBind" \in Ops
    BY <1>1, <2>1 DEF CallerPlaces, BindLabels, UBindLabels, PingLabels,
                      RoutineLabels
  <2> QED
    BY <1>4, <2>2, UBindForgets
<1>5. CASE Ping(t) \/ PingStep(t)
  <2>1. "Ping" \in Ops \/ pc[t] \in PingLabels
    BY <1>5 DEF Ping, PingStep, PingAgain, PingClear, PingSet, SetStatus, PingRead,
                PingLabels
  <2>2. "Ping" \notin Ops
    BY DEF OnlyBindings
  <2> QED
    BY <1>1, <2>1, <2>2 DEF CallerPlaces, BindLabels, UBindLabels, PingLabels,
                            RoutineLabels
<1>6. CASE Returned(t)
  <2>1. pc'[t] = "idle"
    BY <1>6, CallerThread DEF Returned, ApiTypeOK, Typed
  <2> QED
    BY <2>1, NotForgets DEF Closes
<1> QED
  BY <1>2, <1>3, <1>4, <1>5, <1>6 DEF CallerStep, CallerWork

LEMMA KeepsForgotten ==
  ASSUME NEW u \in Callers, pc'[u] = pc[u], frame'[u] = frame[u], KeepsBinding,
         Forgotten(u)
  PROVE  Forgotten(u)'
  BY DEF Forgotten, Forgets, KeepsBinding

LEMMA ForgetStep ==
  ASSUME OneWriter, OnlyBindings, ApiTypeOK, Places, WriterInv, ForgetInv,
         [ApiNext]_vars
  PROVE  ForgetInv'
<1> SUFFICES ASSUME NEW u \in Callers PROVE Forgotten(u)'
  BY DEF ForgetInv
<1> USE DaemonThread, HandlerThread, CallerThread
<1>0. Forgotten(u)
  BY DEF ForgetInv
<1>1. CASE DaemonStep
  BY <1>0, <1>1, DaemonAlone, DaemonKeeps, KeepsForgotten DEF Alone
<1>2. ASSUME NEW h \in Handlers, HandlerStep(h)
      PROVE  Forgotten(u)'
  BY <1>0, <1>2, HandlerMoves, HandlerKeeps, KeepsForgotten DEF Alone
<1>3. ASSUME NEW t \in Callers, CallerStep(t)
      PROVE  Forgotten(u)'
  <2>1. CASE u = t
    BY <1>0, <1>3, <2>1, OwnForgets
  <2>2. CASE u # t
    <3>1. pc'[u] = pc[u] /\ frame'[u] = frame[u]
      BY <1>3, <2>2, CallerAlone DEF Alone
    <3>2. "UBind" \notin Ops
      BY <2>2 DEF OneWriter
    <3>3. ~Forgets(u)
      BY <1>0, <3>2 DEF Forgotten
    <3> QED
      BY <1>0, <3>1, <3>3 DEF Forgotten, Forgets
  <2> QED
    BY <2>1, <2>2
<1>4. CASE Reboot
  <2>1. pc'[u] = "idle"
    BY <1>4 DEF Reboot, Started
  <2> QED
    BY <2>1, NotForgets DEF Closes
<1>5. CASE UNCHANGED <<cloud, lock, conf, pc, frame>>
  BY <1>0, <1>5 DEF Forgotten, Forgets
<1> QED
  BY <1>1, <1>2, <1>3, <1>4, <1>5, EnvironmentMoves DEF ApiNext, Next, vars

LEMMA ForgetInit == Init => ForgetInv
<1> SUFFICES ASSUME Init, NEW u \in Callers PROVE Forgotten(u)
  BY DEF ForgetInv
<1>1. pc[u] = "idle"
  BY CallerThread DEF Init, Started
<1> QED
  BY <1>1 DEF Forgotten, Forgets, Closes

\* A caller to whom swCloudUBind returned SUCCEED finds the device unbound and
\* the account erased, and nothing the daemon, the handlers or a power loss do
\* until it goes on brings the binding back.
THEOREM UnbindKept ==
  ASSUME OneWriter, OnlyBindings
  PROVE  ApiSpec => []UnbindDurable
<1>1. /\ WriterInv /\ ApiTypeOK /\ Places /\ Places' /\ [ApiNext]_vars => WriterInv'
      /\ WriterInv /\ ForgetInv /\ ApiTypeOK /\ Places /\ [ApiNext]_vars => ForgetInv'
  BY WriterStep, ForgetStep
<1>2. ForgetInv => UnbindDurable
  BY DEF ForgetInv, Forgotten, Forgets, UnbindDurable, Result
<1> QED
  BY <1>1, <1>2, WriterInit, ForgetInit, ApiTypes, PlacesKept, PTL DEF ApiSpec

-----------------------------------------------------------------------------
(* swCloudBind alone: who owns the lock, and where the daemon then is.     *)
LEMMA BindsWrite == OnlyBinds => OneWriter
  BY DEF OnlyBinds, OneWriter

\* Where the daemon takes, keeps and releases the lock.
LEMMA DaemonLocks ==
  ASSUME OnlyBinds, ApiTypeOK, Places, DaemonStep
  PROVE  /\ lock' = lock \/ (CanLock(Daemon) /\ lock' \in {NoThread, Daemon})
         /\ pc'[Daemon] \in Controlling =>
              \/ pc[Daemon] \in Controlling /\ lock' = lock
              \/ CanLock(Daemon) /\ lock' = Daemon
<1> USE DaemonThread
<1>1. pc[Daemon] \notin UnbindLabels
  BY DEF OnlyBinds, Places, DaemonPlaces, At, RoutineLabels, DaemonLabels,
         UnbindLabels
<1>2. CASE Routine(Daemon)
  <2>1. lock' = lock
    BY <1>2, RoutineKeeps
  <2>2. pc'[Daemon] \notin Controlling
    BY <1>2, RoutineMoves
       DEF OnlyBinds, Places, DaemonPlaces, At, Back, Controlling, Closes, Connects,
           Requests
  <2> QED
    BY <2>1, <2>2
<1>3. CASE ControlLock \/ ControlPoll \/ ControlSelect
  <2>1. CASE Goto(Daemon, "top")
    BY <1>3, <2>1
       DEF ControlLock, ControlPoll, ControlSelect, ControlNothing, Release, CanLock,
           Acquire, Goto, ApiTypeOK, Typed, Controlling
  <2>2. CASE ~Goto(Daemon, "top")
    BY <1>3, <2>2
       DEF ControlLock, ControlPoll, ControlSelect, ControlNothing, Acquire, CanLock,
           Controlling
  <2> QED
    BY <2>1, <2>2
<1>4. CASE ControlRecvFd
  BY <1>4 DEF ControlRecvFd, shared, Controlling
<1>5. CASE ControlRecv
  <2>1. lock' = lock \/ (CanLock(Daemon) /\ lock' \in {NoThread, Daemon})
    BY <1>5 DEF ControlRecv, Release, CanLock
  <2>2. pc'[Daemon] \in {"send", "top", "reply", "close_test"}
    BY <1>5, Left, Called, Requested DEF ControlRecv
  <2> QED
    BY <2>1, <2>2 DEF Controlling
<1>6. CASE UnbindDone \/ UnbindStatus \/ UnbindAccount \/ UnbindPassword
  BY <1>1, <1>6
     DEF UnbindDone, UnbindStatus, SetStatus, UnbindAccount, UnbindPassword, UnbindLabels
<1>7. ASSUME ~Routine(Daemon), ~ControlLock, ~ControlPoll, ~ControlSelect,
             ~ControlRecvFd, ~ControlRecv,
             ~(UnbindDone \/ UnbindStatus \/ UnbindAccount \/ UnbindPassword)
      PROVE  lock' = lock /\ pc'[Daemon] \notin Controlling
  <2>1. lock' = lock
    BY <1>7
       DEF DaemonStep, WaitAgent, Dispatch, StatusInit, SetConnecting, SetDisconnected,
           SetBroken, SetConnected, SetUnbound, SetStatus, Linked, AuthDone, UpdateDone,
           ClearUnbound, StatusConnected, NeedUpdate, NeedRead, NeedClear, RefreshDone,
           Retry, Resume, Pace, Restart, Poll, PollSelect, Reply, shared
  <2>2. \/ \E l : l \notin Controlling /\ Goto(Daemon, l)
        \/ \E l : l \notin Controlling /\ Leave(Daemon, l)
        \/ \E l, b : l \notin Controlling /\ Call(Daemon, l, b)
        \/ \E c, b : Request(Daemon, c, b)
    <3>1. cloud.status \in Statuses
      BY DEF ApiTypeOK, Typed, Clouds
    <3>2. CASE Dispatch
      BY <3>1, <3>2 DEF Dispatch, Statuses, Controlling
    <3> QED
      BY <1>7, <3>2
         DEF DaemonStep, WaitAgent, StatusInit, SetConnecting, SetDisconnected,
             SetBroken, SetConnected, SetUnbound, SetStatus, Linked, AuthDone, UpdateDone,
             ClearUnbound, StatusConnected, NeedUpdate, NeedRead, NeedClear, RefreshDone,
             Retry, Resume, Pace, Restart, Poll, PollSelect, Reply, Controlling
  <2>3. ASSUME NEW l, l \notin Controlling, Goto(Daemon, l)
        PROVE  pc'[Daemon] \notin Controlling
    BY <2>3 DEF Goto, ApiTypeOK, Typed
  <2> QED
    BY <2>1, <2>2, <2>3, Left, Called, Requested DEF Controlling
<1> QED
  BY <1>2, <1>3, <1>4, <1>5, <1>6, <1>7

\* The daemon begins to use the connection where it has read CONNECTING or
\* CONNECTED, and to mean it for a bound device where it has read binded.
LEMMA DaemonUses ==
  ASSUME OnlyBinds, ApiTypeOK, Places, DaemonStep
  PROVE  /\ pc'[Daemon] \in Using =>
              \/ pc[Daemon] \in Using
              \/ CanLock(Daemon) /\ cloud.status \in {"CONNECTING", "CONNECTED"}
         /\ pc'[Daemon] \in ForBound =>
              \/ pc[Daemon] \in ForBound \/ cloud.binded
              \/ CanLock(Daemon) /\ cloud.status \in {"CONNECTING", "CONNECTED"}
<1> USE DaemonThread
<1> USE DEF Using, ForBound, Connects, Requests
<1>1. CASE Routine(Daemon)
  <2>1. CASE pc[Daemon] \in Closes
    <3>1. frame[Daemon].back \in {"retry", "poll", "restart", "to_disconnected"}
      BY <2>1 DEF Places, DaemonPlaces, At, Back
    <3>2. pc'[Daemon] \in Closes \/ pc'[Daemon] = frame[Daemon].back
      BY <1>1, <2>1, RoutineMoves DEF Closes
    <3> QED
      BY <3>1, <3>2 DEF Closes
  <2>2. CASE pc[Daemon] \in Connects \cup Requests
    BY <2>2
  <2> QED
    BY <1>1, <2>1, <2>2, RoutineMoves
<1>2. CASE Dispatch
  <2>1. cloud.status \in Statuses /\ CanLock(Daemon)
    BY <1>2 DEF Dispatch, ApiTypeOK, Typed, Clouds
  <2>2. ASSUME cloud.status \notin {"CONNECTING", "CONNECTED"}
        PROVE  pc'[Daemon] \in {"init", "close_test"}
    BY <1>2, <2>1, <2>2, Left, Called DEF Dispatch, Statuses
  <2> QED
    BY <2>1, <2>2
<1>3. CASE StatusInit \/ Retry
  <2>1. cloud.binded \/ Goto(Daemon, "poll")
    BY <1>3 DEF StatusInit, Retry, MayRetry
  <2>2. Goto(Daemon, "poll") => pc'[Daemon] = "poll"
    BY DEF Goto, ApiTypeOK, Typed
  <2>3. pc'[Daemon] \in {"set_connecting", "poll", "resume", "pace"}
    BY <1>3 DEF StatusInit, Retry, Goto, ApiTypeOK, Typed
  <2> QED
    BY <2>1, <2>2, <2>3
<1>4. CASE Linked \/ StatusConnected \/ NeedUpdate \/ NeedRead \/ NeedClear
           \/ AuthDone
  <2>1. pc[Daemon] \in Using
    BY <1>4 DEF Linked, StatusConnected, NeedUpdate, NeedRead, NeedClear, AuthDone
  <2> QED
    BY <2>1
<1>5. CASE UpdateDone
  <2>1. pc[Daemon] = "update_done"
        /\ pc'[Daemon] \in {"to_disconnected", "to_connected", "to_broken"}
    BY <1>5, Left DEF UpdateDone
  <2> QED
    BY <2>1
<1>6. CASE ControlRecv
  <2>1. \/ \E l \in {"top", "reply"} : Leave(Daemon, l)
        \/ \E l, b : l = "close_test" /\ Call(Daemon, l, b)
    <3>1. CASE HasPacket(frame[Daemon].rfd)
      <4>1. PICK d \in Contents(Head(sock[frame[Daemon].rfd].in)) :
              CASE d = "UNBIND" -> Request(Daemon, "UBINDEV", "unbind_done")
                [] d = "NONE"   -> Leave(Daemon, "top")
                [] OTHER        -> Leave(Daemon, "reply")
        BY <1>6, <3>1 DEF ControlRecv, HasPacket, ReadFails
      <4>2. d = "NONE"
        BY <3>1, ContentsPushed DEF HasPacket, OnlyBinds
      <4> QED
        BY <4>1, <4>2
    <3>2. CASE ~HasPacket(frame[Daemon].rfd)
      BY <1>6, <3>2 DEF ControlRecv
    <3> QED
      BY <3>1, <3>2
  <2> QED
    BY <2>1, Left, Called
<1>7. CASE UnbindDone \/ UnbindStatus \/ UnbindAccount \/ UnbindPassword
  BY <1>7
     DEF OnlyBinds, Places, DaemonPlaces, At, RoutineLabels, DaemonLabels,
         UnbindLabels, UnbindDone, UnbindStatus, SetStatus, UnbindAccount, UnbindPassword
<1>8. ASSUME ~Routine(Daemon), ~Dispatch, ~StatusInit, ~Retry, ~Linked,
             ~StatusConnected, ~NeedUpdate, ~NeedRead, ~NeedClear, ~AuthDone,
             ~UpdateDone, ~ControlRecv,
             ~(UnbindDone \/ UnbindStatus \/ UnbindAccount \/ UnbindPassword)
      PROVE  pc'[Daemon] \notin ForBound
  <2>1. \/ \E l : l \notin ForBound /\ Goto(Daemon, l)
        \/ \E l : l \notin ForBound /\ Leave(Daemon, l)
        \/ \E b : Call(Daemon, "close_test", b)
    BY <1>8
       DEF DaemonStep, WaitAgent, SetConnecting, SetDisconnected, SetBroken,
           SetConnected, SetUnbound, SetStatus, ClearUnbound, RefreshDone, Resume, Pace,
           Restart, Poll, PollSelect, ControlLock, ControlPoll, ControlSelect,
           ControlNothing, ControlRecvFd, Reply
  <2>2. ASSUME NEW l, l \notin ForBound, Goto(Daemon, l)
        PROVE  pc'[Daemon] \notin ForBound
    BY <2>2 DEF Goto, ApiTypeOK, Typed
  <2> QED
    BY <2>1, <2>2, Left, Called
<1> QED
  BY <1>1, <1>2, <1>3, <1>4, <1>5, <1>6, <1>7, <1>8

LEMMA DaemonSets ==
  ASSUME OnlyBinds, ApiTypeOK, Places, DaemonStep
  PROVE  \/ cloud'.status = cloud.status
         \/ cloud'.status = "CONNECTING" /\ pc[Daemon] \in {"set_connecting", "resume"}
         \/ cloud'.status = "CONNECTED" /\ pc[Daemon] = "to_connected"
         \/ cloud'.status = "BROKEN" /\ pc'[Daemon] = "top"
         \/ cloud'.status = "DISCONNECTED"
<1> USE DaemonThread
<1>1. cloud \in Clouds
  BY DEF ApiTypeOK, Typed
<1>2. CASE SetBroken
  <2>1. pc'[Daemon] = "top"
    BY <1>2, Went DEF SetBroken, SetStatus
  <2>2. cloud'.status = "BROKEN"
    BY <1>1, <1>2 DEF SetBroken, SetStatus, Clouds
  <2> QED
    BY <2>1, <2>2
<1>3. CASE SetConnecting \/ SetDisconnected \/ SetConnected \/ SetUnbound \/ Resume
  BY <1>1, <1>3
     DEF SetConnecting, SetDisconnected, SetConnected, SetUnbound, Resume, SetStatus,
         Clouds
<1>4. CASE UnbindStatus
  BY <1>4 DEF OnlyBinds, Places, DaemonPlaces, At, RoutineLabels, DaemonLabels,
              UnbindLabels, UnbindStatus, SetStatus
<1>5. CASE WaitAgent \/ Dispatch \/ StatusInit \/ Linked \/ AuthDone \/ UpdateDone
           \/ StatusConnected \/ NeedUpdate \/ NeedRead \/ RefreshDone \/ Poll
           \/ PollSelect \/ ControlRecvFd \/ Reply \/ ControlLock \/ ControlPoll
           \/ ControlSelect \/ ControlRecv \/ UnbindAccount \/ UnbindPassword
  BY <1>5
     DEF WaitAgent, Dispatch, StatusInit, Linked, AuthDone, UpdateDone,
         StatusConnected, NeedUpdate, NeedRead, RefreshDone, Poll, PollSelect,
         ControlRecvFd, Reply, shared, ControlLock, ControlPoll, ControlSelect,
         ControlRecv, UnbindAccount, UnbindPassword
<1>6. CASE ClearUnbound \/ NeedClear \/ Retry \/ Pace \/ Restart \/ UnbindDone
  BY <1>1, <1>6
     DEF ClearUnbound, NeedClear, Retry, Pace, Restart, UnbindDone, ClearedCounters,
         Clouds
<1> QED
  BY <1>2, <1>3, <1>4, <1>5, <1>6, RoutineStatus DEF DaemonStep

\* The handlers take the lock for a store or two, set RESTART, and keep off
\* the connection.
LEMMA HandlerKeepsOff ==
  ASSUME ApiTypeOK, NEW h \in Handlers, HandlerStep(h)
  PROVE  /\ lock' = lock \/ CanLock(h)
         /\ cloud'.status \in {cloud.status, "RESTART"}
         /\ sock' = sock /\ cloud'.fd = cloud.fd
<1>1. cloud \in Clouds
  BY DEF ApiTypeOK, Typed
<1> QED
  BY <1>1
     DEF HandlerStep, DeliverField, DeliverUpnp, DeliverNetwork, Deliver, StoreField,
         MarkField, MarkNetwork, MarkUpdate, StoreUpnp, MarkUpnp, SetRestart, SetStatus,
         Acquire, Release, CanLock, shared, Clouds

\* A caller is only where swCloudBind leads.
LEMMA CallerBinds ==
  ASSUME OnlyBinds, Places, NEW t \in Callers, CallerStep(t)
  PROVE  Routine(t) \/ Bind(t) \/ BindStep(t) \/ Returned(t)
<1>1. CASE UBind(t) \/ UBindStep(t)
  <2>1. "UBind" \in Ops \/ pc[t] \in UBindLabels
    BY <1>1
       DEF UBind, UBindStep, UBindStatus, UBindLinked, UBindAuthed, UBindDone,
           UBindGoesOn, UBindFlag, UBindInit, UBindBroken, UBindOffline, SetStatus,
           UBindSave, UBindSavePassword, SaveAccount, SavePassword, UBindClose,
           UBindLabels
  <2> QED
    BY <2>1 DEF OnlyBinds, Places, CallerPlaces, BindLabels, UBindLabels,
                PingLabels, RoutineLabels
<1>2. CASE Ping(t) \/ PingStep(t)
  <2>1. "Ping" \in Ops \/ pc[t] \in PingLabels
    BY <1>2 DEF Ping, PingStep, PingAgain, PingClear, PingSet, SetStatus, PingRead,
                PingLabels
  <2> QED
    BY <2>1 DEF OnlyBinds, Places, CallerPlaces, BindLabels, UBindLabels,
                PingLabels, RoutineLabels
<1> QED
  BY <1>1, <1>2 DEF CallerStep, CallerWork

LEMMA CallerLocks ==
  ASSUME OnlyBinds, ApiTypeOK, Places, NEW t \in Callers, CallerStep(t)
  PROVE  /\ lock' = lock \/ CanLock(t)
         /\ Calling(t)' => \/ Calling(t) /\ lock' = lock
                           \/ lock' = t
<1> USE CallerThread DEF Calling
<1>1. CASE Routine(t)
  <2>1. lock' = lock
    BY <1>1, RoutineKeeps
  <2>2. pc[t] \in RoutineLabels
    BY <1>1, RoutineMoves DEF RoutineLabels, Closes, Connects, Requests
  <2> QED
    BY <2>1, <2>2
<1>2. CASE Bind(t)
  BY <1>2 DEF Bind, Acquire
<1>3. CASE BindStatus(t) \/ BindUnlock(t)
  <2>1. pc[t] \in BindLabels
    BY <1>3 DEF BindStatus, BindUnlock, BindLabels
  <2>2. lock' = lock \/ (Release(t) /\ pc'[t] = "return")
    BY <1>3, ResultSet, Went DEF BindStatus, BindUnlock
  <2>3. Release(t) => lock' = lock \/ CanLock(t)
    BY DEF Release, CanLock
  <2> QED
    BY <2>1, <2>2, <2>3 DEF BindLabels, RoutineLabels
<1>4. CASE BindStep(t) /\ ~BindStatus(t) /\ ~BindUnlock(t)
  BY <1>4
     DEF BindStep, BindBinded, BindConnect, BindLinked, BindAccount, BindName,
         BindAuthed, BindBound, BindGoesOn, BindUpdated, BindConnected, SetStatus,
         BindFlag, BindSave, BindSavePassword, SaveAccount, SavePassword, BindLabels,
         shared
<1>5. CASE Returned(t)
  <2>1. lock' = lock /\ pc'[t] = "idle"
    BY <1>5 DEF Returned, shared, ApiTypeOK, Typed
  <2> QED
    BY <2>1 DEF BindLabels, RoutineLabels
<1> QED
  BY <1>1, <1>2, <1>3, <1>4, <1>5, CallerBinds

\* swCloudBind goes on only for a device that is not bound, or BROKEN.
LEMMA CallerTests ==
  ASSUME OnlyBinds, ApiTypeOK, Places, NEW t \in Callers, CallerStep(t), Busy(t)'
  PROVE  Calling(t) /\ (Busy(t) \/ ~cloud.binded \/ cloud.status = "BROKEN")
<1> USE CallerThread DEF Calling, Busy
<1>1. CASE Routine(t)
  <2>1. pc[t] \in RoutineLabels
    BY <1>1, RoutineMoves DEF RoutineLabels, Closes, Connects, Requests
  <2> QED
    BY <2>1 DEF RoutineLabels
<1>2. CASE Bind(t) \/ Returned(t)
  <2>1. pc'[t] \in {"bind_binded", "idle"}
    BY <1>2 DEF Bind, Goto, Returned, ApiTypeOK, Typed
  <2> QED
    BY <2>1 DEF BindLabels, RoutineLabels
<1>3. CASE BindBinded(t) \/ BindStatus(t)
  <2>1. \/ ~cloud.binded \/ cloud.status = "BROKEN"
        \/ pc'[t] \in {"bind_status", "return"}
    BY <1>3, Went, ResultSet DEF BindBinded, BindStatus
  <2>2. pc[t] \in BindLabels
    BY <1>3 DEF BindBinded, BindStatus, BindLabels
  <2> QED
    BY <2>1, <2>2 DEF BindLabels, RoutineLabels
<1>4. CASE BindStep(t) /\ ~BindBinded(t) /\ ~BindStatus(t)
  BY <1>4
     DEF BindStep, BindConnect, BindLinked, BindAccount, BindName,
         BindAuthed, BindBound, BindGoesOn, BindUpdated, BindConnected, SetStatus,
         BindFlag, BindSave, BindSavePassword, SaveAccount, SavePassword, BindUnlock,
         BindLabels
<1> QED
  BY <1>1, <1>2, <1>3, <1>4, CallerBinds

LEMMA CallerSets ==
  ASSUME OnlyBinds, ApiTypeOK, Places, NEW t \in Callers, CallerStep(t)
  PROVE  /\ \/ cloud'.status = cloud.status
            \/ cloud'.status = "CONNECTED" /\ pc'[t] = "bind_flag"
         /\ cloud.binded => cloud'.binded
         /\ pc[t] = "bind_flag" => cloud'.binded
<1> USE CallerThread
<1>1. cloud \in Clouds
  BY DEF ApiTypeOK, Typed
<1>2. CASE Routine(t)
  <2>1. pc[t] # "bind_flag"
    BY <1>2, RoutineMoves DEF Closes, Connects, Requests
  <2> QED
    BY <1>2, <2>1, RoutineKeeps, RoutineStatus DEF KeepsBinding
<1>3. CASE Bind(t) \/ Returned(t)
  BY <1>3 DEF Bind, Returned, shared
<1>4. CASE BindConnected(t)
  BY <1>1, <1>4, Went DEF BindConnected, SetStatus, Clouds
<1>5. CASE BindStep(t) /\ ~BindConnected(t)
  BY <1>1, <1>5
     DEF BindStep, BindBinded, BindStatus, BindConnect, BindLinked, BindAccount,
         BindName, BindAuthed, BindBound, BindGoesOn, BindUpdated, BindFlag, BindSave,
         BindSavePassword, SaveAccount, SavePassword, BindUnlock, shared, Clouds
<1> QED
  BY <1>2, <1>3, <1>4, <1>5, CallerBinds

LEMMA LockedStep ==
  ASSUME OnlyBinds, ApiTypeOK, Places, Locked, [ApiNext]_vars
  PROVE  Locked'
<1> USE DaemonThread, HandlerThread, CallerThread, ThreadAssumption
<1>0. \A u \in Threads : u # NoThread
  BY DEF Threads
<1>1. CASE DaemonStep
  <2>1. At(Controlling)' => lock' = Daemon
    BY <1>1, DaemonLocks DEF At, Locked
  <2>2. \A u \in Callers : Calling(u)' => lock' = u
    BY <1>0, <1>1, DaemonLocks, DaemonAlone DEF Alone, Locked, Calling, CanLock
  <2> QED
    BY <2>1, <2>2 DEF Locked
<1>2. ASSUME NEW h \in Handlers, HandlerStep(h)
      PROVE  Locked'
  BY <1>0, <1>2, HandlerKeepsOff, HandlerMoves DEF Alone, Locked, Calling, CanLock, At
<1>3. ASSUME NEW t \in Callers, CallerStep(t)
      PROVE  Locked'
  <2>1. Calling(t)' => lock' = t
    BY <1>3, CallerLocks DEF Locked
  <2>2. \A u \in Callers : u # t /\ Calling(u)' => lock' = u
    BY <1>0, <1>3, CallerLocks, CallerAlone DEF Alone, Locked, Calling, CanLock
  <2>3. At(Controlling)' => lock' = Daemon
    BY <1>0, <1>3, CallerLocks, CallerAlone DEF Alone, Locked, At, CanLock
  <2> QED
    BY <2>1, <2>2, <2>3 DEF Locked
<1>4. CASE Reboot
  BY <1>4 DEF Reboot, Started, Locked, Calling, At, Controlling, BindLabels, RoutineLabels
<1>5. CASE UNCHANGED <<cloud, lock, conf, pc, frame>>
  BY <1>5 DEF Locked, Calling, At
<1> QED
  BY <1>1, <1>2, <1>3, <1>4, <1>5, EnvironmentMoves DEF ApiNext, Next, vars

LEMMA UnboundStep ==
  ASSUME OnlyBinds, ApiTypeOK, Places, Access, [ApiNext]_vars
  PROVE  Unbound'
<1> USE DaemonThread, HandlerThread, CallerThread, ThreadAssumption
<1>0. \A u \in Threads : u # NoThread
  BY DEF Threads
<1>1. CASE DaemonStep
  <2> SUFFICES ASSUME ~cloud'.binded
               PROVE  /\ pc'[Daemon] \notin ForBound
                      /\ cloud'.status # "CONNECTING"
                      /\ cloud'.status = "CONNECTED" =>
                           \E t \in Callers : pc'[t] = "bind_flag"
    BY DEF Unbound, At
  <2>1. ~cloud.binded
    BY <1>1, BindsWrite, DaemonKeeps DEF KeepsBinding
  <2>2. /\ pc[Daemon] \notin ForBound
        /\ cloud.status # "CONNECTING"
        /\ cloud.status = "CONNECTED" => \E t \in Callers : pc[t] = "bind_flag"
    BY <2>1 DEF Access, Unbound, At
  <2>3. cloud.status = "CONNECTED" => ~CanLock(Daemon)
    <3>1. \A t \in Callers : pc[t] = "bind_flag" => lock = t
      BY DEF Access, Locked, Calling, BindLabels
    <3> QED
      BY <1>0, <2>2, <3>1 DEF CanLock
  <2>4. pc'[Daemon] \notin ForBound
    BY <1>1, <2>1, <2>2, <2>3, DaemonUses
  <2>5. cloud'.status \in {cloud.status, "BROKEN", "DISCONNECTED"}
    BY <1>1, <2>2, DaemonSets DEF ForBound
  <2> QED
    BY <1>1, <2>2, <2>4, <2>5, DaemonAlone DEF Alone
<1>2. ASSUME NEW h \in Handlers, HandlerStep(h)
      PROVE  Unbound'
  BY <1>2, HandlerKeepsOff, HandlerMoves, HandlerKeeps
     DEF Alone, KeepsBinding, Access, Unbound, At
<1>3. ASSUME NEW t \in Callers, CallerStep(t)
      PROVE  Unbound'
  BY <1>3, CallerSets, CallerAlone DEF Alone, Access, Unbound, At
<1>4. CASE Reboot
  <2>1. pc'[Daemon] = "boot" /\ cloud'.status = "INIT"
    BY <1>4 DEF Reboot, Started, Booted
  <2> QED
    BY <2>1 DEF Unbound, At, ForBound, Using, Connects, Requests
<1>5. CASE UNCHANGED <<cloud, lock, conf, pc, frame>>
  BY <1>5 DEF Access, Unbound, At
<1> QED
  BY <1>1, <1>2, <1>3, <1>4, <1>5, EnvironmentMoves DEF ApiNext, Next, vars

LEMMA BrokenStep ==
  ASSUME OnlyBinds, ApiTypeOK, Places, Access, [ApiNext]_vars
  PROVE  Broken'
<1> USE DaemonThread, HandlerThread, CallerThread
<1>1. CASE DaemonStep
  <2> SUFFICES ASSUME cloud'.status = "BROKEN"
               PROVE  pc'[Daemon] \notin Using
    BY DEF Broken, At
  <2>1. CASE pc'[Daemon] = "top"
    BY <2>1 DEF Using, Connects, Requests
  <2>2. CASE cloud.status = "BROKEN"
    BY <1>1, <2>2, DaemonUses DEF Access, Broken, At
  <2> QED
    BY <1>1, <2>1, <2>2, DaemonSets
<1>2. ASSUME NEW h \in Handlers, HandlerStep(h)
      PROVE  Broken'
  BY <1>2, HandlerKeepsOff, HandlerMoves DEF Alone, Access, Broken, At
<1>3. ASSUME NEW t \in Callers, CallerStep(t)
      PROVE  Broken'
  BY <1>3, CallerSets, CallerAlone DEF Alone, Access, Broken, At
<1>4. CASE Reboot
  <2>1. pc'[Daemon] = "boot"
    BY <1>4 DEF Reboot, Started
  <2> QED
    BY <2>1 DEF Broken, At, Using, Connects, Requests
<1>5. CASE UNCHANGED <<cloud, lock, conf, pc, frame>>
  BY <1>5 DEF Access, Broken, At
<1> QED
  BY <1>1, <1>2, <1>3, <1>4, <1>5, EnvironmentMoves DEF ApiNext, Next, vars

LEMMA AwayStep ==
  ASSUME OnlyBinds, ApiTypeOK, Places, Access, [ApiNext]_vars
  PROVE  Away'
<1> USE DaemonThread, HandlerThread, CallerThread
<1>0. \A u \in Threads : u # NoThread
  BY ThreadAssumption DEF Threads
<1>1. CASE DaemonStep
  <2> SUFFICES ASSUME NEW u \in Callers, Busy(u)'
               PROVE  pc'[Daemon] \notin Using \cup Controlling
    BY DEF Away, At
  <2>1. Busy(u)
    BY <1>1, DaemonAlone DEF Alone, Busy, Calling
  <2>2. lock = u
    BY <2>1 DEF Busy, Access, Locked
  <2>3. pc[Daemon] \notin Using \cup Controlling
    BY <2>1 DEF Access, Away, At
  <2> QED
    BY <1>0, <1>1, <2>2, <2>3, DaemonUses, DaemonLocks DEF CanLock
<1>2. ASSUME NEW h \in Handlers, HandlerStep(h)
      PROVE  Away'
  BY <1>2, HandlerMoves DEF Alone, Access, Away, Busy, Calling, At
<1>3. ASSUME NEW t \in Callers, CallerStep(t)
      PROVE  Away'
  <2> SUFFICES ASSUME NEW u \in Callers, Busy(u)'
               PROVE  pc[Daemon] \notin Using \cup Controlling
    BY <1>3, CallerAlone DEF Away, Alone, At
  <2>1. CASE Busy(u)
    BY <2>1 DEF Access, Away, At
  <2>2. CASE ~Busy(u)
    <3>1. u = t
      BY <1>3, <2>2, CallerAlone DEF Alone, Busy, Calling
    <3>2. Calling(u) /\ (~cloud.binded \/ cloud.status = "BROKEN")
      BY <1>3, <2>2, <3>1, CallerTests
    <3>3. pc[Daemon] \notin Controlling
      BY <3>2 DEF Access, Locked, At
    <3>4. pc[Daemon] \notin Using
      BY <3>2 DEF Access, Unbound, Broken, At, ForBound
    <3> QED
      BY <3>3, <3>4
  <2> QED
    BY <2>1, <2>2
<1>4. CASE Reboot
  <2>1. pc'[Daemon] = "boot"
    BY <1>4 DEF Reboot, Started
  <2> QED
    BY <2>1 DEF Away, At, Using, Controlling, Connects, Requests
<1>5. CASE UNCHANGED <<cloud, lock, conf, pc, frame>>
  BY <1>5 DEF Access, Away, Busy, Calling, At
<1> QED
  BY <1>1, <1>2, <1>3, <1>4, <1>5, EnvironmentMoves DEF ApiNext, Next, vars

LEMMA AccessStep ==
  ASSUME OnlyBinds, ApiTypeOK, Places, Access, [ApiNext]_vars
  PROVE  Access'
  BY LockedStep, UnboundStep, BrokenStep, AwayStep DEF Access

-----------------------------------------------------------------------------
(* swCloudBind alone: what its thread and the daemon find in a connection. *)
LEMMA FdNumber == NoFd \notin Fds
  BY FdAssumption DEF NoFd

LEMMA ReturnsAway ==
  ASSUME OnlyBinds, Places, NEW t \in Threads, pc[t] \in RoutineLabels
  PROVE  /\ frame[t].back \notin RoutineLabels \cup Controlling
         /\ t = Daemon \/ t \in Callers
<1>1. t = Daemon \/ t \in Handlers \/ t \in Callers
  BY DEF Threads
<1>2. CASE t = Daemon
  BY <1>2 DEF OnlyBinds, Places, DaemonPlaces, At, Back, RoutineLabels,
              Controlling, Closes, Connects, Requests
<1>3. CASE t \in Handlers
  BY <1>3 DEF Places, HandlerLabels, RoutineLabels
<1>4. CASE t \in Callers
  BY <1>4 DEF OnlyBinds, Places, CallerPlaces, RoutineLabels, Controlling,
              Closes, Connects, Requests
<1> QED
  BY <1>1, <1>2, <1>3, <1>4

\* A thread in a routine keeps every other one out of those that read.
LEMMA NobodyElse ==
  ASSUME OnlyBinds, Places, Access, NEW t \in Threads, pc[t] \in Connects \cup Requests
  PROVE  /\ \A u \in Threads : u # t => pc[u] \notin Connects \cup Requests
         /\ pc[Daemon] \notin Controlling
<1>1. \A u \in Callers : pc[u] \in Connects \cup Requests => Busy(u) /\ lock = u
  BY DEF Busy, Calling, Access, Locked, RoutineLabels, Connects, Requests
<1>2. \A u \in Threads : pc[u] \in Connects \cup Requests => u = Daemon \/ u \in Callers
  BY ReturnsAway DEF RoutineLabels, Connects, Requests
<1>3. \A u \in Callers : Busy(u) => pc[Daemon] \notin Using \cup Controlling
  BY DEF Access, Away, At
<1>4. \A u \in Threads : u # t => pc[u] \notin Connects \cup Requests
  BY <1>1, <1>2, <1>3 DEF Using
<1>5. pc[Daemon] \notin Controlling
  BY <1>1, <1>2, <1>3 DEF Controlling, Connects, Requests
<1> QED
  BY <1>4, <1>5

\* A step that leaves the readers alone, and takes nothing but connections away.
LEMMA Fades ==
  ASSUME ApiTypeOK, Inboxes,
         \A u \in Threads : Reading(u) \/ Reading(u)' =>
                             pc'[u] = pc[u] /\ frame'[u] = frame[u],
         pc'[Daemon] \in {"ctl_recv_fd", "ctl_recv"} =>
           pc'[Daemon] = pc[Daemon] /\ frame'[Daemon] = frame[Daemon]
             /\ cloud'.fd = cloud.fd,
         cloud'.fd \in {cloud.fd, NoFd},
         \A f \in Fds : \/ sock'[f] = sock[f]
                        \/ sock'[f] = FreeSock
                        \/ sock'[f].st = "hup" /\ sock'[f].in = sock[f].in
  PROVE  Inboxes'
<1> USE FdNumber
<1>0. FreeSock.st = "free" /\ FreeSock.in = <<>>
  BY DEF FreeSock
<1>1. Emptied'
  BY <1>0 DEF Inboxes, Emptied
<1>2. Awaited'
  <2> SUFFICES ASSUME NEW u \in Threads, Reading(u)' PROVE Answerable(u)'
    BY DEF Awaited, Answerable, Reading
  <2>1. pc'[u] = pc[u] /\ frame'[u] = frame[u] /\ Answerable(u)
    BY DEF Inboxes, Awaited
  <2>2. \A f : Found(u, f) => Found(u, f)'
    BY <1>0, <2>1 DEF Found
  <2> QED
    BY <2>1, <2>2 DEF Answerable, Found
<1>3. Quiet'
  <2> SUFFICES ASSUME cloud'.fd \in Fds, sock'[cloud'.fd].in # <<>>
               PROVE  \E u \in Threads : Reading(u)'
    BY DEF Quiet
  <2>1. cloud.fd \in Fds /\ sock[cloud.fd].in # <<>>
    BY <1>0
  <2>2. PICK u \in Threads : Reading(u)
    BY <2>1 DEF Inboxes, Quiet
  <2> QED
    BY <2>2 DEF Reading
<1>4. EndMet'
  BY <1>0 DEF Inboxes, EndMet, At
<1> QED
  BY <1>1, <1>2, <1>3, <1>4 DEF Inboxes

\* A step in a routine that reads is judged by what the thread itself finds.
LEMMA OwnInboxes ==
  ASSUME OnlyBinds, ApiTypeOK, Places, Access, NEW t \in Threads, Alone(t),
         pc[t] \in Connects \cup Requests, pc'[t] \notin Controlling,
         Emptied', Answerable(t)', Quiet'
  PROVE  Inboxes'
<1> USE DaemonThread
<1>1. \A u \in Threads : u # t => pc'[u] = pc[u] /\ pc[u] \notin Connects \cup Requests
  BY NobodyElse DEF Alone
<1>2. pc'[Daemon] \notin Controlling
  BY <1>1, NobodyElse
<1>3. Awaited'
  BY <1>1 DEF Awaited, Answerable, Connects, Requests
<1>4. EndMet'
  BY <1>2 DEF EndMet, At, Controlling
<1> QED
  BY <1>3, <1>4 DEF Inboxes

\* A step of t after which it waits for nothing, and which only takes away.
LEMMA FadesAlone ==
  ASSUME OnlyBinds, ApiTypeOK, Places, Access, Inboxes, NEW t \in Threads, Alone(t),
         ~Reading(t), ~Reading(t)',
         t = Daemon => pc'[t] \notin Controlling,
         cloud'.fd = cloud.fd \/ (cloud'.fd = NoFd /\ pc[Daemon] \notin Controlling),
         \A f \in Fds : sock'[f] = sock[f] \/ sock'[f] = FreeSock
  PROVE  Inboxes'
<1>1. \A u \in Threads : Reading(u) \/ Reading(u)' =>
                          pc'[u] = pc[u] /\ frame'[u] = frame[u]
  BY DEF Alone
<1>2. pc'[Daemon] \in {"ctl_recv_fd", "ctl_recv"} =>
        pc'[Daemon] = pc[Daemon] /\ frame'[Daemon] = frame[Daemon] /\ cloud'.fd = cloud.fd
  BY DaemonThread DEF Alone, Controlling
<1> QED
  BY <1>1, <1>2, Fades

LEMMA CloseInboxes ==
  ASSUME OnlyBinds, ApiTypeOK, Places, Access, Inboxes, NEW t \in Threads,
         CloseTest(t) \/ CloseFd(t) \/ CloseClear(t)
  PROVE  Inboxes'
<1>1. pc[t] \in Closes
  BY DEF CloseTest, CloseFd, CloseClear, Closes
<1>2. Alone(t) /\ (pc'[t] \in Closes \/ pc'[t] = frame[t].back)
  BY <1>1, RoutineMoves DEF Routine, Closes, Connects, Requests
<1>3. frame[t].back \notin RoutineLabels \cup Controlling
  BY <1>1, ReturnsAway DEF Closes, RoutineLabels
<1>4. ~Reading(t) /\ ~Reading(t)' /\ pc'[t] \notin Controlling
  BY <1>1, <1>2, <1>3 DEF Reading, Closes, RoutineLabels, Controlling
<1>5. cloud'.fd = cloud.fd \/ (cloud'.fd = NoFd /\ pc[Daemon] \notin Controlling)
  <2>1. CASE CloseTest(t) \/ CloseFd(t)
    BY <2>1 DEF CloseTest, CloseFd, shared
  <2>2. CASE CloseClear(t)
    <3>1. cloud'.fd = NoFd
      BY <2>2 DEF CloseClear, ApiTypeOK, Typed, Clouds
    <3>2. t = Daemon \/ t \in Callers
      BY <1>1, ReturnsAway DEF Closes, RoutineLabels
    <3>3. t \in Callers => pc[Daemon] \notin Controlling
      BY <1>1, ThreadAssumption
         DEF Access, Locked, At, Calling, Closes, RoutineLabels
    <3>4. t = Daemon => pc[Daemon] \notin Controlling
      BY <1>1 DEF Closes, Controlling
    <3> QED
      BY <3>1, <3>2, <3>3, <3>4
  <2> QED
    BY <2>1, <2>2
<1>6. \A f \in Fds : sock'[f] = sock[f] \/ sock'[f] = FreeSock
  BY DEF CloseTest, CloseFd, CloseClear, shared, ApiTypeOK, Typed
<1> QED
  BY <1>2, <1>4, <1>5, <1>6, FadesAlone

LEMMA SocketInboxes ==
  ASSUME OnlyBinds, ApiTypeOK, Places, Access, Inboxes, NEW t \in Threads, Socket(t)
  PROVE  Inboxes'
<1>1. cloud \in Clouds /\ sock \in [Fds -> Sockets]
  BY DEF ApiTypeOK, Typed
<1>2. pc[t] = "socket" /\ Alone(t) /\ (pc'[t] \in Connects \/ pc'[t] = frame[t].back)
  BY RoutineMoves DEF Routine, Socket, Closes, Connects, Requests
<1>3. frame[t].back \notin RoutineLabels \cup Controlling
  BY <1>2, ReturnsAway DEF RoutineLabels
<1>4. pc'[t] \notin Controlling
  BY <1>2, <1>3 DEF Controlling, Connects
<1>5. PICK f \in SocketResults :
        IF f = NoFd
        THEN /\ cloud' = [cloud EXCEPT !.fd = NoFd, !.reachable = FALSE]
             /\ Return(t, "net")
             /\ sock' = sock
        ELSE /\ cloud' = [cloud EXCEPT !.fd = f]
             /\ sock' = [sock EXCEPT ![f].st = "open"]
             /\ Goto(t, "connect")
             /\ frame' = frame
  BY DEF Socket
<1>6. CASE f = NoFd
  <2>1. cloud'.fd = NoFd /\ sock' = sock
    BY <1>1, <1>5, <1>6 DEF Clouds
  <2>2. pc'[t] = frame[t].back
    BY <1>5, <1>6, CameBack
  <2>3. ~Reading(t) /\ ~Reading(t)'
    BY <1>2, <1>3, <2>2 DEF Reading, RoutineLabels
  <2>4. pc[Daemon] \notin Controlling
    BY <1>2, NobodyElse DEF Connects
  <2> QED
    BY <1>2, <1>4, <2>1, <2>3, <2>4, FadesAlone
<1>7. CASE f # NoFd
  <2>1. f \in Fds /\ sock[f].st = "free" /\ sock[f].in = <<>>
    BY <1>5, <1>7 DEF SocketResults, FreeFds, Inboxes, Emptied
  <2>2. cloud'.fd = f /\ pc'[t] = "connect"
    BY <1>1, <1>5, <1>7, Went DEF Clouds
  <2>3. \A g \in Fds : sock'[g].in = sock[g].in /\ (g # f => sock'[g] = sock[g])
    BY <1>1, <1>5, <1>7 DEF Sockets
  <2>4. Emptied'
    BY <2>1, <2>3 DEF Inboxes, Emptied
  <2>5. Answerable(t)'
    BY <2>2 DEF Answerable
  <2>6. Quiet'
    BY <2>1, <2>2, <2>3 DEF Quiet
  <2> QED
    BY <1>2, <1>4, <2>4, <2>5, <2>6, OwnInboxes DEF Connects
<1> QED
  BY <1>6, <1>7

LEMMA ConnectInboxes ==
  ASSUME OnlyBinds, ApiTypeOK, Places, Access, Inboxes, NEW t \in Threads, Connect(t)
  PROVE  Inboxes'
<1>1. cloud \in Clouds /\ sock \in [Fds -> Sockets]
  BY DEF ApiTypeOK, Typed
<1>2. pc[t] = "connect" /\ Alone(t) /\ (pc'[t] \in Connects \/ pc'[t] = frame[t].back)
  BY RoutineMoves DEF Routine, Connect, Closes, Connects, Requests
<1>3. frame[t].back \notin RoutineLabels \cup Controlling
  BY <1>2, ReturnsAway DEF RoutineLabels
<1>4. pc'[t] \notin Controlling
  BY <1>2, <1>3 DEF Controlling, Connects
<1>5. CASE ConnectFails(t) /\ sock' = sock
  <2>1. cloud'.fd = cloud.fd
    BY <1>1, <1>5 DEF ConnectFails, Clouds
  <2>2. pc'[t] = frame[t].back
    BY <1>5, CameBack DEF ConnectFails
  <2>3. ~Reading(t) /\ ~Reading(t)'
    BY <1>2, <1>3, <2>2 DEF Reading, RoutineLabels
  <2> QED
    BY <1>2, <1>4, <1>5, <2>1, <2>3, FadesAlone
<1>6. ASSUME cloud.fd \in Fds, sock[cloud.fd].st = "open",
             sock' = [sock EXCEPT ![cloud.fd].st = "up", ![cloud.fd].in = <<Hello>>]
               \/ sock' = [sock EXCEPT ![cloud.fd].st = "hup"],
             Goto(t, "hello_fd"), cloud' = cloud
      PROVE  Inboxes'
  <2> DEFINE f == cloud.fd
  <2>0. sock[f].in = <<>>
    BY <1>6 DEF Inboxes, Emptied
  <2>1. pc'[t] = "hello_fd"
    BY <1>6 DEF Goto, ApiTypeOK, Typed
  <2>2. \/ sock'[f].st = "up" /\ sock'[f].in = <<Hello>>
        \/ sock'[f].st = "hup" /\ sock'[f].in = <<>>
    <3>1. CASE sock' = [sock EXCEPT ![cloud.fd].st = "up", ![cloud.fd].in = <<Hello>>]
      BY <1>1, <1>6, <3>1 DEF Sockets
    <3>2. CASE sock' = [sock EXCEPT ![cloud.fd].st = "hup"]
      BY <1>1, <1>6, <2>0, <3>2 DEF Sockets
    <3> QED
      BY <1>6, <3>1, <3>2
  <2>3. \A g \in Fds : g # f => sock'[g] = sock[g]
    BY <1>1, <1>6
  <2>4. Emptied'
    BY <2>2, <2>3 DEF Inboxes, Emptied
  <2>5. Answerable(t)'
    BY <1>6, <2>1, <2>2 DEF Answerable, Found
  <2>6. Quiet'
    BY <2>1 DEF Quiet, Reading
  <2> QED
    BY <1>2, <1>4, <2>4, <2>5, <2>6, OwnInboxes DEF Connects
<1> QED
  BY <1>5, <1>6 DEF Connect, Unconnected

\* Both HelloFd and RecvFd note the descriptor the thread reads from.
LEMMA FdInboxes ==
  ASSUME OnlyBinds, ApiTypeOK, Places, Access, Inboxes, NEW t \in Threads,
         HelloFd(t) \/ RecvFd(t)
  PROVE  Inboxes'
<1>1. PICK g : g = [frame[t] EXCEPT !.rfd = cloud.fd]
  OBVIOUS
<1>2. g.rfd = cloud.fd /\ g.cmd = frame[t].cmd
  BY <1>1, Framed DEF Frames
<1>3. frame' = [frame EXCEPT ![t] = g] /\ UNCHANGED shared
  BY <1>1, Framed DEF HelloFd, RecvFd
<1>4. \/ pc[t] = "hello_fd" /\ Goto(t, "hello")
      \/ pc[t] = "recv_fd" /\ Goto(t, "recv")
  BY DEF HelloFd, RecvFd
<1>5. \/ pc[t] = "hello_fd" /\ pc'[t] = "hello"
      \/ pc[t] = "recv_fd" /\ pc'[t] = "recv"
  BY <1>4 DEF Goto, ApiTypeOK, Typed
<1>6. Alone(t) /\ frame'[t].rfd = cloud.fd /\ frame'[t].cmd = frame[t].cmd
  BY <1>2, <1>3, <1>4, Went2
<1>7. cloud' = cloud /\ sock' = sock
  BY <1>3 DEF shared
<1>8. Found(t, cloud.fd)
  BY <1>5 DEF Inboxes, Awaited, Answerable
<1>9. Answerable(t)'
  BY <1>5, <1>6, <1>7, <1>8 DEF Answerable, Found
<1>10. Emptied' /\ Quiet'
  <2>1. Reading(t)'
    BY <1>5 DEF Reading
  <2> QED
    BY <1>7, <2>1 DEF Inboxes, Emptied, Quiet
<1> QED
  BY <1>5, <1>6, <1>9, <1>10, OwnInboxes DEF Connects, Requests, Controlling

LEMMA ReadInboxes ==
  ASSUME OnlyBinds, ApiTypeOK, Places, Access, Inboxes, NEW t \in Threads,
         ReadHello(t) \/ Recv(t)
  PROVE  Inboxes'
<1> USE FdNumber
<1> DEFINE f == frame[t].rfd
<1>1. cloud \in Clouds /\ sock \in [Fds -> Sockets]
  BY DEF ApiTypeOK, Typed
<1>2. pc[t] \in {"hello", "recv"}
  BY DEF ReadHello, Recv
<1>3. Found(t, f) /\ cloud.fd \in {f, NoFd}
  BY <1>2 DEF Inboxes, Awaited, Answerable
<1>4. cloud'.fd = cloud.fd
  BY <1>1 DEF ReadHello, Recv, ConnectFails, RequestFails, Clouds
<1>5. \E r : Return(t, r)
  BY DEF ReadHello, Recv, ConnectFails, RequestFails
<1>6. Alone(t) /\ pc'[t] = frame[t].back
  BY <1>5, CameBack
<1>7. frame[t].back \notin RoutineLabels \cup Controlling
  BY <1>2, ReturnsAway DEF RoutineLabels
<1>8. Answerable(t)'
  BY <1>6, <1>7 DEF Answerable, RoutineLabels
<1>9. CASE HasPacket(f) /\ Pop(f)
  <2>1. /\ \A g \in Fds : g # f => sock'[g] = sock[g]
        /\ sock'[f].st = sock[f].st /\ sock'[f].in = Tail(sock[f].in)
    BY <1>1, <1>9 DEF HasPacket, Pop, Sockets
  <2>2. sock'[f].in = <<>>
    <3>1. \E p : sock[f].in = <<p>>
      BY <1>3, <1>9 DEF Found, HasPacket
    <3> QED
      BY <2>1, <3>1
  <2>3. Emptied'
    BY <2>1, <2>2 DEF Inboxes, Emptied
  <2>4. Quiet'
    BY <1>3, <1>4, <2>2 DEF Quiet
  <2> QED
    BY <1>2, <1>6, <1>7, <1>8, <2>3, <2>4, OwnInboxes DEF Connects, Requests
<1>10. CASE ReadFails(f) /\ sock' = sock
  <2>1. Emptied'
    BY <1>10 DEF Inboxes, Emptied
  <2>2. f \in Fds => sock[f].in = <<>>
    BY <1>10 DEF ReadFails, Inboxes, Emptied
  <2>3. Quiet'
    BY <1>3, <1>4, <1>10, <2>2 DEF Quiet
  <2> QED
    BY <1>2, <1>6, <1>7, <1>8, <2>1, <2>3, OwnInboxes DEF Connects, Requests
<1> QED
  BY <1>9, <1>10 DEF ReadHello, Recv

LEMMA SendInboxes ==
  ASSUME OnlyBinds, ApiTypeOK, Places, Access, Inboxes, NEW t \in Threads, Send(t)
  PROVE  Inboxes'
<1> DEFINE f == cloud.fd
           c == frame[t].cmd
<1>1. cloud \in Clouds /\ sock \in [Fds -> Sockets]
  BY DEF ApiTypeOK, Typed
<1>2. pc[t] = "send" /\ Alone(t)
  BY RoutineMoves DEF Routine, Send
<1>3. frame[t].back \notin RoutineLabels \cup Controlling
  BY <1>2, ReturnsAway DEF RoutineLabels
<1>4. CASE RequestFails(t) /\ sock' = sock
  <2>1. cloud'.fd = cloud.fd
    BY <1>1, <1>4 DEF RequestFails, Clouds
  <2>2. pc'[t] = frame[t].back
    BY <1>4, CameBack DEF RequestFails
  <2>3. ~Reading(t) /\ ~Reading(t)'
    BY <1>2, <1>3, <2>2 DEF Reading, RoutineLabels
  <2> QED
    BY <1>2, <1>3, <1>4, <2>1, <2>2, <2>3, FadesAlone
<1>5. ASSUME Connected(f), Answered(t, f, c) \/ Unanswered(t, f, c),
             Goto(t, "recv_fd"), cloud' = cloud, frame' = frame
      PROVE  Inboxes'
  <2>1. f \in Fds /\ sock[f].st = "up"
    BY <1>5 DEF Connected
  <2>2. sock[f].in = <<>>
    <3>1. \A u \in Threads : ~Reading(u)
      BY <1>2, NobodyElse DEF Reading, Connects, Requests
    <3> QED
      BY <2>1, <3>1 DEF Inboxes, Quiet
  <2>3. pc'[t] = "recv_fd" /\ frame'[t] = frame[t]
    BY <1>5, Went
  <2>4. /\ \/ sock'[f].st = "hup" /\ sock'[f].in = <<>>
           \/ /\ sock'[f].st = "up"
              /\ \E ok \in BOOLEAN : sock'[f].in = <<Answer(t, c, ok)>>
        /\ \A g \in Fds : g # f => sock'[g] = sock[g]
    <3>1. CASE Unanswered(t, f, c)
      BY <1>1, <2>1, <2>2, <3>1 DEF Unanswered, Sockets
    <3>2. CASE Answered(t, f, c)
      <4>1. PICK ok \in Verdicts(c) :
              sock' = [sock EXCEPT ![f].in = Append(@, Answer(t, c, ok)),
                                   ![f].auth = @ \/ (c = "AUTH" /\ ok)]
        BY <3>2 DEF Answered
      <4>2. ok \in BOOLEAN
        BY <4>1 DEF Verdicts
      <4>3. Append(sock[f].in, Answer(t, c, ok)) = <<Answer(t, c, ok)>>
        BY <2>2
      <4>4. PICK s : s = [sock[f] EXCEPT !.in = <<Answer(t, c, ok)>>,
                                         !.auth = @ \/ (c = "AUTH" /\ ok)]
        OBVIOUS
      <4>5. sock' = [sock EXCEPT ![f] = s]
        BY <1>1, <2>1, <4>1, <4>3, <4>4 DEF Sockets
      <4>6. s.in = <<Answer(t, c, ok)>> /\ s.st = "up"
        BY <1>1, <2>1, <4>4 DEF Sockets
      <4> QED
        BY <1>1, <2>1, <4>2, <4>5, <4>6
    <3> QED
      BY <1>5, <3>1, <3>2
  <2>5. Emptied'
    BY <2>4 DEF Inboxes, Emptied
  <2>6. Answerable(t)'
    BY <1>5, <2>1, <2>3, <2>4 DEF Answerable, Found
  <2>7. Quiet'
    BY <2>3 DEF Quiet, Reading
  <2> QED
    BY <1>2, <2>3, <2>5, <2>6, <2>7, OwnInboxes DEF Requests, Controlling
<1> QED
  BY <1>4, <1>5 DEF Send

LEMMA RoutineInboxes ==
  ASSUME OnlyBinds, ApiTypeOK, Places, Access, Inboxes, NEW t \in Threads, Routine(t)
  PROVE  Inboxes'
  BY CloseInboxes, SocketInboxes, ConnectInboxes, FdInboxes, ReadInboxes, SendInboxes
     DEF Routine

\* Outside the routines the daemon touches the connection only to read a
\* request.
LEMMA DaemonKeepsOff ==
  ASSUME ApiTypeOK, DaemonStep, ~Routine(Daemon), ~ControlRecv
  PROVE  /\ sock' = sock /\ cloud'.fd = cloud.fd
         /\ ~Reading(Daemon) /\ ~Reading(Daemon)'
         /\ pc'[Daemon] \in {"ctl_recv_fd", "ctl_recv"} => ControlSelect \/ ControlRecvFd
<1> USE DaemonThread
<1>1. cloud \in Clouds /\ cloud.status \in Statuses
  BY DEF ApiTypeOK, Typed, Clouds
<1>2. sock' = sock
  BY DEF DaemonStep, WaitAgent, Dispatch, StatusInit, SetConnecting,
         SetDisconnected, SetBroken, SetConnected, Linked, AuthDone, UpdateDone,
         SetUnbound, ClearUnbound, StatusConnected, NeedUpdate, NeedRead,
         NeedClear, RefreshDone, Retry, Resume, Pace, Restart, Poll, PollSelect,
         ControlLock, ControlPoll, ControlSelect, ControlRecvFd, UnbindDone,
         UnbindStatus, UnbindAccount, UnbindPassword, Reply, SetStatus, shared
<1>3. cloud'.fd = cloud.fd
  BY <1>1
     DEF DaemonStep, WaitAgent, Dispatch, StatusInit, SetConnecting,
         SetDisconnected, SetBroken, SetConnected, Linked, AuthDone, UpdateDone,
         SetUnbound, ClearUnbound, StatusConnected, NeedUpdate, NeedRead,
         NeedClear, RefreshDone, Retry, Resume, Pace, Restart, Poll, PollSelect,
         ControlLock, ControlPoll, ControlSelect, ControlRecvFd, UnbindDone,
         UnbindStatus, UnbindAccount, UnbindPassword, Reply, SetStatus, shared,
         ClearedCounters, Clouds
<1>4. ~Reading(Daemon)
  BY DEF DaemonStep, WaitAgent, Dispatch, StatusInit, SetConnecting,
         SetDisconnected, SetBroken, SetConnected, Linked, AuthDone, UpdateDone,
         SetUnbound, ClearUnbound, StatusConnected, NeedUpdate, NeedRead,
         NeedClear, RefreshDone, Retry, Resume, Pace, Restart, Poll, PollSelect,
         ControlLock, ControlPoll, ControlSelect, ControlRecvFd, UnbindDone,
         UnbindStatus, UnbindAccount, UnbindPassword, Reply, SetStatus, Reading
<1> DEFINE Reads ==
      {"hello_fd", "hello", "recv_fd", "recv", "ctl_recv_fd", "ctl_recv"}
<1>5. ASSUME ~ControlSelect, ~ControlRecvFd
      PROVE  pc'[Daemon] \notin Reads
  <2>1. \/ \E l : l \notin Reads /\ Goto(Daemon, l)
        \/ \E l : l \notin Reads /\ Leave(Daemon, l)
        \/ \E l, b : l \notin Reads /\ Call(Daemon, l, b)
        \/ \E c, b : Request(Daemon, c, b)
    <3>1. CASE Dispatch
      BY <1>1, <3>1 DEF Dispatch, Statuses
    <3>2. CASE NeedRead
      BY <3>2 DEF NeedRead
    <3> QED
      BY <1>5, <3>1, <3>2
         DEF DaemonStep, WaitAgent, StatusInit, SetConnecting,
             SetDisconnected, SetBroken, SetConnected, Linked, AuthDone, UpdateDone,
             SetUnbound, ClearUnbound, StatusConnected, NeedUpdate,
             NeedClear, RefreshDone, Retry, Resume, Pace, Restart, Poll, PollSelect,
             ControlLock, ControlPoll, ControlNothing, UnbindDone,
             UnbindStatus, UnbindAccount, UnbindPassword, Reply, SetStatus
  <2>2. ASSUME NEW l, l \notin Reads, Goto(Daemon, l)
        PROVE  pc'[Daemon] \notin Reads
    BY <2>2 DEF Goto, ApiTypeOK, Typed
  <2> QED
    BY <2>1, <2>2, Left, Called, Requested
<1>6. CASE ControlSelect \/ ControlRecvFd
  <2>1. pc'[Daemon] \in {"top", "ctl_recv_fd", "ctl_recv"}
    BY <1>6 DEF ControlSelect, ControlNothing, ControlRecvFd, Goto, ApiTypeOK, Typed
  <2> QED
    BY <1>2, <1>3, <1>4, <1>6, <2>1 DEF Reading
<1> QED
  BY <1>2, <1>3, <1>4, <1>5, <1>6 DEF Reading

\* Under its lock network_device_control finds nothing in the connection: it
\* reads where the connection has ended.
LEMMA NothingPushed ==
  ASSUME OnlyBinds, Places, Access, Inboxes, pc[Daemon] \in Controlling
  PROVE  \A f \in Fds : f = cloud.fd => sock[f].in = <<>>
<1>1. \A u \in Threads : ~Reading(u)
  BY NobodyElse DEF Reading, Connects, Requests
<1> QED
  BY <1>1 DEF Inboxes, Quiet

LEMMA ControlInboxes ==
  ASSUME OnlyBinds, ApiTypeOK, Places, Access, Inboxes,
         ControlSelect \/ ControlRecvFd
  PROVE  Inboxes'
<1> USE DaemonThread
<1>1. sock' = sock /\ cloud' = cloud /\ Alone(Daemon) /\ ~Reading(Daemon)'
  BY DaemonAlone, DaemonKeepsOff
     DEF DaemonStep, ControlSelect, ControlRecvFd, shared, Routine, CloseTest, CloseFd,
         CloseClear, Socket, Connect, HelloFd, ReadHello, Send, RecvFd, Recv, ControlRecv
<1>2. pc[Daemon] \in Controlling
  BY DEF ControlSelect, ControlRecvFd, Controlling
<1>3. Awaited'
  <2>1. \A u \in Threads : u # Daemon => pc'[u] = pc[u] /\ frame'[u] = frame[u]
    BY <1>1 DEF Alone
  <2>2. \A u \in Threads : u # Daemon => Answerable(u)'
    BY ZenonT(40), <1>1, <2>1 DEF Inboxes, Awaited, Answerable, Found
  <2>3. Answerable(Daemon)'
    BY <1>1 DEF Answerable, Reading
  <2> QED
    BY <2>2, <2>3 DEF Awaited
<1>4. Quiet'
  BY <1>1, <1>2, NothingPushed DEF Quiet
<1>5. EndMet'
  <2>1. CASE ControlSelect
    <3>1. ASSUME pc'[Daemon] \in {"ctl_recv_fd", "ctl_recv"}
          PROVE  TRUE \in ReadEvents(cloud.fd) /\ pc'[Daemon] = "ctl_recv_fd"
      <4>1. PICK ready \in ReadEvents(cloud.fd) :
              IF ready THEN Goto(Daemon, "ctl_recv_fd") ELSE Goto(Daemon, "top")
        BY <2>1 DEF ControlSelect, ControlNothing
      <4>2. ready \in BOOLEAN
        BY <4>1 DEF ReadEvents
      <4>3. CASE ready = TRUE
        BY <4>1, <4>3 DEF Goto, ApiTypeOK, Typed
      <4>4. CASE ready = FALSE
        BY <3>1, <4>1, <4>4 DEF Goto, ApiTypeOK, Typed
      <4> QED
        BY <4>2, <4>3, <4>4
    <3>2. TRUE \in ReadEvents(cloud.fd) /\ cloud.fd \in Fds => sock[cloud.fd].st # "up"
      BY <1>2, NothingPushed DEF ReadEvents
    <3> QED
      BY <1>1, <3>1, <3>2 DEF EndMet, At
  <2>2. CASE ControlRecvFd
    <3> PICK g : g = [frame[Daemon] EXCEPT !.rfd = cloud.fd]
      OBVIOUS
    <3>1. g.rfd = cloud.fd
      BY Framed DEF Frames
    <3>2. frame' = [frame EXCEPT ![Daemon] = g] /\ Goto(Daemon, "ctl_recv")
          /\ pc[Daemon] = "ctl_recv_fd"
      BY <2>2, Framed DEF ControlRecvFd
    <3>3. frame'[Daemon] = g
      BY <3>2, Went2
    <3> QED
      BY <1>1, <3>1, <3>2, <3>3 DEF Inboxes, EndMet, At
  <2> QED
    BY <2>1, <2>2
<1> QED
  BY <1>1, <1>3, <1>4, <1>5 DEF Inboxes, Emptied

LEMMA DaemonInboxes ==
  ASSUME OnlyBinds, ApiTypeOK, Places, Access, Inboxes, DaemonStep
  PROVE  Inboxes'
<1> USE DaemonThread
<1>1. CASE Routine(Daemon)
  BY <1>1, RoutineInboxes
<1>2. CASE ControlRecv
  <2>1. pc[Daemon] = "ctl_recv" /\ frame[Daemon].rfd = cloud.fd
    BY <1>2 DEF ControlRecv, Inboxes, EndMet, At
  <2>2. ~HasPacket(cloud.fd)
    BY <2>1, NothingPushed DEF Controlling, HasPacket
  <2>3. Call(Daemon, "close_test", "to_disconnected") /\ sock' = sock /\ cloud' = cloud
    BY <1>2, <2>1, <2>2 DEF ControlRecv
  <2>4. pc'[Daemon] = "close_test" /\ Alone(Daemon)
    BY <2>3, Called
  <2> QED
    BY <2>1, <2>3, <2>4, FadesAlone DEF Reading, Controlling
<1>3. CASE ControlSelect \/ ControlRecvFd
  BY <1>3, ControlInboxes
<1>4. ASSUME ~Routine(Daemon), ~ControlRecv, ~ControlSelect, ~ControlRecvFd
      PROVE  Inboxes'
  <2>1. /\ sock' = sock /\ cloud'.fd = cloud.fd
        /\ ~Reading(Daemon) /\ ~Reading(Daemon)'
        /\ pc'[Daemon] \notin {"ctl_recv_fd", "ctl_recv"}
    BY <1>4, DaemonKeepsOff
  <2>2. \A u \in Threads : Reading(u) \/ Reading(u)' =>
                            pc'[u] = pc[u] /\ frame'[u] = frame[u]
    BY <2>1, DaemonAlone DEF Alone
  <2> QED
    BY <2>1, <2>2, Fades
<1> QED
  BY <1>1, <1>2, <1>3, <1>4

LEMMA CallerInboxes ==
  ASSUME OnlyBinds, ApiTypeOK, Places, Access, Inboxes, NEW t \in Callers, CallerStep(t)
  PROVE  Inboxes'
<1> USE CallerThread
<1>1. CASE Routine(t)
  BY <1>1, RoutineInboxes
<1>2. CASE Bind(t) \/ BindStep(t) \/ Returned(t)
  <2>1. sock' = sock
    BY <1>2
       DEF Bind, BindStep, BindBinded, BindStatus, BindConnect, BindLinked, BindAccount,
           BindName, BindAuthed, BindBound, BindGoesOn, BindUpdated, BindConnected,
           SetStatus, BindFlag, BindSave, BindSavePassword, SaveAccount, SavePassword,
           BindUnlock, Returned, shared
  <2>2. cloud'.fd = cloud.fd
    <3>1. cloud \in Clouds
      BY DEF ApiTypeOK, Typed
    <3> QED
      BY <1>2, <3>1
         DEF Bind, BindStep, BindBinded, BindStatus, BindConnect, BindLinked,
             BindAccount, BindName, BindAuthed, BindBound, BindGoesOn, BindUpdated,
             BindConnected, SetStatus, BindFlag, BindSave, BindSavePassword, SaveAccount,
             SavePassword, BindUnlock, Returned, shared, Clouds
  <2>3. ~Reading(t)
    BY <1>2
       DEF Bind, BindStep, BindBinded, BindStatus, BindConnect, BindLinked, BindAccount,
           BindName, BindAuthed, BindBound, BindGoesOn, BindUpdated, BindConnected,
           SetStatus, BindFlag, BindSave, BindSavePassword, SaveAccount, SavePassword,
           BindUnlock, Returned, Reading
  <2>4. ~Reading(t)'
    <3> DEFINE Elsewhere(l) == l \notin {"hello_fd", "hello", "recv_fd", "recv"}
    <3>1. \/ \E l : Elsewhere(l) /\ Goto(t, l)
          \/ \E l, b : Elsewhere(l) /\ Call(t, l, b)
          \/ \E c, b : Request(t, c, b)
          \/ \E r, l : Elsewhere(l) /\ SetResult(t, r, l)
          \/ pc' = [pc EXCEPT ![t] = "idle"]
      BY <1>2
         DEF Bind, BindStep, BindBinded, BindStatus, BindConnect, BindLinked,
             BindAccount, BindName, BindAuthed, BindBound, BindGoesOn, BindUpdated,
             BindConnected, SetStatus, BindFlag, BindSave, BindSavePassword, SaveAccount,
             SavePassword, BindUnlock, Returned
    <3>2. ASSUME NEW l, Elsewhere(l), Goto(t, l)
          PROVE  Elsewhere(pc'[t])
      BY <3>2 DEF Goto, ApiTypeOK, Typed
    <3>3. CASE pc' = [pc EXCEPT ![t] = "idle"]
      BY <3>3 DEF ApiTypeOK, Typed, Reading
    <3> QED
      BY <3>1, <3>2, <3>3, Called, Requested, ResultSet DEF Reading
  <2> QED
    BY <1>2, <2>1, <2>2, <2>3, <2>4, CallerAlone, FadesAlone DEF CallerStep, CallerWork
<1> QED
  BY <1>1, <1>2, CallerBinds

\* Nothing is open after a boot, and nobody has begun.
LEMMA FreshInboxes ==
  ASSUME sock = AllFree, cloud.fd = NoFd, pc = Started
  PROVE  Inboxes
<1>1. \A f \in Fds : sock[f].in = <<>>
  BY DEF AllFree, FreeSock
<1>2. \A t \in Threads : pc[t] \in {"boot", "idle"}
  BY DEF Started
<1> QED
  BY <1>1, <1>2, DaemonThread, FdNumber
     DEF Inboxes, Emptied, Awaited, Answerable, Quiet, EndMet, At

LEMMA InboxesStep ==
  ASSUME OnlyBinds, ApiTypeOK, Places, Access, Inboxes, [ApiNext]_vars
  PROVE  Inboxes'
<1> USE HandlerThread
<1>1. ASSUME NEW h \in Handlers, HandlerStep(h)
      PROVE  Inboxes'
  <2>1. ~Reading(h) /\ ~Reading(h)'
    BY <1>1, HandlerMoves DEF Places, HandlerLabels, Reading
  <2> QED
    BY <1>1, <2>1, HandlerMoves, HandlerKeepsOff, FadesAlone
<1>2. CASE Environment
  <2>1. ~AgentPushes
    BY DEF OnlyBinds, AgentPushes
  <2>2. CASE AgentStarts \/ AgentDrops
    <3>1. UNCHANGED <<cloud, pc, frame>>
      BY <2>2 DEF AgentStarts, AgentDrops
    <3>2. \A f \in Fds : sock'[f] = sock[f]
                          \/ (sock'[f].st = "hup" /\ sock'[f].in = sock[f].in)
      BY <2>2 DEF AgentStarts, AgentDrops, ApiTypeOK, Typed, Sockets
    <3> QED
      BY <3>1, <3>2, Fades DEF Reading
  <2>3. CASE Reboot
    <3>1. sock' = AllFree /\ cloud'.fd = NoFd /\ pc' = Started
      BY <2>3 DEF Reboot, Booted
    <3>2. \A f \in Fds : sock'[f].in = <<>>
      BY <3>1 DEF AllFree, FreeSock
    <3>3. \A t \in Threads : pc'[t] \in {"boot", "idle"}
      BY <3>1 DEF Started
    <3> QED
      BY <3>1, <3>2, <3>3, DaemonThread, FdNumber
         DEF Inboxes, Emptied, Awaited, Answerable, Quiet, EndMet, At
  <2> QED
    BY <1>2, <2>1, <2>2, <2>3 DEF Environment
<1>3. CASE UNCHANGED vars
  BY <1>3, Fades DEF vars, Reading
<1> QED
  BY <1>1, <1>2, <1>3, DaemonInboxes, CallerInboxes DEF ApiNext, Next

LEMMA BindInit == Init => Access /\ Inboxes
<1> SUFFICES ASSUME Init PROVE Access /\ Inboxes
  OBVIOUS
<1>1. pc = Started /\ sock = AllFree
  BY DEF Init
<1>2. cloud.status = "INIT" /\ cloud.fd = NoFd
  BY DEF Init, Booted
<1>3. pc[Daemon] = "boot" /\ \A t \in Callers : pc[t] = "idle"
  BY <1>1, DaemonThread, CallerThread DEF Started
<1>4. Access
  BY <1>2, <1>3 DEF Access, Locked, Unbound, Broken, Away, Busy, Calling, At, ForBound,
                    Using, Controlling, Connects, Requests, BindLabels, RoutineLabels
<1> QED
  BY <1>1, <1>2, <1>4, FreshInboxes

-----------------------------------------------------------------------------
(* swCloudBind alone: what the agent has granted.                          *)

\* Outside the routines the daemon begins a request with AUTH or UPDEV only.
LEMMA DaemonAsks ==
  ASSUME OnlyBinds, ApiTypeOK, Places, DaemonStep, ~Routine(Daemon),
         pc'[Daemon] \in Requests
  PROVE  \E c \in {"AUTH", "UPDEV"}, b \in {"auth_done", "update_done", "refresh_done"} :
           Request(Daemon, c, b)
<1> USE DaemonThread DEF Requests
<1>1. CASE Linked \/ AuthDone \/ NeedClear
  BY <1>1, Left DEF Linked, AuthDone, NeedClear
<1>2. CASE ControlRecv
  <2>1. CASE HasPacket(frame[Daemon].rfd)
    <3>1. PICK d \in Contents(Head(sock[frame[Daemon].rfd].in)) :
            CASE d = "UNBIND" -> Request(Daemon, "UBINDEV", "unbind_done")
              [] d = "NONE"   -> Leave(Daemon, "top")
              [] OTHER        -> Leave(Daemon, "reply")
      BY <1>2, <2>1 DEF ControlRecv, HasPacket, ReadFails
    <3>2. d = "NONE"
      BY <2>1, ContentsPushed DEF HasPacket, OnlyBinds
    <3> QED
      BY <3>1, <3>2, Left
  <2>2. CASE ~HasPacket(frame[Daemon].rfd)
    BY <1>2, <2>2, Called DEF ControlRecv
  <2> QED
    BY <2>1, <2>2
<1>3. CASE UnbindDone \/ UnbindStatus \/ UnbindAccount \/ UnbindPassword
  BY <1>3
     DEF OnlyBinds, Places, DaemonPlaces, At, RoutineLabels, DaemonLabels,
         UnbindLabels, UnbindDone, UnbindStatus, SetStatus, UnbindAccount, UnbindPassword
<1>4. CASE Dispatch
  <2>1. cloud.status \in Statuses
    BY DEF ApiTypeOK, Typed, Clouds
  <2>2. \/ \E l : l \notin Requests /\ Leave(Daemon, l)
        \/ \E l, b : l \notin Requests /\ Call(Daemon, l, b)
    BY <1>4, <2>1 DEF Dispatch, Statuses
  <2> QED
    BY <2>2, Left, Called
<1>5. CASE NeedRead
  BY <1>5 DEF NeedRead, Goto, ApiTypeOK, Typed
<1>6. ASSUME ~(Linked \/ AuthDone \/ NeedClear), ~ControlRecv, ~Dispatch, ~NeedRead,
             ~(UnbindDone \/ UnbindStatus \/ UnbindAccount \/ UnbindPassword)
      PROVE  FALSE
  <2>1. \/ \E l : l \notin Requests /\ Goto(Daemon, l)
        \/ \E l : l \notin Requests /\ Leave(Daemon, l)
        \/ \E b : Call(Daemon, "close_test", b)
    BY <1>6
       DEF DaemonStep, WaitAgent, StatusInit, SetConnecting, SetDisconnected, SetBroken,
           SetConnected, SetUnbound, SetStatus, UpdateDone, ClearUnbound,
           StatusConnected, NeedUpdate, RefreshDone, Retry, Resume, Pace, Restart, Poll,
           PollSelect, ControlLock, ControlPoll, ControlSelect, ControlNothing,
           ControlRecvFd, Reply
  <2>2. ASSUME NEW l, l \notin Requests, Goto(Daemon, l)
        PROVE  pc'[Daemon] \notin Requests
    BY <2>2 DEF Goto, ApiTypeOK, Typed
  <2> QED
    BY <2>1, <2>2, Left, Called
<1> QED
  BY <1>1, <1>2, <1>3, <1>4, <1>5, <1>6

\* swCloudBind begins a request in one of three places.
LEMMA CallerAsks ==
  ASSUME ApiTypeOK, NEW t \in Callers, Bind(t) \/ BindStep(t) \/ Returned(t),
         pc'[t] \in Requests
  PROVE  \/ Request(t, "AUTH", "bind_authed")
         \/ Request(t, "BINDEV", "bind_bound")
         \/ BindBound(t) /\ Result(t) = "ok" /\ Request(t, "UPDEV", "bind_updated")
<1> USE CallerThread
<1>1. \/ \E l : l \notin Requests /\ Goto(t, l)
      \/ \E l, b : l \in {"close_test", "socket"} /\ Call(t, l, b)
      \/ Request(t, "AUTH", "bind_authed")
      \/ Request(t, "BINDEV", "bind_bound")
      \/ BindBound(t) /\ Result(t) = "ok" /\ Request(t, "UPDEV", "bind_updated")
      \/ pc' = [pc EXCEPT ![t] = "idle"]
  <2>1. CASE BindStep(t) /\ ~BindBound(t)
    <3>1. CASE BindBinded(t) \/ BindStatus(t) \/ BindConnect(t)
      BY <3>1 DEF BindBinded, BindStatus, SetResult, BindConnect, Requests
    <3>2. CASE BindLinked(t) \/ BindAuthed(t)
      BY <3>2 DEF BindLinked, BindAuthed, BindGoesOn, Requests
    <3>3. CASE BindAccount(t) \/ BindName(t) \/ BindUpdated(t)
      BY <3>3 DEF BindAccount, BindName, BindUpdated, SetResult, Requests
    <3>4. CASE BindConnected(t) \/ BindFlag(t) \/ BindSave(t)
                \/ BindSavePassword(t) \/ BindUnlock(t)
      BY <3>4 DEF BindConnected, SetStatus, BindFlag, BindSave, BindSavePassword,
                  SaveAccount, SavePassword, BindUnlock, Requests
    <3> QED
      BY <2>1, <3>1, <3>2, <3>3, <3>4 DEF BindStep
  <2>2. CASE BindBound(t)
    BY <2>2 DEF BindBound, BindGoesOn
  <2>3. CASE Bind(t) \/ Returned(t)
    BY <2>3 DEF Bind, Returned, Requests
  <2> QED
    BY <2>1, <2>2, <2>3
<1>2. ASSUME NEW l, l \notin Requests, Goto(t, l)
      PROVE  pc'[t] \notin Requests
  BY <1>2 DEF Goto, ApiTypeOK, Typed
<1>3. ~\E l, b : l \in {"close_test", "socket"} /\ Call(t, l, b)
  BY Called DEF Requests
<1>4. pc' # [pc EXCEPT ![t] = "idle"]
  BY DEF Requests, ApiTypeOK, Typed
<1> QED
  BY <1>1, <1>2, <1>3, <1>4

LEMMA RoutineAsks ==
  ASSUME OnlyBinds, ApiTypeOK, Places, Asked, NEW t \in Threads, Routine(t),
         pc'[t] \in Requests
  PROVE  /\ pc[t] \in Requests
         /\ frame'[t].cmd = frame[t].cmd /\ frame'[t].back = frame[t].back
<1>1. pc[t] \in RoutineLabels
  BY RoutineMoves DEF Closes, Connects, Requests, RoutineLabels
<1>2. frame[t].back \notin RoutineLabels
  BY <1>1, ReturnsAway
<1> QED
  BY <1>2, RoutineMoves DEF Closes, Connects, Requests, RoutineLabels

LEMMA AskedStep ==
  ASSUME OnlyBinds, ApiTypeOK, Places, Asked, [ApiNext]_vars
  PROVE  Asked'
<1> SUFFICES ASSUME NEW u \in Threads, pc'[u] \in Requests
             PROVE  /\ frame'[u].cmd # "UBINDEV"
                    /\ frame'[u].back = "bind_bound" => frame'[u].cmd = "BINDEV"
  BY DEF Asked
<1> USE DaemonThread, HandlerThread, CallerThread
<1>1. ASSUME pc'[u] = pc[u], frame'[u] = frame[u]
      PROVE  /\ frame'[u].cmd # "UBINDEV"
             /\ frame'[u].back = "bind_bound" => frame'[u].cmd = "BINDEV"
  BY <1>1 DEF Asked
<1>2. CASE Routine(u)
  BY <1>2, RoutineAsks DEF Asked
<1>3. CASE DaemonStep /\ ~Routine(u)
  <2>1. CASE u = Daemon
    BY <1>3, <2>1, DaemonAsks, Requested
  <2> QED
    BY <1>1, <1>3, <2>1, DaemonAlone DEF Alone
<1>4. ASSUME NEW h \in Handlers, HandlerStep(h)
      PROVE  /\ frame'[u].cmd # "UBINDEV"
             /\ frame'[u].back = "bind_bound" => frame'[u].cmd = "BINDEV"
  <2>1. u # h
    BY <1>4, HandlerMoves DEF HandlerLabels, Requests
  <2> QED
    BY <1>1, <1>4, <2>1, HandlerMoves DEF Alone
<1>5. ASSUME NEW t \in Callers, CallerStep(t), ~Routine(u)
      PROVE  /\ frame'[u].cmd # "UBINDEV"
             /\ frame'[u].back = "bind_bound" => frame'[u].cmd = "BINDEV"
  <2>1. CASE u = t
    <3>1. Bind(t) \/ BindStep(t) \/ Returned(t)
      BY <1>5, <2>1, CallerBinds
    <3> QED
      BY <2>1, <3>1, CallerAsks, Requested
  <2>2. CASE u # t
    BY <1>1, <1>5, <2>2, CallerAlone DEF Alone
  <2> QED
    BY <2>1, <2>2
<1>6. CASE Reboot
  BY <1>6 DEF Reboot, Started, Requests
<1>7. CASE UNCHANGED <<cloud, lock, conf, pc, frame>>
  BY <1>1, <1>7
<1> QED
  BY <1>2, <1>3, <1>4, <1>5, <1>6, <1>7, EnvironmentMoves DEF ApiNext, Next, vars

\* What a step that is no request does to the agent: it never forgets or learns
\* a binding by itself.
LEMMA AgentKept ==
  ASSUME ApiTypeOK, [ApiNext]_vars, \A t \in Threads : ~Send(t)
  PROVE  agent'.bound = agent.bound
<1> USE DaemonThread, CallerThread
<1>1. ASSUME NEW t \in Threads, Routine(t)
      PROVE  agent' = agent
  BY <1>1 DEF Routine, CloseTest, CloseFd, CloseClear, Socket, Connect, HelloFd,
              ReadHello, RecvFd, Recv, shared
<1>2. CASE DaemonStep
  BY <1>1, <1>2
     DEF DaemonStep, WaitAgent, Dispatch, StatusInit, SetConnecting, SetDisconnected,
         SetBroken, SetConnected, Linked, AuthDone, UpdateDone, SetUnbound,
         ClearUnbound, StatusConnected, NeedUpdate, NeedRead, NeedClear, RefreshDone,
         Retry, Resume, Pace, Restart, Poll, PollSelect, ControlLock, ControlPoll,
         ControlSelect, ControlRecvFd, ControlRecv, UnbindDone, UnbindStatus,
         UnbindAccount, UnbindPassword, Reply, SetStatus, shared
<1>3. CASE \E h \in Handlers : HandlerStep(h)
  BY <1>3
     DEF HandlerStep, DeliverField, DeliverUpnp, DeliverNetwork, Deliver, StoreField,
         MarkField, MarkNetwork, MarkUpdate, StoreUpnp, MarkUpnp, SetRestart, SetStatus,
         shared
<1>4. ASSUME NEW t \in Callers, CallerStep(t)
      PROVE  agent' = agent
  <2>1. CASE Bind(t) \/ BindStep(t) \/ Returned(t)
    BY <2>1
       DEF Bind, BindStep, BindBinded, BindStatus, BindConnect, BindLinked, BindAccount,
           BindName, BindAuthed, BindBound, BindGoesOn, BindUpdated, BindConnected,
           SetStatus, BindFlag, BindSave, BindSavePassword, SaveAccount, SavePassword,
           BindUnlock, Returned, shared
  <2>2. CASE UBind(t) \/ UBindStep(t)
    BY <2>2
       DEF UBind, UBindStep, UBindStatus, UBindLinked, UBindAuthed, UBindDone,
           UBindGoesOn, UBindFlag, UBindInit, UBindBroken, UBindOffline, SetStatus,
           UBindSave, UBindSavePassword, SaveAccount, SavePassword, UBindClose, shared
  <2>3. CASE Ping(t) \/ PingStep(t)
    BY <2>3 DEF Ping, PingStep, PingAgain, PingClear, PingSet, SetStatus, PingRead,
                shared
  <2> QED
    BY <1>1, <1>4, <2>1, <2>2, <2>3 DEF CallerStep, CallerWork
<1>5. CASE Environment
  BY <1>5 DEF Environment, AgentStarts, AgentPushes, AgentDrops, Reboot, ApiTypeOK, Typed
<1> QED
  BY <1>2, <1>3, <1>4, <1>5 DEF ApiNext, Next, vars

\* A request other than UBINDEV leaves a bound device bound.
LEMMA AgentBinds ==
  ASSUME ApiTypeOK, Asked, [ApiNext]_vars, agent.bound
  PROVE  agent'.bound
<1>1. ASSUME NEW t \in Threads, Send(t)
      PROVE  agent'.bound
  <2>1. pc[t] = "send"
    BY <1>1 DEF Send
  <2>2. frame[t].cmd # "UBINDEV"
    BY <2>1 DEF Asked, Requests
  <2>3. \/ agent' = agent
        \/ \E ok : agent' = Served(frame[t].cmd, ok, frame[t].info)
    BY <1>1 DEF Send, Answered, Unanswered
  <2>4. \A ok : Served(frame[t].cmd, ok, frame[t].info).bound = TRUE
    BY <2>2 DEF Served, ApiTypeOK, Typed
  <2> QED
    BY <2>3, <2>4
<1> QED
  BY <1>1, AgentKept

LEMMA StateOnly ==
  ASSUME ApiTypeOK, NEW g, NEW s, sock' = [sock EXCEPT ![g].st = s], NEW f \in Fds
  PROVE  sock'[f].in = sock[f].in
<1> PICK r : r = [sock[g] EXCEPT !.st = s]
  OBVIOUS
<1>1. sock' = [sock EXCEPT ![g] = r] /\ sock \in [Fds -> Sockets]
  BY DEF ApiTypeOK, Typed
<1>2. g \in Fds => r.in = sock[g].in
  BY <1>1 DEF Sockets
<1> QED
  BY <1>1, <1>2

LEMMA OneEntry ==
  ASSUME NEW a, NEW b, <<a>> = <<b>>
  PROVE  a = b
<1>1. <<a>>[1] = <<b>>[1]
  OBVIOUS
<1> QED
  BY <1>1

\* Only a request puts an answer into a connection.
LEMMA RoutineFills ==
  ASSUME OnlyBinds, ApiTypeOK, Inboxes, NEW t \in Threads, Routine(t), ~Send(t),
         NEW f \in Fds
  PROVE  sock'[f].in \in {sock[f].in, <<>>, <<Hello>>}
<1>1. sock \in [Fds -> Sockets]
  BY DEF ApiTypeOK, Typed
<1>2. CASE CloseTest(t) \/ CloseFd(t) \/ CloseClear(t) \/ HelloFd(t) \/ RecvFd(t)
  BY <1>1, <1>2 DEF CloseTest, CloseFd, CloseClear, HelloFd, RecvFd, FreeSock, shared
<1>3. CASE Socket(t)
  <2>1. \/ sock' = sock
        \/ \E g \in Fds : sock' = [sock EXCEPT ![g].st = "open"]
    BY <1>3 DEF Socket, SocketResults, FreeFds
  <2> QED
    BY <2>1, StateOnly
<1>4. CASE Connect(t)
  <2>1. \/ sock' = sock
        \/ sock' = [sock EXCEPT ![cloud.fd].st = "up", ![cloud.fd].in = <<Hello>>]
        \/ sock' = [sock EXCEPT ![cloud.fd].st = "hup"]
    BY <1>4 DEF Connect
  <2>2. CASE sock' = [sock EXCEPT ![cloud.fd].st = "up", ![cloud.fd].in = <<Hello>>]
    BY <1>1, <2>2 DEF Sockets
  <2> QED
    BY <2>1, <2>2, StateOnly
<1>5. CASE ReadHello(t) \/ Recv(t)
  <2> DEFINE g == frame[t].rfd
  <2>1. CASE sock' = sock
    BY <2>1
  <2>2. CASE HasPacket(g) /\ Pop(g)
    <3>1. Found(t, g)
      BY <1>5 DEF ReadHello, Recv, Inboxes, Awaited, Answerable
    <3>2. \E p : sock[g].in = <<p>>
      BY <2>2, <3>1 DEF Found, HasPacket
    <3>3. /\ g \in Fds /\ \A h \in Fds : h # g => sock'[h] = sock[h]
          /\ sock'[g].in = Tail(sock[g].in)
      BY <1>1, <2>2 DEF HasPacket, Pop, Sockets
    <3> QED
      BY <3>2, <3>3
  <2> QED
    BY <1>5, <2>1, <2>2 DEF ReadHello, Recv
<1> QED
  BY <1>2, <1>3, <1>4, <1>5 DEF Routine

LEMMA InboxFills ==
  ASSUME OnlyBinds, ApiTypeOK, Places, Access, Inboxes, [ApiNext]_vars,
         \A t \in Threads : ~Send(t), NEW f \in Fds
  PROVE  sock'[f].in \in {sock[f].in, <<>>, <<Hello>>}
<1> USE DaemonThread, CallerThread, HandlerThread
<1>1. CASE DaemonStep /\ ~Routine(Daemon)
  <2>1. CASE ControlRecv
    <3>1. pc[Daemon] = "ctl_recv" /\ frame[Daemon].rfd = cloud.fd
      BY <2>1 DEF ControlRecv, Inboxes, EndMet, At
    <3>2. ~HasPacket(cloud.fd)
      BY <3>1, NothingPushed DEF Controlling, HasPacket
    <3> QED
      BY <2>1, <3>1, <3>2 DEF ControlRecv
  <2> QED
    BY <1>1, <2>1, DaemonKeepsOff
<1>2. CASE \E h \in Handlers : HandlerStep(h)
  BY <1>2, HandlerKeepsOff
<1>3. ASSUME NEW t \in Callers, CallerStep(t), ~Routine(t)
      PROVE  sock' = sock
  <2>1. Bind(t) \/ BindStep(t) \/ Returned(t)
    BY <1>3, CallerBinds
  <2> QED
    BY <2>1
       DEF Bind, BindStep, BindBinded, BindStatus, BindConnect, BindLinked, BindAccount,
           BindName, BindAuthed, BindBound, BindGoesOn, BindUpdated, BindConnected,
           SetStatus, BindFlag, BindSave, BindSavePassword, SaveAccount, SavePassword,
           BindUnlock, Returned, shared
<1>4. CASE Environment
  <2>1. ~AgentPushes
    BY DEF OnlyBinds, AgentPushes
  <2>2. CASE AgentStarts \/ AgentDrops
    BY <2>2, StateOnly DEF AgentStarts, AgentDrops
  <2>3. CASE Reboot
    BY <2>3 DEF Reboot, AllFree, FreeSock
  <2> QED
    BY <1>4, <2>1, <2>2, <2>3 DEF Environment
<1> QED
  BY <1>1, <1>2, <1>3, <1>4, RoutineFills DEF ApiNext, Next, vars

LEMMA OkBindsStep ==
  ASSUME OnlyBinds, ApiTypeOK, Places, Access, Inboxes, Asked, OkBinds, [ApiNext]_vars
  PROVE  OkBinds'
<1> SUFFICES ASSUME NEW u \in Threads, NEW f \in Fds,
                    sock'[f].in = <<Answer(u, "BINDEV", TRUE)>>
             PROVE  agent'.bound
  BY DEF OkBinds
<1>1. CASE sock'[f].in = sock[f].in
  BY <1>1, AgentBinds DEF OkBinds
<1>2. ASSUME NEW t \in Threads, Send(t), sock'[f].in # sock[f].in
      PROVE  agent'.bound
  <2> DEFINE c == frame[t].cmd
  <2>1. sock \in [Fds -> Sockets]
    BY DEF ApiTypeOK, Typed
  <2>2. Answered(t, cloud.fd, c) /\ Connected(cloud.fd)
    BY <1>2, StateOnly DEF Send, Unanswered
  <2>3. PICK ok \in Verdicts(c) :
          /\ agent' = Served(c, ok, frame[t].info)
          /\ sock' = [sock EXCEPT ![cloud.fd].in = Append(@, Answer(t, c, ok)),
                                  ![cloud.fd].auth = @ \/ (c = "AUTH" /\ ok)]
    BY <2>2 DEF Answered
  <2>4. f = cloud.fd /\ f \in Fds
    BY <1>2, <2>1, <2>2, <2>3 DEF Connected
  <2>5. sock'[f].in = Append(sock[f].in, Answer(t, c, ok))
    <3> PICK i : i = Append(sock[f].in, Answer(t, c, ok))
      OBVIOUS
    <3> QED
      BY <2>1, <2>3, <2>4 DEF Sockets
  <2>6. sock[f].in = <<>>
    <3>1. \A v \in Threads : ~Reading(v)
      BY <1>2, NobodyElse DEF Send, Reading, Connects, Requests
    <3> QED
      BY <2>4, <3>1 DEF Inboxes, Quiet
  <2>7. Answer(t, c, ok) = Answer(u, "BINDEV", TRUE)
    <3>1. Append(sock[f].in, Answer(t, c, ok)) = <<Answer(t, c, ok)>>
      BY <2>6
    <3> QED
      BY <2>5, <3>1, OneEntry
  <2>8. c = "BINDEV" /\ ok = TRUE
    BY <2>7 DEF Answer, Packet
  <2> QED
    BY <2>3, <2>8 DEF Served, ApiTypeOK, Typed
<1>3. <<Hello>> # <<Answer(u, "BINDEV", TRUE)>> /\ <<>> # <<Answer(u, "BINDEV", TRUE)>>
  <2>1. Hello # Answer(u, "BINDEV", TRUE)
    BY DEF Hello, Answer, Packet
  <2> QED
    BY <2>1, OneEntry
<1> QED
  BY <1>1, <1>2, <1>3, InboxFills

\* An OK that swCloudBind takes as the answer to its BINDEV.
LEMMA RoutineGrants ==
  ASSUME OnlyBinds, ApiTypeOK, Places, Access, Inboxes, Asked, OkBinds,
         NEW t \in Callers, Routine(t), Granted(t)', ~Granted(t)
  PROVE  agent.bound
<1> USE CallerThread
<1>1. pc[t] \in RoutineLabels
  BY RoutineMoves DEF Closes, Connects, Requests, RoutineLabels
<1>2. pc[t] \in Requests /\ frame[t].back = "bind_bound" /\ pc'[t] = "bind_bound"
  <2>1. /\ pc[t] \in Closes => frame[t].back \in {"bind_connect", "bind_unlock"}
        /\ pc[t] \in Connects => frame[t].back \in {"bind_linked"}
        /\ pc[t] \in Requests =>
             frame[t].back \in {"bind_authed", "bind_bound", "bind_updated"}
    BY DEF OnlyBinds, Places, CallerPlaces
  <2>2. CASE pc[t] \in Closes \cup Connects
    BY <2>1, <2>2, RoutineMoves DEF Granted, Closes, Connects, Requests
  <2>3. CASE pc[t] \in Requests
    BY <2>1, <2>3, RoutineMoves DEF Granted, Closes, Connects, Requests
  <2> QED
    BY <1>1, <2>2, <2>3 DEF Closes, Connects, Requests, RoutineLabels
<1>3. frame'[t].res = "ok" /\ frame[t].cmd = "BINDEV"
  BY <1>2 DEF Granted, Asked, Requests
<1>4. Send(t) \/ RecvFd(t) \/ Recv(t)
  BY <1>2 DEF Requests, Routine, CloseTest, CloseFd, CloseClear, Socket, Connect,
              HelloFd, ReadHello
<1>5. ~RequestFails(t)
  BY <1>3, CameBack DEF RequestFails
<1>6. Recv(t)
  <2>1. \A l : Goto(t, l) => pc'[t] = l
    BY DEF Goto, ApiTypeOK, Typed
  <2> QED
    BY <1>2, <1>4, <1>5, <2>1 DEF Send, RecvFd
<1> DEFINE f == frame[t].rfd
<1>7. HasPacket(f) /\ Return(t, IF Head(sock[f].in).ok THEN "ok" ELSE "no")
  BY <1>5, <1>6 DEF Recv
<1>8. Head(sock[f].in).ok
  <2>1. CASE ~Head(sock[f].in).ok
    BY <1>3, <1>7, <2>1, CameBack
  <2> QED
    BY <2>1
<1>9. PICK ok \in BOOLEAN : sock[f].in = <<Answer(t, "BINDEV", ok)>>
  BY <1>3, <1>6, <1>7 DEF Recv, HasPacket, Inboxes, Awaited, Answerable, Found
<1>10. ok = TRUE
  <2>1. Head(sock[f].in) = Answer(t, "BINDEV", ok)
    BY <1>9
  <2>2. Answer(t, "BINDEV", ok).ok = ok
    BY DEF Answer, Packet
  <2> QED
    BY <1>8, <2>1, <2>2
<1> QED
  BY <1>7, <1>9, <1>10 DEF OkBinds, HasPacket

\* Beyond the answer to BINDEV swCloudBind goes only when it was OK.
LEMMA CallerGrants ==
  ASSUME ApiTypeOK, NEW t \in Callers, Bind(t) \/ BindStep(t) \/ Returned(t),
         Granted(t)'
  PROVE  Granted(t)
<1> USE CallerThread
<1>1. CASE pc'[t] \in Requests
  <2>1. frame'[t].back = "bind_updated"
    BY <1>1 DEF Granted, Requests
  <2>2. BindBound(t) /\ Result(t) = "ok"
    BY <1>1, <2>1, CallerAsks, Requested
  <2> QED
    BY <2>2 DEF BindBound, BindGoesOn, Granted, Result
<1>2. CASE pc'[t] \notin Requests
  <2> DEFINE Past == {"bind_bound", "bind_updated", "bind_connected", "bind_flag"}
  <2>1. pc'[t] \in Past
    BY <1>2 DEF Granted
  <2>2. CASE BindUpdated(t) \/ BindConnected(t)
    BY <2>2 DEF BindUpdated, BindConnected, SetStatus, Granted
  <2>3. CASE ~(BindUpdated(t) \/ BindConnected(t))
    <3>1. \/ \E l : l \notin Past /\ Goto(t, l)
          \/ \E l, b : l \notin Past /\ Call(t, l, b)
          \/ \E c, b : Request(t, c, b)
          \/ \E r, l : l \notin Past /\ SetResult(t, r, l)
          \/ pc' = [pc EXCEPT ![t] = "idle"]
      BY <2>3
         DEF Bind, BindStep, BindBinded, BindStatus, BindConnect, BindLinked,
             BindAccount, BindName, BindAuthed, BindBound, BindGoesOn, BindFlag,
             BindSave, BindSavePassword, SaveAccount, SavePassword, BindUnlock, Returned
    <3>2. ASSUME NEW l, l \notin Past, Goto(t, l)
          PROVE  pc'[t] \notin Past
      BY <3>2 DEF Goto, ApiTypeOK, Typed
    <3>3. pc' # [pc EXCEPT ![t] = "idle"]
      BY <2>1 DEF ApiTypeOK, Typed
    <3> QED
      BY <1>2, <2>1, <3>1, <3>2, <3>3, Called, Requested, ResultSet DEF Requests
  <2> QED
    BY <2>2, <2>3
<1> QED
  BY <1>1, <1>2

LEMMA GrantStep ==
  ASSUME OnlyBinds, ApiTypeOK, Places, Access, Inboxes, GrantInv, [ApiNext]_vars
  PROVE  GrantInv'
<1> USE DaemonThread, HandlerThread, CallerThread
<1>1. Asked /\ OkBinds /\ \A u \in Callers : Granted(u) => agent.bound
  BY DEF GrantInv
<1>2. Asked' /\ OkBinds'
  BY <1>1, AskedStep, OkBindsStep
<1>3. ASSUME NEW u \in Callers, Granted(u)'
      PROVE  agent'.bound
  <2>1. agent.bound
    <3>1. CASE pc'[u] = pc[u] /\ frame'[u] = frame[u]
      BY <1>1, <1>3, <3>1 DEF Granted
    <3>2. CASE Routine(u)
      BY <1>1, <1>3, <3>2, RoutineGrants
    <3>3. CASE CallerStep(u) /\ ~Routine(u)
      BY <1>1, <1>3, <3>3, CallerBinds, CallerGrants
    <3>4. CASE DaemonStep
      BY <3>1, <3>4, DaemonAlone DEF Alone
    <3>5. CASE \E h \in Handlers : HandlerStep(h)
      BY <3>1, <3>5, HandlerMoves DEF Alone
    <3>6. CASE \E v \in Callers : v # u /\ CallerStep(v)
      BY <3>1, <3>6, CallerAlone DEF Alone
    <3>7. ~Reboot
      <4>1. Reboot => pc'[u] = "idle"
        BY DEF Reboot, Started
      <4> QED
        BY <1>3, <4>1 DEF Granted, Requests
    <3> QED
      BY <3>1, <3>2, <3>3, <3>4, <3>5, <3>6, <3>7, EnvironmentMoves
         DEF ApiNext, Next, vars
  <2> QED
    BY <1>1, <2>1, AgentBinds
<1> QED
  BY <1>2, <1>3 DEF GrantInv

LEMMA GrantInit == Init => GrantInv
<1> SUFFICES ASSUME Init PROVE GrantInv
  OBVIOUS
<1>1. \A t \in Threads : pc[t] \in {"boot", "idle"}
  BY DEF Init, Started
<1>2. \A f \in Fds : sock[f].in = <<>>
  BY DEF Init, AllFree, FreeSock
<1>3. \A p : <<>> # <<p>>
  OBVIOUS
<1> QED
  BY <1>1, <1>2, <1>3, CallerThread DEF GrantInv, Asked, OkBinds, Granted, Requests

-----------------------------------------------------------------------------
(* What follows for swCloudBind.                                           *)

\* Beside any number of callers of swCloudBind, through power losses, failed
\* connects and dropped connections: the caller holds the lock to the end, the
\* daemon keeps off the connection meanwhile, and whoever is about to read
\* finds the packet it waits for, or the end of the connection.
THEOREM BindKnows ==
  ASSUME OnlyBinds
  PROVE  ApiSpec => []BindInv
<1>1. BindInv /\ ApiTypeOK /\ [ApiNext]_vars => BindInv'
  <2> SUFFICES ASSUME BindInv, ApiTypeOK, [ApiNext]_vars PROVE BindInv'
    OBVIOUS
  <2>1. Places' /\ Access' /\ Inboxes'
    BY PlacesStep, AccessStep, InboxesStep DEF BindInv
  <2>2. WriterInv'
    BY <2>1, BindsWrite, WriterStep DEF BindInv
  <2>3. GrantInv'
    BY GrantStep DEF BindInv
  <2> QED
    BY <2>1, <2>2, <2>3 DEF BindInv
<1>2. Init => BindInv
  BY PlacesInit, BindInit, WriterInit, GrantInit DEF BindInv
<1> QED
  BY <1>1, <1>2, ApiTypes, PTL DEF ApiSpec

\* Of the three that remember the binding, the agent changes in a request, and
\* the device in two stores of swCloudBind or in a boot.
LEMMA BindMoves ==
  ASSUME OnlyBinds, ApiTypeOK, Places, [ApiNext]_vars
  PROVE  \/ /\ agent'.bound = agent.bound
            /\ cloud'.binded = cloud.binded
            /\ conf'.account = conf.account
         \/ \E t \in Threads : Send(t)
         \/ \E t \in Callers : BindFlag(t) \/ BindSave(t)
         \/ Reboot
<1> SUFFICES ASSUME \A t \in Threads : ~Send(t),
                    \A t \in Callers : ~BindFlag(t) /\ ~BindSave(t), ~Reboot
             PROVE  cloud'.binded = cloud.binded /\ conf'.account = conf.account
  BY AgentKept
<1>1. CASE DaemonStep
  BY <1>1, BindsWrite, DaemonKeeps DEF KeepsBinding
<1>2. CASE \E h \in Handlers : HandlerStep(h)
  BY <1>2, HandlerKeeps DEF KeepsBinding
<1>3. ASSUME NEW t \in Callers, CallerStep(t)
      PROVE  cloud'.binded = cloud.binded /\ conf'.account = conf.account
  <2>1. CASE BindAccount(t)
    BY <2>1 DEF BindAccount, ApiTypeOK, Typed, Clouds
  <2>2. CASE ~BindAccount(t)
    <3>1. ~UBindFlag(t) /\ ~UBindSave(t)
      BY DEF OnlyBinds, Places, CallerPlaces, BindLabels, PingLabels,
             RoutineLabels, UBindFlag, UBindSave, SaveAccount
    <3> QED
      BY <1>3, <2>2, <3>1, CallerKeeps DEF KeepsBinding
  <2> QED
    BY <2>1, <2>2
<1> QED
  BY <1>1, <1>2, <1>3, EnvironmentMoves DEF ApiNext, Next, vars

\* Nobody sends a request while swCloudBind has still to save the account.
LEMMA SentSaved ==
  ASSUME OnlyBinds, ApiTypeOK, BindInv, NEW t \in Threads, pc[t] = "send"
  PROVE  cloud.binded = (conf.account # NoUser)
<1>1. \A u \in Threads : ~Saving(u)
  <2> SUFFICES ASSUME NEW u \in Callers, pc[u] \in SaveLabels PROVE FALSE
    BY BindsWrite, SavingCaller DEF BindInv
  <2>1. pc[u] = "bind_save"
    BY DEF BindInv, OnlyBinds, Places, CallerPlaces, BindLabels, PingLabels,
           RoutineLabels, SaveLabels
  <2>2. Busy(u) /\ lock = u
    BY <2>1 DEF BindInv, Access, Locked, Busy, Calling, BindLabels
  <2>3. t # Daemon
    BY <2>2 DEF BindInv, Access, Away, At, Using, Requests
  <2>4. t \in Callers
    BY <2>3, ReturnsAway DEF BindInv, RoutineLabels
  <2>5. lock = t
    BY <2>4 DEF BindInv, Access, Locked, Calling, RoutineLabels
  <2> QED
    BY <2>1, <2>2, <2>5
<1>2. cloud.binded <=> conf.account # NoUser
  BY <1>1 DEF BindInv, WriterInv, ConfMatchesBinding
<1>3. cloud.binded \in BOOLEAN
  BY DEF ApiTypeOK, Typed, Clouds
<1> QED
  BY <1>2, <1>3, Zenon

LEMMA BindStepImplements ==
  ASSUME OnlyBinds, ApiTypeOK, BindInv, [ApiNext]_vars
  PROVE  [Abstract!Next]_(Abstract!binding)
<1> USE DEF Abstract!Next, Abstract!binding
<1>1. CASE /\ agent'.bound = agent.bound /\ cloud'.binded = cloud.binded
           /\ conf'.account = conf.account
  BY <1>1
<1>2. ASSUME NEW t \in Threads, Send(t)
      PROVE  Abstract!ServerChanges
  <2>1. cloud.binded = (conf.account # NoUser)
    BY <1>2, SentSaved DEF Send
  <2>2. cloud'.binded = cloud.binded /\ conf'.account = conf.account
    BY <1>2, RoutineKeeps DEF Routine, KeepsBinding
  <2>3. agent'.bound \in BOOLEAN
    BY <1>2 DEF Send, Answered, Unanswered, Verdicts, Served, ApiTypeOK, Typed
  <2> QED
    BY <2>1, <2>2, <2>3 DEF Abstract!ServerChanges
<1>3. ASSUME NEW t \in Callers, BindFlag(t)
      PROVE  Abstract!DeviceFollows
  <2>1. agent.bound = TRUE
    <3>1. Granted(t)
      BY <1>3 DEF BindFlag, Granted
    <3> QED
      BY <3>1 DEF BindInv, GrantInv, ApiTypeOK, Typed
  <2>2. cloud'.binded = TRUE /\ agent' = agent /\ conf' = conf
    BY <1>3 DEF BindFlag, ApiTypeOK, Typed, Clouds
  <2> QED
    BY <2>1, <2>2 DEF Abstract!DeviceFollows
<1>4. ASSUME NEW t \in Callers, BindSave(t)
      PROVE  Abstract!FileFollows
  <2>1. pc[t] = "bind_save"
    BY <1>4 DEF BindSave, SaveAccount
  <2>2. cloud.binded = TRUE /\ cloud.account # NoUser
    BY <2>1 DEF BindInv, WriterInv, Writing, Named, ApiTypeOK, Typed, Clouds
  <2>3. conf'.account = cloud.account /\ agent' = agent /\ cloud' = cloud
    BY <1>4 DEF BindSave, SaveAccount, ApiTypeOK, Typed
  <2> QED
    BY <2>2, <2>3 DEF Abstract!FileFollows
<1>5. CASE Reboot
  <2>1. cloud'.binded = (conf.account # NoUser)
    <3> PICK i \in Infos : cloud' = Booted(conf.account, i)
      BY <1>5 DEF Reboot
    <3>1. Booted(conf.account, i).binded = (conf.account # NoUser)
      BY Zenon DEF Booted
    <3> QED
      BY <3>1, Zenon
  <2>2. agent'.bound = agent.bound /\ conf' = conf
    BY <1>5 DEF Reboot, ApiTypeOK, Typed
  <2>3. Abstract!PowerLoss
    BY <2>1, <2>2, Zenon DEF Abstract!PowerLoss
  <2> QED
    BY <2>3
<1> QED
  BY <1>1, <1>2, <1>3, <1>4, <1>5, BindMoves DEF BindInv

\* swCloudBind beside the daemon implements Binding: the agent binds the device
\* first, binded and the saved account follow in this order, and no other
\* thread asks the agent anything before the account is saved.
THEOREM BindImplements ==
  ASSUME OnlyBinds
  PROVE  ApiSpec => ImplementsBinding
<1>1. Init => Abstract!Init
  BY DEF Init, Booted, Abstract!Init
<1>2. ApiTypeOK /\ BindInv /\ [ApiNext]_vars => [Abstract!Next]_(Abstract!binding)
  BY BindStepImplements
<1> QED
  BY <1>1, <1>2, ApiTypes, BindKnows, PTL
     DEF ApiSpec, ImplementsBinding, Abstract!Spec

\* A request gets its own answer, although the packets carry no number: a
\* thread that takes an answer off the connection asked for it.
THEOREM AnswersOwn ==
  ASSUME OnlyBinds
  PROVE  ApiSpec => AnswersMatched
<1> DEFINE Matched ==
      \A t \in Threads, f \in Fds :
        TakesAnswer(t, f) => /\ Head(sock[f].in).to = t
                             /\ Head(sock[f].in).cmd = frame[t].cmd
<1>1. BindInv => Matched
  <2> SUFFICES ASSUME BindInv, NEW t \in Threads, NEW f \in Fds, TakesAnswer(t, f)
               PROVE  Head(sock[f].in).to = t /\ Head(sock[f].in).cmd = frame[t].cmd
    OBVIOUS
  <2>1. CASE pc[t] = "recv"
    <3>1. Found(t, f)
      BY <2>1 DEF TakesAnswer, BindInv, Inboxes, Awaited, Answerable
    <3>2. PICK ok \in BOOLEAN : sock[f].in = <<Answer(t, frame[t].cmd, ok)>>
      BY <2>1, <3>1 DEF Found, TakesAnswer
    <3> QED
      BY <3>2 DEF Answer, Packet
  <2>2. CASE pc[t] = "ctl_recv"
    <3>1. t = Daemon
      BY <2>2 DEF Threads, BindInv, Places, CallerPlaces, HandlerLabels,
                  RoutineLabels, BindLabels, UBindLabels, PingLabels
    <3>2. f = cloud.fd
      BY <2>2, <3>1 DEF TakesAnswer, BindInv, Inboxes, EndMet, At
    <3>3. sock[f].in = <<>>
      BY <2>2, <3>1, <3>2, NothingPushed DEF BindInv, Controlling
    <3> QED
      BY <3>3 DEF TakesAnswer
  <2> QED
    BY <2>1, <2>2 DEF TakesAnswer
<1>2. ApiSpec => [][Matched]_vars
  BY <1>1, BindKnows, PTL DEF ApiSpec
<1> QED
  BY <1>2 DEF AnswersMatched

\* No descriptor is closed under a thread that waits in read(): nobody who is
\* beside swCloudBind ever waits for a packet that is not there or on its way.
THEOREM NobodyLeft ==
  ASSUME OnlyBinds
  PROVE  ApiSpec => NobodyStranded
<1> DEFINE Safe ==
      \A t \in Threads, f \in Fds : Waiting(t, f) => sock'[f].st # "free"
<1>1. BindInv => Safe
  <2> SUFFICES ASSUME BindInv, NEW t \in Threads, NEW f \in Fds, Waiting(t, f)
               PROVE  FALSE
    OBVIOUS
  <2>1. CASE pc[t] \in {"hello", "recv"}
    <3>1. Found(t, f)
      BY <2>1 DEF Waiting, BindInv, Inboxes, Awaited, Answerable
    <3> QED
      BY <3>1 DEF Found, Waiting
  <2>2. CASE pc[t] = "ctl_recv"
    <3>1. t = Daemon
      BY <2>2 DEF Threads, BindInv, Places, CallerPlaces, HandlerLabels,
                  RoutineLabels, BindLabels, UBindLabels, PingLabels
    <3>2. f = cloud.fd /\ sock[f].st # "up"
      BY <2>2, <3>1 DEF Waiting, BindInv, Inboxes, EndMet, At
    <3> QED
      BY <3>2 DEF Waiting
  <2> QED
    BY <2>1, <2>2 DEF Waiting
<1>2. ApiSpec => [][Safe]_vars
  BY <1>1, BindKnows, PTL DEF ApiSpec
<1> QED
  BY <1>2 DEF NobodyStranded

-----------------------------------------------------------------------------
(* The back-off.                                                           *)

\* The last wait that a retry takes fits the int that holds it.
WaitsFit == \A n \in Nat : n < RetryMax => 2 * BackOff[n] < IntMod

\* The waits before the retries 0, 1, .. n.
Waits(f, n) == f = [i \in 0..n |-> IF i = 0 THEN RetryWait ELSE 2 * f[i - 1]]

LEMMA WaitsMore ==
  ASSUME NEW n \in Nat, NEW f, Waits(f, n)
  PROVE  \E g : Waits(g, n + 1)
<1> PICK k : k = n + 1
  OBVIOUS
<1> DEFINE g == [i \in 0..k |-> IF i = k THEN 2 * f[n] ELSE f[i]]
<1>1. \A i \in 0..k : /\ i = k => i # 0 /\ i - 1 = n /\ n # k
                      /\ i # k => i \in 0..n /\ (i # 0 => i - 1 \in 0..k /\ i - 1 # k)
  OBVIOUS
<1>2. n \in 0..k
  OBVIOUS
<1>3. ASSUME NEW i \in 0..k
      PROVE  g[i] = IF i = 0 THEN RetryWait ELSE 2 * g[i - 1]
  <2>1. CASE i = k
    BY <1>1, <1>2, <2>1
  <2>2. CASE i # k
    <3>1. f[i] = IF i = 0 THEN RetryWait ELSE 2 * f[i - 1]
      BY <1>1, <2>2 DEF Waits
    <3> QED
      BY <1>1, <2>2, <3>1
  <2> QED
    BY <2>1, <2>2
<1>4. g = [i \in 0..k |-> g[i]]
  OBVIOUS
<1> HIDE DEF g
<1>5. g = [i \in 0..k |-> IF i = 0 THEN RetryWait ELSE 2 * g[i - 1]]
  BY <1>3, <1>4, Zenon
<1> QED
  BY <1>5 DEF Waits

LEMMA WaitsExist ==
  ASSUME NEW n \in Nat
  PROVE  \E f : Waits(f, n)
<1> DEFINE T == {i \in Nat : ~\E f : Waits(f, i)}
<1>1. SUFFICES ASSUME T # {} PROVE FALSE
  OBVIOUS
<1>2. PICK m \in T : \A k \in T : m <= k
  <2>1. T \in SUBSET Nat
    OBVIOUS
  <2> QED
    BY <1>1, <2>1, Least, Zenon
<1>3. CASE m = 0
  <2>1. 0..0 = {0}
    OBVIOUS
  <2>2. Waits([i \in {0} |-> RetryWait], 0)
    BY <2>1 DEF Waits
  <2> QED
    BY <1>2, <1>3, <2>2
<1>4. CASE m # 0
  <2>1. m - 1 \in Nat /\ (m - 1) + 1 = m /\ ~(m <= m - 1)
    BY <1>2, <1>4
  <2>2. \E f : Waits(f, m - 1)
    BY <1>2, <2>1
  <2> QED
    BY <1>2, <2>1, <2>2, WaitsMore
<1> QED
  BY <1>3, <1>4

LEMMA WaitsAgree ==
  ASSUME NEW n \in Nat, NEW k \in 0..n, NEW f, NEW g, Waits(f, n), Waits(g, k)
  PROVE  f[k] = g[k]
<1> DEFINE T == {i \in 0..k : f[i] # g[i]}
<1>1. SUFFICES ASSUME T # {} PROVE FALSE
  OBVIOUS
<1>2. T \in SUBSET Nat
  OBVIOUS
<1>3. PICK i \in T : \A j \in T : i <= j
  BY <1>1, <1>2, Least, Zenon
<1>4. i \in 0..k /\ i \in 0..n /\ f[i] # g[i]
  BY <1>3
<1>5. f[i] = IF i = 0 THEN RetryWait ELSE 2 * f[i - 1]
  BY <1>4 DEF Waits
<1>6. g[i] = IF i = 0 THEN RetryWait ELSE 2 * g[i - 1]
  BY <1>4 DEF Waits
<1>7. i # 0 => i - 1 \in 0..k /\ ~(i <= i - 1)
  BY <1>4
<1>8. i # 0 => f[i - 1] = g[i - 1]
  BY <1>3, <1>7
<1> QED
  BY <1>4, <1>5, <1>6, <1>8

\* The back-off is what its recursive definition says.
LEMMA BackOffs == BackOff = [n \in Nat |-> IF n = 0 THEN RetryWait ELSE 2 * BackOff[n - 1]]
<1> DEFINE W(n) == CHOOSE f : Waits(f, n)
           b == [n \in Nat |-> W(n)[n]]
<1>1. \A n \in Nat : Waits(W(n), n)
  BY WaitsExist, Zenon
<1> HIDE DEF W
<1>2. ASSUME NEW n \in Nat
      PROVE  W(n)[n] = IF n = 0 THEN RetryWait ELSE 2 * b[n - 1]
  <2>1. n \in 0..n
    OBVIOUS
  <2>2. W(n)[n] = IF n = 0 THEN RetryWait ELSE 2 * W(n)[n - 1]
    BY <1>1, <2>1 DEF Waits
  <2>3. ASSUME n # 0 PROVE W(n)[n - 1] = b[n - 1]
    <3>1. n - 1 \in Nat /\ n - 1 \in 0..n
      BY <2>3
    <3>2. W(n)[n - 1] = W(n - 1)[n - 1]
      BY <1>1, <3>1, WaitsAgree
    <3> QED
      BY <3>1, <3>2
  <2> QED
    BY <2>2, <2>3
<1>3. b = [n \in Nat |-> IF n = 0 THEN RetryWait ELSE 2 * b[n - 1]]
  BY <1>2
<1> HIDE DEF b
<1>4. \E f : f = [n \in Nat |-> IF n = 0 THEN RetryWait ELSE 2 * f[n - 1]]
  BY <1>3
<1> QED
  BY <1>4 DEF BackOff

LEMMA BackOffType ==
  ASSUME NEW n \in Nat
  PROVE  BackOff[n] \in Nat
<1> DEFINE T == {i \in Nat : BackOff[i] \notin Nat}
<1>1. SUFFICES ASSUME T # {} PROVE FALSE
  OBVIOUS
<1>2. T \in SUBSET Nat
  OBVIOUS
<1>3. PICK m \in T : \A k \in T : m <= k
  BY <1>1, <1>2, Least, Zenon
<1>4. BackOff[m] = IF m = 0 THEN RetryWait ELSE 2 * BackOff[m - 1]
  BY <1>3, BackOffs
<1>5. m # 0 => m - 1 \in Nat /\ ~(m <= m - 1)
  BY <1>3
<1>6. m # 0 => BackOff[m - 1] \in Nat
  BY <1>3, <1>5
<1>7. RetryWait \in Nat
  BY RetryAssumption
<1> QED
  BY <1>3, <1>4, <1>6, <1>7

\* While a retry may follow, the wait is not cut by the width of its int.
RetryInv == cloud.retries < RetryMax => cloud.retry_wait = BackOff[cloud.retries]

\* What a step does to the counters.
CountersKept ==
  cloud'.retries = cloud.retries /\ cloud'.retry_wait = cloud.retry_wait
CountersCleared == cloud'.retries = 0 /\ cloud'.retry_wait = RetryWait
CountersRaised ==
  /\ cloud.retries < RetryMax /\ cloud.waits >= cloud.retry_wait
  /\ cloud'.retries = cloud.retries + 1
  /\ cloud'.retry_wait = Wrap(2 * cloud.retry_wait)

LEMMA RoutineCounts ==
  ASSUME ApiTypeOK, NEW t \in Threads, Routine(t)
  PROVE  CountersKept
<1>1. cloud \in Clouds
  BY DEF ApiTypeOK, Typed
<1>2. CASE CloseClear(t) \/ Socket(t)
  BY <1>1, <1>2 DEF CloseClear, Socket, Clouds, CountersKept
<1>3. CASE Connect(t)
  BY <1>1, <1>3 DEF Connect, ConnectFails, Clouds, CountersKept
<1>4. CASE CloseTest(t) \/ CloseFd(t) \/ HelloFd(t) \/ ReadHello(t) \/ Send(t)
           \/ RecvFd(t) \/ Recv(t)
  BY <1>1, <1>4
     DEF CloseTest, CloseFd, HelloFd, ReadHello, ConnectFails, Send, RequestFails,
         RecvFd, Recv, shared, Clouds, CountersKept
<1> QED
  BY <1>2, <1>3, <1>4 DEF Routine

LEMMA DaemonCounts ==
  ASSUME ApiTypeOK, DaemonStep
  PROVE  CountersKept \/ CountersCleared \/ CountersRaised
<1> USE DaemonThread
<1>1. cloud \in Clouds
  BY DEF ApiTypeOK, Typed
<1>2. CASE SetConnecting \/ SetDisconnected \/ SetBroken \/ SetConnected
           \/ SetUnbound \/ Resume \/ UnbindStatus
  BY <1>1, <1>2
     DEF SetConnecting, SetDisconnected, SetBroken, SetConnected, SetUnbound, Resume,
         UnbindStatus, SetStatus, Clouds, CountersKept
<1>3. CASE WaitAgent \/ Dispatch \/ StatusInit \/ Linked \/ AuthDone \/ UpdateDone
           \/ StatusConnected \/ NeedUpdate \/ NeedRead \/ RefreshDone \/ Poll
           \/ PollSelect \/ ControlRecvFd \/ Reply
  BY <1>3
     DEF WaitAgent, Dispatch, StatusInit, Linked, AuthDone, UpdateDone,
         StatusConnected, NeedUpdate, NeedRead, RefreshDone, Poll, PollSelect,
         ControlRecvFd, Reply, shared, CountersKept
<1>4. CASE ControlLock \/ ControlPoll \/ ControlSelect \/ ControlRecv
           \/ UnbindAccount \/ UnbindPassword
  BY <1>4
     DEF ControlLock, ControlPoll, ControlSelect, ControlRecv, UnbindAccount,
         UnbindPassword, CountersKept
<1>5. CASE NeedClear \/ Pace \/ UnbindDone
  BY <1>1, <1>5 DEF NeedClear, Pace, UnbindDone, Clouds, CountersKept
<1>6. CASE ClearUnbound \/ Restart
  BY <1>1, <1>6 DEF ClearUnbound, Restart, ClearedCounters, Clouds, CountersCleared
<1>7. CASE Retry
  BY <1>1, <1>7 DEF Retry, MayRetry, Clouds, CountersKept, CountersRaised
<1> QED
  BY <1>2, <1>3, <1>4, <1>5, <1>6, <1>7, RoutineCounts DEF DaemonStep

LEMMA HandlerCounts ==
  ASSUME ApiTypeOK, NEW t \in Handlers, HandlerStep(t)
  PROVE  CountersKept
<1>1. cloud \in Clouds
  BY DEF ApiTypeOK, Typed
<1> QED
  BY <1>1
     DEF HandlerStep, DeliverField, DeliverUpnp, DeliverNetwork, Deliver, StoreField,
         MarkField, MarkNetwork, MarkUpdate, StoreUpnp, MarkUpnp, SetRestart, SetStatus,
         shared, Clouds, CountersKept

LEMMA CallerCounts ==
  ASSUME ApiTypeOK, NEW t \in Callers, CallerStep(t)
  PROVE  CountersKept \/ CountersCleared
<1>1. cloud \in Clouds
  BY DEF ApiTypeOK, Typed
<1>2. CASE Routine(t)
  BY <1>2, CallerThread, RoutineCounts
<1>3. CASE Bind(t) \/ BindStep(t)
  BY <1>1, <1>3
     DEF Bind, BindStep, BindBinded, BindStatus, BindConnect, BindLinked, BindAccount,
         BindName, BindAuthed, BindBound, BindGoesOn, BindUpdated, BindConnected,
         SetStatus, BindFlag, BindSave, BindSavePassword, SaveAccount, SavePassword,
         BindUnlock, shared, Clouds, CountersKept
<1>4. CASE UBind(t) \/ UBindStep(t)
  BY <1>1, <1>4
     DEF UBind, UBindStep, UBindStatus, UBindLinked, UBindAuthed, UBindDone, UBindGoesOn,
         UBindInit, UBindBroken, UBindOffline, SetStatus, UBindFlag, UBindSave,
         UBindSavePassword, SaveAccount, SavePassword, UBindClose, shared, Clouds,
         CountersKept
<1>5. CASE Ping(t) \/ PingAgain(t) \/ PingSet(t) \/ PingRead(t)
  BY <1>1, <1>5
     DEF Ping, PingAgain, PingSet, SetStatus, PingRead, shared, Clouds, CountersKept
<1>6. CASE PingClear(t)
  BY <1>1, <1>6 DEF PingClear, ClearedCounters, Clouds, CountersCleared
<1>7. CASE PingStep(t)
  BY <1>5, <1>6, <1>7 DEF PingStep
<1>8. CASE Returned(t)
  BY <1>8 DEF Returned, shared, CountersKept
<1> QED
  BY <1>2, <1>3, <1>4, <1>5, <1>7, <1>8 DEF CallerStep, CallerWork

LEMMA EnvironmentCounts ==
  ASSUME ApiTypeOK, Environment
  PROVE  CountersKept \/ CountersCleared
  BY DEF Environment, AgentStarts, AgentPushes, AgentDrops, Reboot, Booted,
         CountersKept, CountersCleared

LEMMA Counts ==
  ASSUME ApiTypeOK, [ApiNext]_vars
  PROVE  CountersKept \/ CountersCleared \/ CountersRaised
<1>1. CASE UNCHANGED vars
  BY <1>1 DEF vars, CountersKept
<1> QED
  BY <1>1, DaemonCounts, HandlerCounts, CallerCounts, EnvironmentCounts DEF ApiNext, Next

\* A wait that fits is doubled as it is.
LEMMA DoubleFits ==
  ASSUME WaitsFit, NEW n \in Nat, n < RetryMax
  PROVE  Wrap(BackOff[n]) = BackOff[n]
<1>1. PICK b, m : b = BackOff[n] /\ m = IntMod
  OBVIOUS
<1>2. b \in Nat /\ m \in Nat /\ 2 * b < m
  BY <1>1, BackOffType, RetryAssumption DEF WaitsFit
<1>3. b % m = b
  BY <1>2
<1>4. ~(2 * b >= m)
  BY <1>2
<1> QED
  BY <1>1, <1>3, <1>4 DEF Wrap

LEMMA RetryInvStep ==
  ASSUME WaitsFit, ApiTypeOK, RetryInv, [ApiNext]_vars
  PROVE  RetryInv'
<1> PICK n : n = cloud.retries
  OBVIOUS
<1>1. n \in Nat
  BY DEF ApiTypeOK, Typed, Clouds
<1>2. CASE CountersKept
  BY <1>2 DEF CountersKept, RetryInv
<1>3. CASE CountersCleared
  <2>1. BackOff[0] = RetryWait
    BY BackOffs
  <2> QED
    BY <1>3, <2>1 DEF CountersCleared, RetryInv
<1>4. CASE CountersRaised
  <2>1. n + 1 \in Nat /\ n + 1 # 0 /\ (n + 1) - 1 = n
    BY <1>1
  <2>2. BackOff[n + 1] = 2 * BackOff[n]
    BY <2>1, BackOffs
  <2>3. cloud.retry_wait = BackOff[n] /\ cloud'.retries = n + 1
    BY <1>4 DEF CountersRaised, RetryInv
  <2>4. cloud'.retry_wait = Wrap(BackOff[n + 1])
    BY <1>4, <2>2, <2>3 DEF CountersRaised
  <2> QED
    BY <2>1, <2>3, <2>4, DoubleFits DEF RetryInv
<1> QED
  BY <1>2, <1>3, <1>4, Counts

\* A retry never comes before its whole back-off is over, and none comes after the
\* last: for any back-off and any number of retries whose longest wait fits the int.
THEOREM RetriesPaced == ASSUME WaitsFit PROVE ApiSpec => RetryPaced
<1> DEFINE Paced ==
      cloud'.retries > cloud.retries =>
        cloud.retries < RetryMax /\ cloud.waits >= BackOff[cloud.retries]
<1>1. Init => RetryInv
  <2>1. BackOff[0] = RetryWait
    BY BackOffs
  <2> QED
    BY <2>1 DEF Init, Booted, RetryInv
<1>2. ApiTypeOK /\ RetryInv /\ [ApiNext]_vars => RetryInv'
  BY RetryInvStep
<1>3. ApiTypeOK /\ RetryInv /\ [ApiNext]_vars => [Paced]_vars
  <2> SUFFICES ASSUME ApiTypeOK, RetryInv, [ApiNext]_vars PROVE Paced
    OBVIOUS
  <2>1. cloud.retries \in Nat
    BY DEF ApiTypeOK, Typed, Clouds
  <2> QED
    BY <2>1, Counts DEF CountersKept, CountersCleared, CountersRaised, RetryInv
<1> QED
  BY <1>1, <1>2, <1>3, ApiTypes, PTL DEF ApiSpec, RetryPaced
=============================================================================
