------------------------------ MODULE Binding ------------------------------
(***************************************************************************)
(* What the cloud device promises about its binding to an account, which   *)
(* three parties remember: the cloud server, the device's memory and the   *)
(* device's saved configuration.  A change starts at the server, goes on   *)
(* to the memory and ends in the file; a power loss on the way takes the   *)
(* memory back to the file.                                                *)
(***************************************************************************)
EXTENDS TLAPS

VARIABLES
  server,   \* the server has the device bound
  device,   \* the device believes itself bound
  saved     \* the file says so

binding == <<server, device, saved>>

Init == server \in BOOLEAN /\ device = server /\ saved = server

\* The server takes up a change, or takes it back, only when the last one has
\* been saved.
ServerChanges ==
  /\ device = saved
  /\ server' \in BOOLEAN
  /\ UNCHANGED <<device, saved>>

DeviceFollows == device' = server /\ UNCHANGED <<server, saved>>
FileFollows == saved' = device /\ UNCHANGED <<server, device>>
PowerLoss == device' = saved /\ UNCHANGED <<server, saved>>

Next == ServerChanges \/ DeviceFollows \/ FileFollows \/ PowerLoss

Spec == Init /\ [][Next]_binding

-----------------------------------------------------------------------------
\* The device never believes alone what it believes: the server or the file
\* agrees with it, so one message or one reading of the file settles which.
NeverAlone == device \in {server, saved}

\* Whatever happens in the middle of a change, the three never disagree with
\* the device on both sides.
THEOREM Supported == Spec => []NeverAlone
<1>1. Init => NeverAlone
  BY DEF Init, NeverAlone
<1>2. NeverAlone /\ [Next]_binding => NeverAlone'
  BY DEF NeverAlone, Next, ServerChanges, DeviceFollows, FileFollows, PowerLoss, binding
<1> QED
  BY <1>1, <1>2, PTL DEF Spec
=============================================================================
