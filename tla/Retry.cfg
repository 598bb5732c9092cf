\* The daemon's back-off, its default parameters scaled down, with swCloudPing.
SPECIFICATION ApiFairSpec
CONSTANTS
  Daemon = daemon
  Handlers = {h1}
  Callers = {c1}
  NoThread = none
  Fds = {0}
  Users = {u1}
  NoUser = nouser
  Infos = {i1}
  RetryWait <- ScaledWait
  RetryMax <- ScaledMax
  IntMod <- ScaledMod
  Faults <- AgentFaults
  Refusals = {}
  Controls = {}
  MaxInbox = 1
  Reboots = FALSE
  Messages = {"network"}
  Ops = {"Ping"}
PROPERTIES  Reconnects LossNoticed 
