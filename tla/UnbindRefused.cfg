\* swCloudUBind of a device whose server refuses, beside the daemon.
SPECIFICATION ApiSpec
CONSTANTS
  Daemon = daemon
  Handlers = {}
  Callers = {c1}
  NoThread = none
  Fds = {0, 1}
  Users = {u1}
  NoUser = nouser
  Infos = {i1}
  RetryWait = 1
  RetryMax = 1
  IntMod = 8
  Faults = {}
  Refusals = {"UBINDEV"}
  Controls = {}
  MaxInbox = 1
  Reboots = FALSE
  Messages = {}
  Ops = {"UBind"}
INVARIANTS UBindSucceeds
