\* swCloudUBind by one caller beside the daemon, with power losses.
SPECIFICATION ApiSpec
CONSTANTS
  Daemon = daemon
  Handlers = {}
  Callers = {c1}
  NoThread = none
  Fds = {0, 1}
  Users = {u1}
  NoUser = nouser
  Infos = {i1}
  RetryWait = 1
  RetryMax = 1
  IntMod = 8
  Faults = {"drop"}
  Refusals = {"UBINDEV"}
  Controls = {}
  MaxInbox = 1
  Reboots = TRUE
  Messages = {}
  Ops = {"UBind"}
INVARIANTS ConfMatchesBinding UnbindDurable
