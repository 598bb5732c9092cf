\* swCloudBind by one caller beside the daemon and a handler, with power losses.
SPECIFICATION CallerFairSpec
CONSTANTS
  Daemon = daemon
  Handlers = {h1}
  Callers = {c1}
  NoThread = none
  Fds = {0, 1}
  Users = {u1}
  NoUser = nouser
  Infos = {i1}
  RetryWait = 1
  RetryMax = 0
  IntMod = 8
  Faults = {"refuse", "drop"}
  Refusals = {"AUTH", "BINDEV", "UPDEV"}
  Controls = {}
  MaxInbox = 1
  Reboots = TRUE
  Messages = {"network"}
  Ops = {"Bind"}
INVARIANTS ApiTypeOK BindInv
PROPERTIES AnswersMatched StatusGuarded   ImplementsBinding
