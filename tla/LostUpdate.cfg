\* A change of name while the daemon looks at the update flag.
SPECIFICATION Spec
CONSTANTS
  Daemon = daemon
  Handlers = {h1}
  Callers = {}
  NoThread = none
  Fds = {0}
  Users = {u1}
  NoUser = nouser
  Infos = {i1}
  RetryWait = 1
  RetryMax = 1
  IntMod = 8
  Faults = {}
  Refusals = {}
  Controls = {}
  MaxInbox = 1
  Reboots = FALSE
  Messages = {"field"}
PROPERTIES UpdateSeen
