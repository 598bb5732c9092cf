\* Commands to register a user or to bind the device, pings, and UNBIND requests.
SPECIFICATION CommandSpec
CONSTANTS
  Daemon = daemon
  Handlers = {}
  Callers = {c1}
  NoThread = none
  Fds = {0}
  Users = {u1, u2}
  NoUser = nouser
  Infos = {i1}
  RetryWait = 1
  RetryMax = 1
  IntMod = 8
  Faults = {"refuse"}
  Refusals = {}
  Controls = {"UNBIND"}
  MaxInbox = 1
  Reboots = FALSE
  Messages = {}
  Ops <- CommandOps
  Words = {"REGISTER", "BIND"}
INVARIANTS CommandObeyed
PROPERTIES UnboundStaysQuiet
CHECK_DEADLOCK FALSE
