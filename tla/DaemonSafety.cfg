\* The daemon and one handler under every fault, with power losses.
SPECIFICATION Spec
CONSTANTS
  Daemon = daemon
  Handlers = {h1}
  Callers = {}
  NoThread = none
  Fds = {0, 1}
  Users = {u1}
  NoUser = nouser
  Infos = {i1, i2}
  RetryWait = 1
  RetryMax = 1
  IntMod = 8
  Faults <- AnyFault
  Refusals <- BoundCommands
  Controls = {"ECHO", "UNBIND"}
  MaxInbox = 2
  Reboots = TRUE
  Messages <- AllMessages
INVARIANTS TypeOK DaemonInv NoDescriptorLeak ConnectedIsAuthenticated
PROPERTIES AuthFirst UnbindAgreed ImplementsBinding
